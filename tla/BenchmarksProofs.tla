---------------------------- MODULE BenchmarksProofs ----------------------------
(***************************************************************************)
(* Theorems about the report scripts, for any shape of the model, trace    *)
(* and cache sizes.                                                        *)
(***************************************************************************)
EXTENDS Benchmarks, NumberLemmas

-----------------------------------------------------------------------------
(* One script runs at a time: each step is a step of every component or      *)
(* leaves it alone.                                                          *)
LEMMA ScriptSteps ==
  ASSUME [Next]_vars
  PROVE  /\ [PoliciesNext]_policyVars /\ [SweepNext]_sweepVars
         /\ [AblationNext]_ablationVars /\ [ReportNext]_reportVars
  BY DEF Next, vars, HotCacheScript, PerplexityScript, BytesScript, OverlapScript

-----------------------------------------------------------------------------
(* Folds.  Elements of a sequence are folded in from the last position back; *)
(* FoldStep is that recursion over sets of positions, for a step g tabulated *)
(* on the values V that occur.                                               *)
FoldStep(base, g, f, s) == IF s = {} THEN base ELSE g[<<f[s \ {Max(s)}], Max(s)>>]

LEMMA MaxOfPositions ==
  ASSUME NEW n \in Nat, NEW s \in SUBSET (1 .. n), s # {}
  PROVE  Max(s) \in s /\ \A k \in s : k <= Max(s)
<1>1. s # {}
  OBVIOUS
<1> DEFINE Down == {n - j : j \in s}
<1>2. Down \in SUBSET Nat /\ Down # {}
  <2>1. \A j \in s : j \in Nat /\ n - j \in Nat
    OBVIOUS
  <2>2. QED
    BY <1>1, <2>1
<1>3. PICK d \in Down : \A e \in Down : d <= e
  BY <1>2, LeastElement
<1>4. PICK j \in s : d = n - j
  BY <1>3
<1>5. \A i \in s : j >= i
  <2> TAKE i \in s
  <2>1. n - i \in Down /\ i \in Int /\ j \in Int
    OBVIOUS
  <2>2. n - j <= n - i
    BY <1>3, <1>4, <2>1
  <2>3. QED
    BY <2>1, <2>2
<1>6. Max(s) \in s /\ \A i \in s : Max(s) >= i
  BY <1>5 DEF Max
<1>7. QED
  BY <1>6

LEMMA MaxOfTwo ==
  ASSUME NEW x \in Int, NEW y \in Int
  PROVE  /\ Max({x, y}) = IF x < y THEN y ELSE x
         /\ Min({x, y}) = IF x < y THEN x ELSE y
<1>1. \E m \in {x, y} : \A z \in {x, y} : m >= z
  OBVIOUS
<1>2. Max({x, y}) \in {x, y} /\ \A z \in {x, y} : Max({x, y}) >= z
  BY <1>1 DEF Max
<1>3. \E m \in {x, y} : \A z \in {x, y} : m <= z
  OBVIOUS
<1>4. Min({x, y}) \in {x, y} /\ \A z \in {x, y} : Min({x, y}) <= z
  BY <1>3 DEF Min
<1>5. QED
  BY <1>2, <1>4

LEMMA FoldExists ==
  ASSUME NEW n \in Nat, NEW V, NEW base \in V, NEW g \in [V \X (1 .. n) -> V]
  PROVE  \E f \in [SUBSET (1 .. n) -> V] :
           \A s \in SUBSET (1 .. n) : f[s] = FoldStep(base, g, f, s)
<1> DEFINE D == 1 .. n
           Upto(m) == \E f \in [SUBSET D -> V] :
                        \A s \in SUBSET (1 .. m) : s \in SUBSET D => f[s] = FoldStep(base, g, f, s)
           T == {m \in Nat : m <= n => Upto(m)}
<1>1. 0 \in T
  <2> DEFINE f == [s \in SUBSET D |-> base]
  <2>1. f \in [SUBSET D -> V] /\ f[{}] = base
    OBVIOUS
  <2>2. 1 .. 0 = {}
    OBVIOUS
  <2> HIDE DEF f
  <2>3. \A s \in SUBSET (1 .. 0) : f[s] = FoldStep(base, g, f, s)
    BY <2>1, <2>2 DEF FoldStep
  <2>4. Upto(0)
    BY <2>1, <2>3
  <2>5. QED
    BY <2>4
<1>2. ASSUME NEW m \in Nat, m \in T PROVE m + 1 \in T
  <2> HIDE DEF Upto
  <2> SUFFICES ASSUME m + 1 <= n PROVE Upto(m + 1)
    OBVIOUS
  <2>0. Upto(m)
    BY <1>2
  <2> DEFINE p == m + 1
  <2>1. p \in D /\ p \notin 1 .. m /\ 1 .. p = (1 .. m) \cup {p} /\ 1 .. m \subseteq D
    OBVIOUS
  <2>2. PICK f \in [SUBSET D -> V] :
          \A s \in SUBSET (1 .. m) : s \in SUBSET D => f[s] = FoldStep(base, g, f, s)
    BY <2>0 DEF Upto
  <2> HIDE DEF p
  <2> DEFINE h == [s \in SUBSET D |-> IF p \in s THEN g[<<f[s \ {p}], p>>] ELSE f[s]]
  <2>3. \A s \in SUBSET D : s \ {p} \in SUBSET D /\ f[s \ {p}] \in V /\ f[s] \in V
    OBVIOUS
  <2>4. \A s \in SUBSET D : g[<<f[s \ {p}], p>>] \in V
    BY <2>1, <2>3
  <2>5. h \in [SUBSET D -> V]
    BY <2>3, <2>4
  <2>6. ASSUME NEW s \in SUBSET (1 .. p), s \in SUBSET D PROVE h[s] = FoldStep(base, g, h, s)
    <3>1. CASE p \in s
      <4>1. Max(s) = p
        <5>1. \A k \in s : k <= p /\ k \in Nat /\ p \in Nat
          BY <2>6 DEF p
        <5>2. Max(s) \in s /\ \A k \in s : k <= Max(s)
          BY <2>1, <2>6, <3>1, MaxOfPositions
        <5>3. Max(s) <= p /\ p <= Max(s) /\ Max(s) \in Nat /\ p \in Nat
          BY <3>1, <5>1, <5>2
        <5>4. QED
          BY <5>3
      <4>2. s \ {p} \in SUBSET D /\ p \notin s \ {p}
        BY <2>6
      <4>3. h[s \ {p}] = f[s \ {p}]
        BY <4>2
      <4>4. h[s] = g[<<f[s \ {p}], p>>]
        BY <2>6, <3>1
      <4>5. QED
        BY <3>1, <4>1, <4>3, <4>4 DEF FoldStep
    <3>2. CASE p \notin s
      <4>1. s \in SUBSET (1 .. m)
        BY <2>1, <2>6, <3>2
      <4>2. h[s] = f[s] /\ s \ {Max(s)} \in SUBSET D /\ h[s \ {Max(s)}] = f[s \ {Max(s)}]
        BY <2>6, <3>2
      <4>3. f[s] = FoldStep(base, g, f, s)
        BY <2>2, <2>6, <4>1
      <4>4. QED
        BY <4>2, <4>3 DEF FoldStep
    <3>3. QED
      BY <3>1, <3>2
  <2> HIDE DEF h
  <2>7. QED
    BY <2>5, <2>6 DEF p, Upto
<1> HIDE DEF T
<1>3. n \in T
  BY <1>1, <1>2, SetInduction
<1>4. QED
  <2>1. n \in Nat => n <= n
    OBVIOUS
  <2>2. Upto(n)
    BY <1>3, <2>1 DEF T
  <2>3. QED
    BY <2>2

Folded(n, V, base, g) ==
  \E f \in [SUBSET (1 .. n) -> V] : \A s \in SUBSET (1 .. n) : f[s] = FoldStep(base, g, f, s)

LEMMA FoldsExist ==
  \A n \in Nat : \A V : \A base \in V : \A g \in [V \X (1 .. n) -> V] : Folded(n, V, base, g)
  BY FoldExists DEF Folded

(* Up to position k + 1 the fold is that up to k and one step.               *)
LEMMA PrefixOfPositions ==
  ASSUME NEW n \in Nat, NEW k \in 0 .. n - 1
  PROVE  /\ 1 .. k + 1 \in SUBSET (1 .. n) /\ 1 .. k + 1 # {}
         /\ Max(1 .. k + 1) = k + 1 /\ (1 .. k + 1) \ {k + 1} = 1 .. k
<1> DEFINE p == k + 1
<1>1. /\ 1 .. p \in SUBSET (1 .. n) /\ p \in 1 .. p /\ 1 .. p # {}
      /\ (1 .. p) \ {p} = 1 .. k
  <2>1. k \in Nat /\ p \in Nat /\ p <= n /\ 1 <= p
    OBVIOUS
  <2>2. 1 .. p \in SUBSET (1 .. n) /\ p \in 1 .. p
    BY <2>1
  <2>3. \A j : j \in (1 .. p) \ {p} <=> j \in 1 .. k
    BY <2>1
  <2>4. QED
    BY <2>2, <2>3
<1>2. \A j \in 1 .. p : j <= p /\ j \in Nat /\ p \in Nat
  OBVIOUS
<1> HIDE DEF p
<1>3. Max(1 .. p) \in 1 .. p /\ \A j \in 1 .. p : j <= Max(1 .. p)
  BY <1>1, MaxOfPositions
<1>4. Max(1 .. p) <= p /\ p <= Max(1 .. p) /\ Max(1 .. p) \in Nat /\ p \in Nat
  BY <1>1, <1>2, <1>3
<1>5. Max(1 .. p) = p
  BY <1>4
<1>6. QED
  BY <1>1, <1>5 DEF p

(* Ascending lists a set of natural numbers from the least to the greatest.  *)
LEMMA AscendingLists ==
  ASSUME NEW S \in SUBSET Nat, IsFiniteSet(S)
  PROVE  /\ Cardinality(S) \in Nat /\ Ascending(S) \in Seq(S)
         /\ Len(Ascending(S)) = Cardinality(S) /\ DOMAIN Ascending(S) = 1 .. Cardinality(S)
         /\ \A j, k \in 1 .. Cardinality(S) : j < k => Ascending(S)[j] < Ascending(S)[k]
         /\ \A c \in S : \E k \in 1 .. Cardinality(S) : Ascending(S)[k] = c
<1> DEFINE n == Cardinality(S)
           A == Ascending(S)
           Place(c) == SmallerIn(S, c)
<1>1. n \in Nat
  BY FS_CardinalityType
<1>2. /\ \A c \in S : Place(c) \in 0 .. n - 1
      /\ \A c, d \in S : c < d => Place(c) < Place(d)
      /\ \A r \in 0 .. n - 1 : \E c \in S : Place(c) = r
  BY Places
<1>3. A = [k \in 1 .. n |-> CHOOSE c \in S : Place(c) = k - 1]
  BY DEF Ascending, SmallerIn
<1> HIDE DEF n, A, Place
<1>4. ASSUME NEW k \in 1 .. n PROVE A[k] \in S /\ Place(A[k]) = k - 1
  <2>1. k - 1 \in 0 .. n - 1
    BY <1>1
  <2>2. \E c \in S : Place(c) = k - 1
    BY <1>2, <2>1
  <2>3. QED
    BY <1>3, <2>2
<1>5. A \in [1 .. n -> S]
  BY <1>3, <1>4
<1>6. A \in Seq(S) /\ Len(A) = n
  BY <1>1, <1>5, Tabulated
<1>7. ASSUME NEW j \in 1 .. n, NEW k \in 1 .. n, j < k PROVE A[j] < A[k]
  <2>1. A[j] \in S /\ A[k] \in S /\ Place(A[j]) = j - 1 /\ Place(A[k]) = k - 1 /\ j - 1 < k - 1
    BY <1>1, <1>4, <1>7
  <2>2. A[j] # A[k]
    BY <1>1, <2>1
  <2>3. ~ (A[k] < A[j])
    <3>1. A[k] < A[j] => k - 1 < j - 1
      BY <1>2, <2>1
    <3>2. ~ (k - 1 < j - 1)
      BY <1>1, <1>7
    <3>3. QED
      BY <3>1, <3>2
  <2>4. A[j] \in Nat /\ A[k] \in Nat
    BY <2>1
  <2>5. QED
    BY <2>2, <2>3, <2>4
<1>8. ASSUME NEW c \in S PROVE \E k \in 1 .. n : A[k] = c
  <2>1. Place(c) \in 0 .. n - 1
    BY <1>2
  <2>2. Place(c) + 1 \in 1 .. n /\ (Place(c) + 1) - 1 = Place(c)
    BY <1>1, <2>1
  <2>3. A[Place(c) + 1] \in S /\ Place(A[Place(c) + 1]) = Place(c)
    BY <1>4, <2>2
  <2>4. c \in Nat /\ A[Place(c) + 1] \in Nat
    BY <2>3
  <2>5. A[Place(c) + 1] = c
    BY <1>2, <2>1, <2>3, <2>4
  <2>6. QED
    BY <2>2, <2>5
<1>9. QED
  BY <1>1, <1>5, <1>6, <1>7, <1>8 DEF n, A

-----------------------------------------------------------------------------
(* HotCachePolicies: the static policy *)

LEMMA ChannelsFinite ==
  /\ Channels \in SUBSET Nat /\ IsFiniteSet(Channels)
  /\ \A S \in SUBSET Channels : S \in SUBSET Nat /\ IsFiniteSet(S)
<1>1. 0 .. I - 1 \in SUBSET Nat /\ IsFiniteSet(0 .. I - 1)
  BY PoliciesAssumption, FS_Interval
<1>2. QED
  BY <1>1, FS_Subset DEF Channels

(* A sum whose members in M grow by one grows by their number.               *)
LEMMA SumGrows ==
  ASSUME NEW S, IsFiniteSet(S), NEW M, NEW f, NEW g,
         \A x \in S : f[x] \in Int /\ g[x] = f[x] + IF x \in M THEN 1 ELSE 0
  PROVE  SumOver(g, S) = SumOver(f, S) + Cardinality(M \cap S)
<1> DEFINE T == {s \in SUBSET S : SumOver(g, s) = SumOver(f, s) + Cardinality(M \cap s)}
<1>1. \A s \in SUBSET S : IsFiniteSet(s)
  BY FS_Subset
<1>2. \A x \in S : g[x] \in Int
  OBVIOUS
<1>3. {} \in T
  <2>1. SumOver(f, {}) = 0 /\ SumOver(g, {}) = 0
    BY <1>1, SumAdd
  <2>2. M \cap {} = {} /\ Cardinality({}) = 0
    BY FS_EmptySet
  <2>3. QED
    BY <2>1, <2>2
<1>4. ASSUME NEW s \in SUBSET S, NEW x \in s, s \ {x} \in T PROVE s \in T
  <2> DEFINE r == s \ {x}
  <2>1. SumOver(g, r) = SumOver(f, r) + Cardinality(M \cap r)
    BY <1>4
  <2>2. /\ SumOver(f, s) = SumOver(f, r) + f[x] /\ SumOver(f, r) \in Int
        /\ SumOver(g, s) = SumOver(g, r) + g[x]
    BY <1>1, <1>2, SumAdd
  <2>3. Cardinality(M \cap s) = Cardinality(M \cap r) + (IF x \in M THEN 1 ELSE 0)
    <3>1. IsFiniteSet(M \cap s) /\ Cardinality(M \cap s) \in Nat
      BY <1>1, FS_Subset, FS_CardinalityType
    <3>2. CASE x \in M
      <4>1. M \cap r = (M \cap s) \ {x} /\ x \in M \cap s
        BY <3>2
      <4>2. Cardinality((M \cap s) \ {x}) = Cardinality(M \cap s) - 1
        BY <3>1, <4>1, FS_RemoveElement
      <4>3. QED
        BY <3>1, <3>2, <4>1, <4>2
    <3>3. CASE x \notin M
      <4>1. M \cap r = M \cap s
        BY <3>3
      <4>2. QED
        BY <3>1, <3>3, <4>1
    <3>4. QED
      BY <3>2, <3>3
  <2>4. Cardinality(M \cap r) \in Nat
    BY <1>1, FS_Subset, FS_CardinalityType
  <2>5. f[x] \in Int /\ g[x] = f[x] + IF x \in M THEN 1 ELSE 0
    OBVIOUS
  <2> HIDE DEF r
  <2>6. SumOver(g, s) = SumOver(f, s) + Cardinality(M \cap s)
    BY <2>1, <2>2, <2>3, <2>4, <2>5
  <2>7. QED
    BY <2>6
<1> HIDE DEF T
<1>5. \A s \in SUBSET S : \A x \in s : s \ {x} \in T => s \in T
  BY <1>4
<1>6. \A s \in SUBSET S : s \in T
  BY <1>3, <1>5, SubsetInduction
<1>7. QED
  BY <1>6 DEF T

(* A fixed set hits as often as its channels are selected.                   *)
LEMMA FixedHitsCounted ==
  ASSUME NEW t \in Seq(SUBSET Channels), NEW S \in SUBSET Channels
  PROVE  FixedHits(t, S) = SumOver(Counts(t), S)
<1> DEFINE n == Len(t)
           Hits(k) == Cardinality(t[k] \cap S)
           g == [p \in Nat \X (1 .. n) |-> p[1] + Hits(p[2])]
           Is(f) == f = [s \in SUBSET (1 .. n) |-> IF s = {} THEN 0 ELSE f[s \ {Max(s)}] + Hits(Max(s))]
           fold == CHOOSE f : Is(f)
           C(k) == [c \in Channels |-> Cardinality({j \in 1 .. k : c \in t[j]})]
           T == {k \in Nat : k <= n => fold[1 .. k] = SumOver(C(k), S)}
<1>1. n \in Nat /\ DOMAIN t = 1 .. n /\ \A k \in 1 .. n : t[k] \in SUBSET Channels
  OBVIOUS
<1>2. \A k \in 1 .. n : Hits(k) \in Nat
  BY <1>1, ChannelsFinite, FS_Subset, FS_CardinalityType
<1>3. FixedHits(t, S) = fold[1 .. n]
  BY <1>1 DEF FixedHits, FoldLeft, MapThenFoldSet
<1>4. IsFiniteSet(S)
  BY ChannelsFinite
<1> HIDE DEF n, Hits
<1>5. Is(fold)
  <2>1. g \in [Nat \X (1 .. n) -> Nat]
    BY <1>1, <1>2
  <2> HIDE DEF g
  <2>2. Folded(n, Nat, 0, g)
    BY <1>1, <2>1, FoldsExist
  <2>3. PICK f \in [SUBSET (1 .. n) -> Nat] :
          \A s \in SUBSET (1 .. n) : f[s] = FoldStep(0, g, f, s)
    BY <2>2 DEF Folded
  <2>4. ASSUME NEW s \in SUBSET (1 .. n)
        PROVE  f[s] = IF s = {} THEN 0 ELSE f[s \ {Max(s)}] + Hits(Max(s))
    <3>1. CASE s = {}
      BY <2>3, <3>1 DEF FoldStep
    <3>2. CASE s # {}
      <4>1. Max(s) \in 1 .. n /\ f[s \ {Max(s)}] \in Nat
        BY <1>1, <2>3, <3>2, MaxOfPositions
      <4>2. f[s] = g[<<f[s \ {Max(s)}], Max(s)>>]
        BY <2>3, <3>2 DEF FoldStep
      <4>3. QED
        BY <3>2, <4>1, <4>2 DEF g
    <3>3. QED
      BY <3>1, <3>2
  <2>5. Is(f)
    BY <2>3, <2>4
  <2>6. QED
    BY <2>5
<1>6. \A k \in Nat : IsFiniteSet(1 .. k)
  BY FS_Interval
<1>7. \A k \in Nat, c \in Channels : C(k)[c] \in Int
  <2> TAKE k \in Nat, c \in Channels
  <2> DEFINE M == {j \in 1 .. k : c \in t[j]}
  <2>1. M \in SUBSET (1 .. k)
    OBVIOUS
  <2> HIDE DEF M
  <2>2. Cardinality(M) \in Nat
    BY <1>6, <2>1, FS_Subset, FS_CardinalityType
  <2>3. C(k)[c] = Cardinality(M)
    BY DEF M
  <2>4. QED
    BY <2>2, <2>3
<1>8. 0 \in T
  <2>1. fold[1 .. 0] = 0
    <3>1. 1 .. 0 = {} /\ {} \in SUBSET (1 .. n)
      OBVIOUS
    <3> HIDE DEF fold
    <3>2. QED
      BY <1>5, <3>1
  <2>2. \A c \in S : C(0)[c] = 0
    <3>1. \A c : {j \in 1 .. 0 : c \in t[j]} = {}
      OBVIOUS
    <3>2. QED
      BY <3>1, FS_EmptySet
  <2> HIDE DEF fold, C
  <2>3. QED
    BY <1>4, <2>1, <2>2, SumOfZeros
<1>9. ASSUME NEW k \in Nat, k \in T PROVE k + 1 \in T
  <2> SUFFICES ASSUME k + 1 <= n PROVE fold[1 .. k + 1] = SumOver(C(k + 1), S)
    OBVIOUS
  <2>1. k \in 0 .. n - 1 /\ k + 1 \in 1 .. n /\ k <= n
    BY <1>1
  <2>2. fold[1 .. k + 1] = fold[1 .. k] + Hits(k + 1)
    <3>1. /\ 1 .. k + 1 \in SUBSET (1 .. n) /\ 1 .. k + 1 # {}
          /\ Max(1 .. k + 1) = k + 1 /\ (1 .. k + 1) \ {k + 1} = 1 .. k
      BY <1>1, <2>1, PrefixOfPositions
    <3> HIDE DEF fold
    <3>2. QED
      BY <1>5, <3>1
  <2>3. \A c \in S : C(k + 1)[c] = C(k)[c] + IF c \in t[k + 1] THEN 1 ELSE 0
    <3> TAKE c \in S
    <3> DEFINE Older == {j \in 1 .. k : c \in t[j]}
    <3>1. IsFiniteSet(Older) /\ Cardinality(Older) \in Nat /\ k + 1 \notin Older
      <4>1. Older \in SUBSET (1 .. k) /\ k + 1 \notin 1 .. k
        OBVIOUS
      <4> HIDE DEF Older
      <4>2. QED
        BY <1>6, <4>1, FS_Subset, FS_CardinalityType
    <3>2. Cardinality(Older \cup {k + 1}) = Cardinality(Older) + 1
      BY <3>1, FS_AddElement
    <3>3. {j \in 1 .. k + 1 : c \in t[j]} = IF c \in t[k + 1] THEN Older \cup {k + 1} ELSE Older
      OBVIOUS
    <3> DEFINE All == {j \in 1 .. k + 1 : c \in t[j]}
    <3>4. c \in Channels /\ C(k)[c] = Cardinality(Older) /\ C(k + 1)[c] = Cardinality(All)
      OBVIOUS
    <3>5. All = IF c \in t[k + 1] THEN Older \cup {k + 1} ELSE Older
      BY <3>3
    <3> HIDE DEF Older, All, C
    <3>6. QED
      BY <3>1, <3>2, <3>4, <3>5
  <2>4. SumOver(C(k + 1), S) = SumOver(C(k), S) + Cardinality(t[k + 1] \cap S)
    <3>1. \A c \in S : C(k)[c] \in Int
      BY <1>7
    <3> HIDE DEF C
    <3>2. QED
      BY <1>4, <2>3, <3>1, SumGrows
  <2> HIDE DEF fold, C
  <2>5. fold[1 .. k] = SumOver(C(k), S)
    BY <1>9, <2>1
  <2>6. QED
    BY <2>2, <2>4, <2>5 DEF Hits
<1> HIDE DEF T
<1>10. n \in T
  BY <1>1, <1>8, <1>9, SetInduction
<1>11. C(n) = Counts(t)
  BY <1>1 DEF Counts
<1> HIDE DEF fold, C
<1>12. QED
  BY <1>1, <1>3, <1>10, <1>11 DEF T

(* As many values, none of them smaller, sum up to no less.                  *)
Dominates(f, B, A) ==
  Cardinality(A) <= Cardinality(B) /\ \A x \in A, y \in B : f[x] <= f[y]

LEMMA SumDominated ==
  ASSUME NEW U, IsFiniteSet(U), NEW f, \A x \in U : f[x] \in Nat,
         NEW A \in SUBSET U, NEW B \in SUBSET U, Dominates(f, B, A)
  PROVE  SumOver(f, A) <= SumOver(f, B)
<1> DEFINE Good(s) == \A b \in SUBSET U : Dominates(f, b, s) => SumOver(f, s) <= SumOver(f, b)
           T == {s \in SUBSET U : Good(s)}
<1>1. \A s \in SUBSET U :
        /\ IsFiniteSet(s) /\ Cardinality(s) \in Nat /\ SumOver(f, s) \in Nat
        /\ \A x \in s : SumOver(f, s) = SumOver(f, s \ {x}) + f[x]
  <2> TAKE s \in SUBSET U
  <2>1. IsFiniteSet(s) /\ Cardinality(s) \in Nat
    BY FS_Subset, FS_CardinalityType
  <2>2. \A x \in s : f[x] \in Nat /\ f[x] \in Int
    OBVIOUS
  <2>3. SumOver(f, s) \in Nat
    BY <2>1, <2>2, SumIsNatural
  <2>4. \A x \in s : SumOver(f, s) = SumOver(f, s \ {x}) + f[x]
    BY <2>1, <2>2, SumAdd
  <2>5. QED
    BY <2>1, <2>3, <2>4
<1>2. SumOver(f, {}) = 0
  BY SumAdd, FS_EmptySet
<1>3. {} \in T
  BY <1>1, <1>2
<1>4. ASSUME NEW s \in SUBSET U, NEW x \in s, s \ {x} \in T PROVE s \in T
  <2> SUFFICES ASSUME NEW b \in SUBSET U, Dominates(f, b, s)
               PROVE  SumOver(f, s) <= SumOver(f, b)
    OBVIOUS
  <2>1. Cardinality(s \ {x}) = Cardinality(s) - 1 /\ Cardinality(s) # 0
    BY <1>1, FS_RemoveElement, FS_EmptySet
  <2>2. Cardinality(s) <= Cardinality(b) /\ Cardinality(b) # 0
    BY <1>1, <2>1 DEF Dominates
  <2>3. PICK y \in b : TRUE
    BY <2>2, FS_EmptySet
  <2>4. Cardinality(b \ {y}) = Cardinality(b) - 1
    BY <1>1, FS_RemoveElement
  <2>5. b \ {y} \in SUBSET U /\ s \ {x} \in SUBSET U
    OBVIOUS
  <2>6. Cardinality(s) - 1 <= Cardinality(b) - 1
    BY <1>1, <2>2
  <2>7. Dominates(f, b \ {y}, s \ {x}) /\ f[x] <= f[y]
    BY <2>1, <2>4, <2>6 DEF Dominates
  <2>8. SumOver(f, s \ {x}) <= SumOver(f, b \ {y})
    BY <1>4, <2>5, <2>7
  <2>9. /\ SumOver(f, s) = SumOver(f, s \ {x}) + f[x] /\ SumOver(f, b) = SumOver(f, b \ {y}) + f[y]
        /\ SumOver(f, s \ {x}) \in Nat /\ SumOver(f, b \ {y}) \in Nat /\ f[x] \in Nat /\ f[y] \in Nat
    BY <1>1, <2>5
  <2>10. QED
    BY <2>7, <2>8, <2>9
<1> HIDE DEF T
<1>5. \A s \in SUBSET U : s \in T
  BY <1>3, <1>4, SubsetInduction
<1>6. A \in T
  BY <1>5
<1>7. QED
  BY <1>6 DEF T

(* The channels above channel c in the order of hot_set; the hot set takes   *)
(* its size from the top, as far as there are channels.                      *)
Above(f, c) == {d \in Channels : f[d] > f[c] \/ (f[d] = f[c] /\ d < c)}

LEMMA HotSetIsTop ==
  ASSUME NEW f \in [Channels -> Nat], NEW size \in Nat, NEW H, H = hot_set(f, size)
  PROVE  /\ H \in SUBSET Channels
         /\ \A y \in H, x \in Channels \ H : f[x] <= f[y]
         /\ H = Channels \/ size <= Cardinality(H)
<1>1. H = {c \in Channels : Cardinality(Above(f, c)) < size}
  BY DEF hot_set, Above
<1>2. \A c \in Channels : /\ Above(f, c) \in SUBSET Channels /\ IsFiniteSet(Above(f, c))
                          /\ Cardinality(Above(f, c)) \in Nat
  <2> TAKE c \in Channels
  <2>1. Above(f, c) \in SUBSET Channels
    BY DEF Above
  <2>2. QED
    BY <2>1, ChannelsFinite, FS_CardinalityType
<1>3. ASSUME NEW c \in Channels, NEW d \in Above(f, c)
      PROVE  Cardinality(Above(f, d)) < Cardinality(Above(f, c))
  <2>1. d \in Channels /\ f[d] \in Nat /\ f[c] \in Nat /\ d \in Nat /\ c \in Nat
    BY ChannelsFinite DEF Above
  <2>2. Above(f, d) \in SUBSET Above(f, c)
    <3> SUFFICES ASSUME NEW e \in Above(f, d) PROVE e \in Above(f, c)
      OBVIOUS
    <3>1. e \in Channels /\ f[e] \in Nat /\ e \in Nat
      BY ChannelsFinite DEF Above
    <3>2. QED
      BY <2>1, <3>1 DEF Above
  <2>3. d \notin Above(f, d)
    BY <2>1 DEF Above
  <2>4. Cardinality(Above(f, d)) <= Cardinality(Above(f, c)) /\ Cardinality(Above(f, d)) # Cardinality(Above(f, c))
    BY <1>2, <2>2, <2>3, FS_Subset
  <2>5. QED
    BY <1>2, <2>1, <2>4
<1>4. ASSUME NEW y \in H, NEW x \in Channels \ H PROVE f[x] <= f[y]
  <2> SUFFICES ASSUME ~ (f[x] <= f[y]) PROVE FALSE
    OBVIOUS
  <2>1. y \in Channels /\ f[x] \in Nat /\ f[y] \in Nat
    BY <1>1
  <2>2. x \in Above(f, y)
    BY <2>1 DEF Above
  <2>3. /\ Cardinality(Above(f, x)) < Cardinality(Above(f, y))
        /\ Cardinality(Above(f, y)) < size
    BY <1>1, <1>3, <2>1, <2>2
  <2>4. QED
    BY <1>1, <1>2, <2>1, <2>3
<1>5. ASSUME H # Channels PROVE size <= Cardinality(H)
  <2> DEFINE Outside == {Cardinality(Above(f, c)) : c \in Channels \ H}
  <2>1. Outside \in SUBSET Nat /\ Outside # {}
    BY <1>1, <1>2, <1>5
  <2>2. PICK m \in Outside : \A n \in Outside : m <= n
    BY <2>1, LeastElement
  <2>3. PICK c \in Channels \ H : m = Cardinality(Above(f, c))
    BY <2>2
  <2>4. size <= Cardinality(Above(f, c))
    BY <1>1, <1>2, <2>3
  <2>5. Above(f, c) \in SUBSET H
    <3> SUFFICES ASSUME NEW d \in Above(f, c), d \notin H PROVE FALSE
      BY <1>2
    <3>1. d \in Channels \ H
      BY DEF Above
    <3>2. Cardinality(Above(f, d)) \in Outside /\ Cardinality(Above(f, d)) < m
      BY <1>3, <2>3, <3>1
    <3>3. m <= Cardinality(Above(f, d)) /\ m \in Nat /\ Cardinality(Above(f, d)) \in Nat
      BY <1>2, <2>2, <2>3, <3>1, <3>2
    <3>4. QED
      BY <3>2, <3>3
  <2>6. IsFiniteSet(H) /\ Cardinality(H) \in Nat
    BY <1>1, ChannelsFinite, FS_CardinalityType
  <2>7. Cardinality(Above(f, c)) <= Cardinality(H)
    BY <2>5, <2>6, FS_Subset
  <2>8. QED
    BY <1>2, <2>4, <2>6, <2>7
<1>6. QED
  BY <1>1, <1>4, <1>5

(* Without what two sets share, the larger one stays the larger.             *)
LEMMA WithoutShared ==
  ASSUME NEW A, NEW B, IsFiniteSet(A), IsFiniteSet(B), Cardinality(A) <= Cardinality(B)
  PROVE  Cardinality(A \ B) <= Cardinality(B \ A)
<1>1. /\ IsFiniteSet(A \ B) /\ IsFiniteSet(B \ A) /\ IsFiniteSet(A \cap B)
      /\ Cardinality(A \ B) \in Nat /\ Cardinality(B \ A) \in Nat /\ Cardinality(A \cap B) \in Nat
  BY FS_Subset, FS_CardinalityType
<1>2. A \cap B = B \cap A /\ Cardinality(A) \in Nat /\ Cardinality(B) \in Nat
  BY FS_CardinalityType
<1>3. \A S, T : IsFiniteSet(S) => Cardinality(S \ T) = Cardinality(S) - Cardinality(S \cap T)
  BY FS_Difference
<1>4. /\ Cardinality(A \ B) = Cardinality(A) - Cardinality(A \cap B)
      /\ Cardinality(B \ A) = Cardinality(B) - Cardinality(A \cap B)
  <2>1. Cardinality(A \ B) = Cardinality(A) - Cardinality(A \cap B)
    BY <1>3
  <2>2. Cardinality(B \ A) = Cardinality(B) - Cardinality(B \cap A)
    BY <1>3
  <2>3. B \cap A = A \cap B
    OBVIOUS
  <2>4. QED
    BY <2>1, <2>2, <2>3
<1>5. QED
  BY <1>1, <1>2, <1>4

LEMMA HotSetIsBest ==
  ASSUME NEW t \in Seq(SUBSET Channels), NEW size \in Nat,
         NEW S \in SUBSET Channels, Cardinality(S) <= size
  PROVE  FixedHits(t, S) <= FixedHits(t, hot_set(Counts(t), size))
<1> DEFINE f == Counts(t)
           H == hot_set(f, size)
<1>1. f \in [Channels -> Nat]
  <2>1. ASSUME NEW c \in Channels PROVE Cardinality({j \in DOMAIN t : c \in t[j]}) \in Nat
    <3>1. Len(t) \in Nat /\ DOMAIN t = 1 .. Len(t)
      OBVIOUS
    <3>2. IsFiniteSet(DOMAIN t)
      BY <3>1, FS_Interval
    <3>3. QED
      BY <3>2, FS_Subset, FS_CardinalityType
  <2>2. QED
    BY <2>1 DEF Counts
<1> HIDE DEF f
<1>2. /\ H \in SUBSET Channels
      /\ \A y \in H, x \in Channels \ H : f[x] <= f[y]
      /\ H = Channels \/ size <= Cardinality(H)
  BY <1>1, HotSetIsTop
<1> HIDE DEF H
<1>3. /\ IsFiniteSet(Channels) /\ IsFiniteSet(S) /\ IsFiniteSet(H)
      /\ Cardinality(S) \in Nat /\ Cardinality(H) \in Nat
  BY <1>2, ChannelsFinite, FS_CardinalityType
<1>4. \A x \in Channels : f[x] \in Nat /\ f[x] \in Int
  BY <1>1
<1>5. SumOver(f, S) <= SumOver(f, H)
  <2>1. CASE H = Channels
    BY <1>3, <1>4, <2>1, SumOfSubset
  <2>2. CASE size <= Cardinality(H)
    <3>1. Cardinality(S) <= Cardinality(H)
      BY <1>3, <2>2
    <3>2. Cardinality(S \ H) <= Cardinality(H \ S)
      BY <1>3, <3>1, WithoutShared
    <3>3. Dominates(f, H \ S, S \ H)
      BY <1>2, <3>2 DEF Dominates
    <3>4. S \ H \in SUBSET Channels /\ H \ S \in SUBSET Channels
      BY <1>2
    <3>5. SumOver(f, S \ H) <= SumOver(f, H \ S)
      BY <1>3, <1>4, <3>3, <3>4, SumDominated
    <3> DEFINE B == S \cap H
    <3>6. /\ IsFiniteSet(S \ H) /\ IsFiniteSet(H \ S) /\ IsFiniteSet(B)
          /\ (S \ H) \cap B = {} /\ (H \ S) \cap B = {}
          /\ (S \ H) \cup B = S /\ (H \ S) \cup B = H
      BY <1>3, FS_Subset
    <3>7. /\ SumOver(f, S) = SumOver(f, S \ H) + SumOver(f, B)
          /\ SumOver(f, H) = SumOver(f, H \ S) + SumOver(f, B)
      <4>1. (\A x \in S : f[x] \in Int) /\ \A x \in H : f[x] \in Int
        BY <1>2, <1>4
      <4> HIDE DEF B
      <4>2. SumOver(f, (S \ H) \cup B) = SumOver(f, S \ H) + SumOver(f, B)
        BY <3>6, <4>1, SumUnion
      <4>3. SumOver(f, (H \ S) \cup B) = SumOver(f, H \ S) + SumOver(f, B)
        BY <3>6, <4>1, SumUnion
      <4>4. QED
        BY <3>6, <4>2, <4>3
    <3>8. SumOver(f, S \ H) \in Int /\ SumOver(f, H \ S) \in Int /\ SumOver(f, B) \in Int
      BY <1>2, <1>4, <3>6, SumAdd
    <3>9. QED
      BY <3>5, <3>7, <3>8
  <2>3. QED
    BY <1>2, <2>1, <2>2
<1>6. FixedHits(t, S) = SumOver(f, S) /\ FixedHits(t, H) = SumOver(f, H)
  BY <1>2, FixedHitsCounted DEF f
<1>7. QED
  BY <1>5, <1>6 DEF f, H

-----------------------------------------------------------------------------
(* HotCachePolicies: LFU with decay *)

LEMMA UnitIsNatural == Unit \in Nat
<1>1. IsFiniteSet(1 .. MaxTokens) /\ Cardinality(1 .. MaxTokens) = MaxTokens
  BY PoliciesAssumption, FS_Interval
<1>2. IsFiniteSet(SUBSET (1 .. MaxTokens)) /\ Cardinality(SUBSET (1 .. MaxTokens)) = 2 ^ MaxTokens
  BY <1>1, FS_SUBSET
<1>3. QED
  BY <1>2, FS_CardinalityType DEF Unit

(* A cached channel that some channel left out exceeds.                      *)
Weak(cache, f) == {c \in cache : \E d \in Channels \ cache : f[c] < f[d]}

(* The cache of one size: it holds all channels seen until it is full, and   *)
(* what was never seen has no frequency.                                     *)
LfuHolds(size, cache, f, seen) ==
  /\ cache \in SUBSET seen /\ seen \in SUBSET Channels /\ f \in [Channels -> Nat]
  /\ Cardinality(cache) <= size /\ (Cardinality(cache) < size => cache = seen)
  /\ \A d \in Channels \ seen : f[d] = 0
  /\ \A c, d \in Weak(cache, f) : c = d

LEMMA VictimExists ==
  ASSUME NEW cache \in SUBSET Channels, cache # {}, NEW f \in [Channels -> Nat]
  PROVE  LET v == Victim(cache, f)
         IN  /\ v \in cache /\ \A c \in cache : f[v] <= f[c]
             /\ \A c \in cache \ {v} : f[v] < f[c] \/ (f[v] = f[c] /\ v > c)
<1> DEFINE Values == {f[c] : c \in cache}
<1>1. Values \in SUBSET Nat /\ Values # {}
  OBVIOUS
<1>2. PICK m \in Values : \A n \in Values : m <= n
  BY <1>1, LeastElement
<1> DEFINE Backwards == {I - c : c \in {d \in cache : f[d] = m}}
<1>3. \A c \in cache : c \in Nat /\ I - c \in Nat /\ f[c] \in Nat
  BY PoliciesAssumption DEF Channels
<1>4. Backwards \in SUBSET Nat /\ Backwards # {}
  BY <1>2, <1>3
<1>5. PICK p \in Backwards : \A q \in Backwards : p <= q
  BY <1>4, LeastElement
<1>6. PICK v \in cache : f[v] = m /\ p = I - v
  BY <1>5
<1>7. \A c \in cache \ {v} : f[v] < f[c] \/ (f[v] = f[c] /\ v > c)
  <2> TAKE c \in cache \ {v}
  <2>1. m <= f[c] /\ m \in Nat
    BY <1>1, <1>2
  <2>2. CASE f[c] = m
    <3>1. I - v <= I - c
      BY <1>5, <1>6, <2>2
    <3>2. QED
      BY <1>3, <1>6, <2>2, <3>1, PoliciesAssumption
  <2>3. CASE f[c] # m
    BY <1>3, <1>6, <2>1, <2>3
  <2>4. QED
    BY <2>2, <2>3
<1> DEFINE w == Victim(cache, f)
<1>8. w \in cache /\ \A c \in cache \ {w} : f[w] < f[c] \/ (f[w] = f[c] /\ w > c)
  BY <1>7 DEF Victim
<1> HIDE DEF w
<1>9. \A c \in cache : f[w] <= f[c]
  BY <1>3, <1>8
<1>10. QED
  BY <1>8, <1>9 DEF w

(* Serving one channel keeps all that.                                       *)
LEMMA LfuServes ==
  ASSUME NEW size \in Nat, NEW seen, NEW s, LfuHolds(size, s.cache, s.freq, seen),
         NEW c \in Channels
  PROVE  LET r == LfuChannel(size, s, c)
         IN  /\ r.freq = [s.freq EXCEPT ![c] = @ + Unit]
             /\ LfuHolds(size, r.cache, r.freq, seen \cup {c})
<1> DEFINE f == s.freq
           g == [f EXCEPT ![c] = @ + Unit]
           old == s.cache
           r == LfuChannel(size, s, c)
           new == r.cache
           v == Victim(old, g)
<1>1. /\ r.freq = g
      /\ new = IF c \in old \/ size = 0 THEN old
               ELSE IF Cardinality(old) < size THEN old \cup {c} ELSE (old \ {v}) \cup {c}
  BY DEF LfuChannel
<1>2. /\ old \in SUBSET seen /\ seen \in SUBSET Channels /\ f \in [Channels -> Nat]
      /\ Cardinality(old) <= size /\ (Cardinality(old) < size => old = seen)
      /\ \A d \in Channels \ seen : f[d] = 0
      /\ \A a, b \in Weak(old, f) : a = b
  BY DEF LfuHolds
<1>3. /\ g \in [Channels -> Nat] /\ g[c] = f[c] + Unit /\ g[c] >= f[c]
      /\ \A d \in Channels : d # c => g[d] = f[d]
  BY <1>2, UnitIsNatural
<1>4. IsFiniteSet(old) /\ Cardinality(old) \in Nat /\ old \in SUBSET Channels
  BY <1>2, ChannelsFinite, FS_CardinalityType
<1> HIDE DEF f, g, old, r, new, v
<1>5. seen \cup {c} \in SUBSET Channels /\ \A d \in Channels \ (seen \cup {c}) : g[d] = 0
  BY <1>2, <1>3
<1>6. CASE c \in old
  <2>1. new = old /\ seen \cup {c} = seen
    BY <1>1, <1>2, <1>6
  <2>2. Weak(new, g) \in SUBSET Weak(old, f)
    BY <1>2, <1>3, <1>6, <2>1 DEF Weak
  <2>3. LfuHolds(size, new, g, seen \cup {c})
    BY <1>2, <1>3, <1>5, <2>1, <2>2 DEF LfuHolds
  <2>4. QED
    BY <1>1, <2>3 DEF f, g, old, r, new
<1>7. CASE c \notin old /\ size = 0
  <2>1. new = old /\ old = {} /\ Cardinality(old) = 0
    BY <1>1, <1>2, <1>4, <1>7, FS_EmptySet
  <2>2. Weak(new, g) = {}
    BY <2>1 DEF Weak
  <2>3. LfuHolds(size, new, g, seen \cup {c})
    BY <1>2, <1>3, <1>5, <1>7, <2>1, <2>2 DEF LfuHolds
  <2>4. QED
    BY <1>1, <2>3 DEF f, g, old, r, new
<1>8. CASE c \notin old /\ size # 0 /\ Cardinality(old) < size
  <2>1. new = seen \cup {c} /\ old = seen
    BY <1>1, <1>2, <1>8
  <2>2. Cardinality(new) = Cardinality(old) + 1
    BY <1>4, <1>8, <2>1, FS_AddElement
  <2>3. Weak(new, g) = {}
    BY <1>2, <1>3, <1>5, <2>1 DEF Weak
  <2>4. LfuHolds(size, new, g, seen \cup {c})
    <3>1. Cardinality(new) <= size
      BY <1>4, <1>8, <2>2
    <3>2. \A a, b \in Weak(new, g) : a = b
      BY <2>3
    <3>3. QED
      BY <1>3, <1>5, <2>1, <3>1, <3>2 DEF LfuHolds
  <2>5. QED
    BY <1>1, <2>4 DEF f, g, old, r, new
<1>9. CASE c \notin old /\ size # 0 /\ ~ (Cardinality(old) < size)
  <2>1. new = (old \ {v}) \cup {c} /\ Cardinality(old) = size /\ old # {}
    BY <1>1, <1>2, <1>4, <1>9, FS_EmptySet
  <2>2. v \in old /\ \A d \in old : g[v] <= g[d]
    BY <1>3, <1>4, <2>1, VictimExists DEF v
  <2>3. Cardinality(new) = size
    <3>1. IsFiniteSet(old \ {v}) /\ Cardinality(old \ {v}) = size - 1 /\ c \notin old \ {v}
      BY <1>4, <1>9, <2>1, <2>2, FS_RemoveElement
    <3>2. Cardinality((old \ {v}) \cup {c}) = (size - 1) + 1
      BY <3>1, FS_AddElement
    <3>3. QED
      BY <2>1, <3>2
  <2>4. \A d \in Weak(new, g) : d = c
    <3> SUFFICES ASSUME NEW d \in Weak(new, g), d # c PROVE FALSE
      OBVIOUS
    <3>1. d \in old /\ d # v /\ d \in Channels /\ v \in Channels /\ v # c
      BY <1>4, <1>9, <2>1, <2>2 DEF Weak
    <3>2. PICK e \in Channels \ new : g[d] < g[e]
      BY DEF Weak
    <3>3. e # c /\ (e \notin old \/ e = v)
      BY <2>1
    <3>4. g[v] <= g[d] /\ g[v] \in Nat /\ g[d] \in Nat /\ g[e] \in Nat
      BY <1>3, <2>2, <3>1
    <3>5. e # v
      BY <3>2, <3>4
    <3>6. e \in Channels \ old /\ f[d] < f[e] /\ f[v] < f[e]
      BY <1>3, <3>1, <3>2, <3>3, <3>4, <3>5
    <3>7. d \in Weak(old, f) /\ v \in Weak(old, f)
      BY <2>2, <3>1, <3>6 DEF Weak
    <3>8. QED
      BY <1>2, <3>1, <3>7
  <2>5. new \in SUBSET (seen \cup {c})
    BY <1>2, <2>1
  <2>6. LfuHolds(size, new, g, seen \cup {c})
    BY <1>3, <1>5, <2>3, <2>4, <2>5 DEF LfuHolds
  <2>7. QED
    BY <1>1, <2>6 DEF f, g, old, r, new
<1>10. QED
  BY <1>6, <1>7, <1>8, <1>9

(* A whole token: its channels are served in turn, and counted once each.    *)
LfuStates == [freq : [Channels -> Nat], hits : Nat, cache : SUBSET Channels]

LEMMA LfuChannelType ==
  ASSUME NEW size, NEW s \in LfuStates, NEW c \in Channels
  PROVE  LfuChannel(size, s, c) \in LfuStates
<1> DEFINE f == [s.freq EXCEPT ![c] = @ + Unit]
           hit == IF c \in s.cache THEN 1 ELSE 0
           new == IF c \in s.cache \/ size = 0 THEN s.cache
                  ELSE IF Cardinality(s.cache) < size THEN s.cache \cup {c}
                  ELSE (s.cache \ {Victim(s.cache, f)}) \cup {c}
<1>1. s.freq \in [Channels -> Nat] /\ s.hits \in Nat /\ s.cache \in SUBSET Channels
  BY DEF LfuStates
<1>2. f \in [Channels -> Nat]
  BY <1>1, UnitIsNatural
<1>3. s.hits + hit \in Nat
  BY <1>1
<1>4. new \in SUBSET Channels
  <2> HIDE DEF f
  <2>1. QED
    BY <1>1
<1>5. LfuChannel(size, s, c) = [freq |-> f, hits |-> s.hits + hit, cache |-> new]
  BY DEF LfuChannel
<1> HIDE DEF f, hit, new
<1>6. QED
  BY <1>2, <1>3, <1>4, <1>5 DEF LfuStates

Counted(f, S) == [c \in Channels |-> f[c] + IF c \in S THEN Unit ELSE 0]

(* The states a token goes through, from none of its channels served to all. *)
Serving(size, base, S, h) ==
  /\ h[0] = base
  /\ \A k \in 0 .. Len(Ascending(S)) - 1 : h[k + 1] = LfuChannel(size, h[k], Ascending(S)[k + 1])

LEMMA LfuServing ==
  ASSUME NEW size, NEW cache, NEW f, NEW S \in SUBSET Channels,
         [freq |-> f, hits |-> 0, cache |-> cache] \in LfuStates
  PROVE  \E h : /\ Serving(size, [freq |-> f, hits |-> 0, cache |-> cache], S, h)
               /\ LfuToken(size, cache, f, S) = h[Len(Ascending(S))]
<1> DEFINE A == Ascending(S)
           n == Len(A)
           base == [freq |-> f, hits |-> 0, cache |-> cache]
           Serve(s, k) == LfuChannel(size, s, A[k])
           g == [p \in LfuStates \X (1 .. n) |-> Serve(p[1], p[2])]
           Is(h) == h = [s \in SUBSET (1 .. n) |-> IF s = {} THEN base ELSE Serve(h[s \ {Max(s)}], Max(s))]
           fold == CHOOSE h : Is(h)
           along == [k \in 0 .. n |-> fold[1 .. k]]
<1>1. n \in Nat /\ DOMAIN A = 1 .. n /\ \A k \in 1 .. n : A[k] \in Channels
  <2>1. n \in Nat /\ DOMAIN A = 1 .. n /\ \A k \in 1 .. n : A[k] \in S
    BY ChannelsFinite, AscendingLists
  <2>2. QED
    BY <2>1
<1>2. LfuToken(size, cache, f, S) = fold[1 .. n]
  BY <1>1 DEF LfuToken, FoldLeft, MapThenFoldSet
<1> HIDE DEF A, n, base
<1>3. base \in LfuStates
  BY DEF base
<1>4. \A k \in 1 .. n, s \in LfuStates : Serve(s, k) \in LfuStates
  BY <1>1, LfuChannelType
<1> HIDE DEF Serve
<1>5. Is(fold)
  <2>1. g \in [LfuStates \X (1 .. n) -> LfuStates]
    BY <1>4
  <2> HIDE DEF g
  <2>2. Folded(n, LfuStates, base, g)
    BY <1>1, <1>3, <2>1, FoldsExist
  <2>3. PICK h \in [SUBSET (1 .. n) -> LfuStates] :
          \A s \in SUBSET (1 .. n) : h[s] = FoldStep(base, g, h, s)
    BY <2>2 DEF Folded
  <2>4. ASSUME NEW s \in SUBSET (1 .. n)
        PROVE  h[s] = IF s = {} THEN base ELSE Serve(h[s \ {Max(s)}], Max(s))
    <3>1. CASE s = {}
      BY <2>3, <3>1 DEF FoldStep
    <3>2. CASE s # {}
      <4>1. Max(s) \in 1 .. n /\ h[s \ {Max(s)}] \in LfuStates
        BY <1>1, <2>3, <3>2, MaxOfPositions
      <4>2. h[s] = g[<<h[s \ {Max(s)}], Max(s)>>]
        BY <2>3, <3>2 DEF FoldStep
      <4>3. QED
        BY <3>2, <4>1, <4>2 DEF g
    <3>3. QED
      BY <3>1, <3>2
  <2>5. Is(h)
    BY <2>3, <2>4
  <2>6. QED
    BY <2>5
<1>6. fold[1 .. 0] = base
  <2>1. 1 .. 0 = {} /\ {} \in SUBSET (1 .. n)
    OBVIOUS
  <2> HIDE DEF fold
  <2>2. QED
    BY <1>5, <2>1
<1>7. ASSUME NEW k \in 0 .. n - 1 PROVE fold[1 .. k + 1] = Serve(fold[1 .. k], k + 1)
  <2>1. /\ 1 .. k + 1 \in SUBSET (1 .. n) /\ 1 .. k + 1 # {}
        /\ Max(1 .. k + 1) = k + 1 /\ (1 .. k + 1) \ {k + 1} = 1 .. k
    BY <1>1, PrefixOfPositions
  <2> HIDE DEF fold
  <2>2. QED
    BY <1>5, <2>1
<1> HIDE DEF fold
<1>8. \A k \in 0 .. n - 1 : k \in 0 .. n /\ k + 1 \in 0 .. n
  BY <1>1
<1>9. 0 \in 0 .. n /\ n \in 0 .. n
  BY <1>1
<1>10. along[0] = base /\ along[n] = fold[1 .. n] /\ \A k \in 0 .. n - 1 : along[k + 1] = Serve(along[k], k + 1)
  BY <1>6, <1>7, <1>8, <1>9
<1> HIDE DEF along
<1>11. Serving(size, base, S, along)
  BY <1>10 DEF Serving, Serve, A, n
<1>12. QED
  BY <1>2, <1>10, <1>11 DEF base, A, n

Served(S, k) == {Ascending(S)[j] : j \in 1 .. k}

LEMMA ServedInTurn ==
  ASSUME NEW S \in SUBSET Channels
  PROVE  /\ Len(Ascending(S)) \in Nat /\ Served(S, 0) = {} /\ Served(S, Len(Ascending(S))) = S
         /\ \A k \in 0 .. Len(Ascending(S)) - 1 :
              /\ Ascending(S)[k + 1] \in Channels \ Served(S, k)
              /\ Served(S, k + 1) = Served(S, k) \cup {Ascending(S)[k + 1]}
<1> DEFINE A == Ascending(S)
           n == Len(A)
<1>1. /\ n \in Nat /\ DOMAIN A = 1 .. n /\ \A k \in 1 .. n : A[k] \in S
      /\ \A j, k \in 1 .. n : j < k => A[j] < A[k]
      /\ \A c \in S : \E k \in 1 .. n : A[k] = c
  BY ChannelsFinite, AscendingLists
<1> HIDE DEF A, n
<1>2. ASSUME NEW k \in 0 .. n - 1
      PROVE  A[k + 1] \in Channels \ Served(S, k) /\ Served(S, k + 1) = Served(S, k) \cup {A[k + 1]}
  <2>1. k + 1 \in 1 .. n /\ A[k + 1] \in Channels
    BY <1>1
  <2>2. \A j \in 1 .. k : j \in 1 .. n /\ j < k + 1
    BY <1>1
  <2>3. \A j \in 1 .. k : A[j] < A[k + 1] /\ A[j] \in Nat /\ A[k + 1] \in Nat
    BY <1>1, <2>1, <2>2, ChannelsFinite
  <2>4. A[k + 1] \notin Served(S, k)
    BY <2>3 DEF Served, A
  <2>5. \A j : j \in 1 .. k + 1 <=> j \in 1 .. k \/ j = k + 1
    OBVIOUS
  <2>6. Served(S, k + 1) = Served(S, k) \cup {A[k + 1]}
    BY <2>5 DEF Served, A
  <2>7. QED
    BY <2>1, <2>4, <2>6
<1>3. Served(S, 0) = {}
  BY DEF Served
<1>4. Served(S, n) = S
  BY <1>1 DEF Served, A
<1>5. QED
  BY <1>1, <1>2, <1>3, <1>4 DEF A, n

LEMMA LfuTokenHolds ==
  ASSUME NEW size \in Nat, NEW seen, NEW cache, NEW f, LfuHolds(size, cache, f, seen),
         NEW S \in SUBSET Channels
  PROVE  LfuHolds(size, LfuToken(size, cache, f, S).cache, Counted(f, S), seen \cup S)
<1> DEFINE A == Ascending(S)
           n == Len(A)
           base == [freq |-> f, hits |-> 0, cache |-> cache]
<1>1. base \in LfuStates /\ base.freq = f /\ base.cache = cache /\ f \in [Channels -> Nat]
  BY DEF LfuHolds, LfuStates
<1>2. PICK h : Serving(size, base, S, h) /\ LfuToken(size, cache, f, S) = h[n]
  BY <1>1, LfuServing
<1>3. /\ n \in Nat /\ Served(S, 0) = {} /\ Served(S, n) = S
      /\ \A k \in 0 .. n - 1 : /\ A[k + 1] \in Channels \ Served(S, k)
                               /\ Served(S, k + 1) = Served(S, k) \cup {A[k + 1]}
  BY ServedInTurn
<1>4. h[0] = base /\ \A k \in 0 .. n - 1 : h[k + 1] = LfuChannel(size, h[k], A[k + 1])
  BY <1>2 DEF Serving
<1> HIDE DEF A, n, base
<1> DEFINE Good(k) == /\ h[k].freq = Counted(f, Served(S, k))
                      /\ LfuHolds(size, h[k].cache, h[k].freq, seen \cup Served(S, k))
           T == {k \in Nat : k <= n => Good(k)}
<1>5. 0 \in T
  <2>1. Counted(f, {}) = f
    BY <1>1 DEF Counted
  <2>2. seen \cup {} = seen
    OBVIOUS
  <2>3. Good(0)
    BY <1>1, <1>3, <1>4, <2>1, <2>2
  <2>4. QED
    BY <2>3
<1>6. ASSUME NEW k \in Nat, k \in T PROVE k + 1 \in T
  <2> HIDE DEF Good
  <2> SUFFICES ASSUME k + 1 <= n PROVE Good(k + 1)
    OBVIOUS
  <2>1. k \in 0 .. n - 1 /\ k <= n
    BY <1>3
  <2> DEFINE c == A[k + 1]
             r == h[k]
  <2>2. h[k + 1] = LfuChannel(size, r, c) /\ c \in Channels /\ c \notin Served(S, k)
        /\ Served(S, k + 1) = Served(S, k) \cup {c}
    BY <1>3, <1>4, <2>1
  <2>3. r.freq = Counted(f, Served(S, k)) /\ LfuHolds(size, r.cache, r.freq, seen \cup Served(S, k))
    BY <1>6, <2>1 DEF Good
  <2> HIDE DEF r, c
  <2>4. LET q == LfuChannel(size, r, c)
        IN  /\ q.freq = [r.freq EXCEPT ![c] = @ + Unit]
            /\ LfuHolds(size, q.cache, q.freq, (seen \cup Served(S, k)) \cup {c})
    BY <2>2, <2>3, LfuServes
  <2>5. (seen \cup Served(S, k)) \cup {c} = seen \cup Served(S, k + 1)
    BY <2>2
  <2>6. [r.freq EXCEPT ![c] = @ + Unit] = Counted(f, Served(S, k + 1))
    BY <1>1, <2>2, <2>3, UnitIsNatural DEF Counted
  <2>7. QED
    BY <2>2, <2>4, <2>5, <2>6 DEF Good
<1> HIDE DEF T
<1>7. n \in T
  BY <1>3, <1>5, <1>6, SetInduction
<1>8. Good(n)
  <2>1. n <= n
    BY <1>3
  <2>2. QED
    BY <1>7, <2>1 DEF T
<1>9. QED
  BY <1>2, <1>3, <1>8

(* Two sizes side by side: serving a channel keeps the smaller cache inside  *)
(* the larger.  Both have the same frequencies, and if the larger evicts a   *)
(* channel of the smaller, it is the one the smaller evicts.                 *)
LEMMA LfuNests ==
  ASSUME NEW a \in Nat, NEW b \in Nat, a <= b, NEW seen, NEW x, NEW y, NEW c \in Channels,
         LfuHolds(a, x.cache, x.freq, seen), LfuHolds(b, y.cache, y.freq, seen),
         x.freq = y.freq, x.cache \in SUBSET y.cache,
         x.hits \in Nat, y.hits \in Nat, x.hits <= y.hits
  PROVE  LET p == LfuChannel(a, x, c)
             q == LfuChannel(b, y, c)
         IN  p.cache \in SUBSET q.cache /\ p.hits \in Nat /\ q.hits \in Nat /\ p.hits <= q.hits
<1> DEFINE p == LfuChannel(a, x, c)
           q == LfuChannel(b, y, c)
           f == [x.freq EXCEPT ![c] = @ + Unit]
           small == x.cache
           large == y.cache
           v == Victim(small, f)
           w == Victim(large, f)
<1>1. /\ p.cache = IF c \in small \/ a = 0 THEN small
                   ELSE IF Cardinality(small) < a THEN small \cup {c} ELSE (small \ {v}) \cup {c}
      /\ q.cache = IF c \in large \/ b = 0 THEN large
                   ELSE IF Cardinality(large) < b THEN large \cup {c} ELSE (large \ {w}) \cup {c}
      /\ p.hits = x.hits + IF c \in small THEN 1 ELSE 0
      /\ q.hits = y.hits + IF c \in large THEN 1 ELSE 0
  BY DEF LfuChannel
<1>2. /\ small \in SUBSET seen /\ large \in SUBSET seen /\ seen \in SUBSET Channels
      /\ small \in SUBSET large /\ f \in [Channels -> Nat]
      /\ Cardinality(small) <= a /\ (Cardinality(small) < a => small = seen)
  BY UnitIsNatural DEF LfuHolds
<1>3. /\ IsFiniteSet(large) /\ Cardinality(small) \in Nat /\ Cardinality(large) \in Nat
      /\ Cardinality(small) <= Cardinality(large)
  <2>1. IsFiniteSet(large) /\ IsFiniteSet(small)
    BY <1>2, ChannelsFinite
  <2>2. QED
    BY <1>2, <2>1, FS_CardinalityType, FS_Subset
<1>4. p.hits \in Nat /\ q.hits \in Nat /\ p.hits <= q.hits
  BY <1>1, <1>2
<1> HIDE DEF p, q, f, small, large, v, w
<1> SUFFICES p.cache \in SUBSET q.cache
  BY <1>4 DEF p, q
<1>5. CASE c \in large
  BY <1>1, <1>2, <1>5
<1>6. CASE c \notin large /\ a = 0
  <2>1. small = {}
    <3>1. IsFiniteSet(small) /\ Cardinality(small) = 0
      BY <1>2, <1>3, <1>6, FS_Subset
    <3>2. QED
      BY <3>1, FS_EmptySet
  <2>2. QED
    BY <1>1, <1>6, <2>1
<1>7. CASE c \notin large /\ a # 0 /\ Cardinality(large) < b
  BY <1>1, <1>2, <1>7
<1>8. CASE c \notin large /\ a # 0 /\ ~ (Cardinality(large) < b)
  <2>1. ~ (Cardinality(small) < a)
    <3> SUFFICES ASSUME Cardinality(small) < a PROVE FALSE
      OBVIOUS
    <3>1. small = large
      BY <1>2
    <3>2. QED
      BY <1>3, <1>8, <3>1
  <2>2. p.cache = (small \ {v}) \cup {c} /\ q.cache = (large \ {w}) \cup {c}
    BY <1>1, <1>2, <1>8, <2>1
  <2>3. small # {} /\ large # {}
    <3>1. Cardinality(small) # 0
      BY <1>3, <1>8, <2>1
    <3>2. QED
      BY <1>2, <3>1, FS_EmptySet
  <2>4. /\ v \in small /\ \A d \in small \ {v} : f[v] < f[d] \/ (f[v] = f[d] /\ v > d)
        /\ w \in large /\ \A d \in large \ {w} : f[w] < f[d] \/ (f[w] = f[d] /\ w > d)
    BY <1>2, <2>3, VictimExists DEF v, w
  <2>5. w \in small => w = v
    <3> SUFFICES ASSUME w \in small, w # v PROVE FALSE
      OBVIOUS
    <3>1. f[v] < f[w] \/ (f[v] = f[w] /\ v > w)
      BY <2>4
    <3>2. f[w] < f[v] \/ (f[w] = f[v] /\ w > v)
      BY <1>2, <2>4
    <3>3. f[v] \in Nat /\ f[w] \in Nat /\ v \in Nat /\ w \in Nat
      BY <1>2, <2>4, ChannelsFinite
    <3>4. QED
      BY <3>1, <3>2, <3>3
  <2>6. p.cache \in SUBSET q.cache
    BY <1>2, <2>2, <2>5
  <2>7. QED
    BY <2>6
<1>9. QED
  BY <1>5, <1>6, <1>7, <1>8

LEMMA LfuTokensNest ==
  ASSUME NEW a \in Nat, NEW b \in Nat, a <= b, NEW seen, NEW x, NEW y, NEW f,
         LfuHolds(a, x, f, seen), LfuHolds(b, y, f, seen), x \in SUBSET y,
         NEW S \in SUBSET Channels
  PROVE  LET p == LfuToken(a, x, f, S)
             q == LfuToken(b, y, f, S)
         IN  p.cache \in SUBSET q.cache /\ p.hits \in Nat /\ q.hits \in Nat /\ p.hits <= q.hits
<1> DEFINE A == Ascending(S)
           n == Len(A)
           small == [freq |-> f, hits |-> 0, cache |-> x]
           large == [freq |-> f, hits |-> 0, cache |-> y]
<1>1. /\ small \in LfuStates /\ small.freq = f /\ small.cache = x /\ small.hits = 0
      /\ large \in LfuStates /\ large.freq = f /\ large.cache = y /\ large.hits = 0
  BY DEF LfuHolds, LfuStates
<1>2. PICK h : Serving(a, small, S, h) /\ LfuToken(a, x, f, S) = h[n]
  BY <1>1, LfuServing
<1>3. PICK g : Serving(b, large, S, g) /\ LfuToken(b, y, f, S) = g[n]
  BY <1>1, LfuServing
<1>4. /\ n \in Nat /\ Served(S, 0) = {}
      /\ \A k \in 0 .. n - 1 : /\ A[k + 1] \in Channels
                               /\ Served(S, k + 1) = Served(S, k) \cup {A[k + 1]}
  BY ServedInTurn
<1>5. /\ h[0] = small /\ \A k \in 0 .. n - 1 : h[k + 1] = LfuChannel(a, h[k], A[k + 1])
      /\ g[0] = large /\ \A k \in 0 .. n - 1 : g[k + 1] = LfuChannel(b, g[k], A[k + 1])
  BY <1>2, <1>3 DEF Serving
<1> HIDE DEF A, n, small, large
<1> DEFINE Good(k) ==
             /\ h[k].freq = g[k].freq /\ h[k].cache \in SUBSET g[k].cache
             /\ h[k].hits \in Nat /\ g[k].hits \in Nat /\ h[k].hits <= g[k].hits
             /\ LfuHolds(a, h[k].cache, h[k].freq, seen \cup Served(S, k))
             /\ LfuHolds(b, g[k].cache, g[k].freq, seen \cup Served(S, k))
           T == {k \in Nat : k <= n => Good(k)}
<1>6. 0 \in T
  <2>1. seen \cup {} = seen
    OBVIOUS
  <2>2. /\ h[0].freq = f /\ h[0].cache = x /\ h[0].hits = 0
        /\ g[0].freq = f /\ g[0].cache = y /\ g[0].hits = 0
    BY <1>1, <1>5
  <2>3. Good(0)
    BY <1>4, <2>1, <2>2
  <2> HIDE DEF Good
  <2>4. QED
    BY <2>3
<1>7. ASSUME NEW k \in Nat, k \in T PROVE k + 1 \in T
  <2> HIDE DEF Good
  <2> SUFFICES ASSUME k + 1 <= n PROVE Good(k + 1)
    OBVIOUS
  <2>1. k \in 0 .. n - 1 /\ k <= n
    BY <1>4
  <2> DEFINE c == A[k + 1]
             r == h[k]
             s == g[k]
             done == seen \cup Served(S, k)
  <2>2. /\ h[k + 1] = LfuChannel(a, r, c) /\ g[k + 1] = LfuChannel(b, s, c)
        /\ c \in Channels /\ done \cup {c} = seen \cup Served(S, k + 1)
    BY <1>4, <1>5, <2>1
  <2>3. /\ r.freq = s.freq /\ r.cache \in SUBSET s.cache
        /\ r.hits \in Nat /\ s.hits \in Nat /\ r.hits <= s.hits
        /\ LfuHolds(a, r.cache, r.freq, done) /\ LfuHolds(b, s.cache, s.freq, done)
    BY <1>7, <2>1 DEF Good
  <2> HIDE DEF r, s, c, done
  <2>0. LET p == LfuChannel(a, r, c)
        IN  p.freq = [r.freq EXCEPT ![c] = @ + Unit] /\ LfuHolds(a, p.cache, p.freq, done \cup {c})
    BY <2>2, <2>3, LfuServes
  <2>4. /\ h[k + 1].freq = [r.freq EXCEPT ![c] = @ + Unit]
        /\ LfuHolds(a, h[k + 1].cache, h[k + 1].freq, done \cup {c})
    BY <2>0, <2>2
  <2>5. /\ g[k + 1].freq = [s.freq EXCEPT ![c] = @ + Unit]
        /\ LfuHolds(b, g[k + 1].cache, g[k + 1].freq, done \cup {c})
    <3>1. LET q == LfuChannel(b, s, c)
          IN  /\ q.freq = [s.freq EXCEPT ![c] = @ + Unit]
              /\ LfuHolds(b, q.cache, q.freq, done \cup {c})
      <4>1. LfuHolds(b, s.cache, s.freq, done) /\ c \in Channels
        BY <2>2, <2>3
      <4>2. QED
        BY <4>1, LfuServes
    <3>2. QED
      BY <2>2, <3>1
  <2>6. /\ h[k + 1].cache \in SUBSET g[k + 1].cache
        /\ h[k + 1].hits \in Nat /\ g[k + 1].hits \in Nat /\ h[k + 1].hits <= g[k + 1].hits
    <3>1. LET p == LfuChannel(a, r, c)
              q == LfuChannel(b, s, c)
          IN  p.cache \in SUBSET q.cache /\ p.hits \in Nat /\ q.hits \in Nat /\ p.hits <= q.hits
      <4>1. c \in Channels
        BY <2>2
      <4>2. QED
        BY <2>3, <4>1, LfuNests
    <3>2. QED
      BY <2>2, <3>1
  <2>7. QED
    BY <2>2, <2>3, <2>4, <2>5, <2>6 DEF Good
<1> HIDE DEF T
<1>8. n \in T
  BY <1>4, <1>6, <1>7, SetInduction
<1>9. Good(n)
  <2>1. n <= n
    BY <1>4
  <2>2. QED
    BY <1>8, <2>1 DEF T
<1>10. QED
  BY <1>2, <1>3, <1>9

(* Decay halves all frequencies alike: what was no smaller stays no smaller. *)
LEMMA DecayKeeps ==
  ASSUME NEW size \in Nat, NEW seen, NEW cache, NEW f, LfuHolds(size, cache, f, seen),
         NEW step, NEW S
  PROVE  LfuHolds(size, cache, Decayed(f, step, S), seen)
<1> DEFINE h == [c \in Channels |-> f[c] \div 2]
<1>1. Decayed(f, step, S) \in {f, h}
  BY DEF Decayed
<1>2. f \in [Channels -> Nat] /\ cache \in SUBSET Channels
  BY DEF LfuHolds
<1>3. \A x, y \in Nat : x \div 2 \in Nat /\ (x \div 2 < y \div 2 => x < y) /\ 0 \div 2 = 0
  OBVIOUS
<1>4. h \in [Channels -> Nat] /\ (\A d \in Channels : h[d] = f[d] \div 2)
  BY <1>2, <1>3
<1> HIDE DEF h
<1>5. Weak(cache, h) \in SUBSET Weak(cache, f)
  BY <1>2, <1>3, <1>4 DEF Weak
<1>6. \A d \in Channels \ seen : h[d] = 0
  BY <1>3, <1>4 DEF LfuHolds
<1>7. LfuHolds(size, cache, h, seen)
  BY <1>4, <1>5, <1>6 DEF LfuHolds
<1>8. QED
  BY <1>1, <1>7

-----------------------------------------------------------------------------
(* HotCachePolicies: LRU *)

(* The cache of one size, under ranks r, with the misses due yet to come in: *)
(* ranks rise from the victim on, and nothing else left out ranks higher     *)
(* than a cached channel.                                                    *)
LruHolds(size, cache, r, due) ==
  /\ cache \in Seq(Channels) /\ (size = 0 => cache = <<>>)
  /\ \A i, j \in 1 .. Len(cache) : i <= j => r[cache[i]] <= r[cache[j]]
  /\ \A c \in ToSet(cache), d \in Channels \ (ToSet(cache) \cup due) : r[d] <= r[c]

LEMMA MembersOf ==
  ASSUME NEW T, NEW s \in Seq(T)
  PROVE  /\ ToSet(s) = {s[n] : n \in 1 .. Len(s)} /\ ToSet(s) \in SUBSET T
  BY DEF ToSet

LEMMA Appended ==
  ASSUME NEW T, NEW s \in Seq(T), NEW w \in T
  PROVE  /\ Append(s, w) \in Seq(T) /\ Len(Append(s, w)) = Len(s) + 1
         /\ Append(s, w)[Len(s) + 1] = w /\ \A i \in 1 .. Len(s) : Append(s, w)[i] = s[i]
OBVIOUS

(* A miss of highest rank comes in.                                          *)
LEMMA LruInserts ==
  ASSUME NEW size \in Nat, NEW cache, NEW r \in [Channels -> Nat], NEW due,
         LruHolds(size, cache, r, due),
         NEW w \in Channels, \A d \in Channels : r[d] <= r[w]
  PROVE  LruHolds(size, InsertLru(size, cache, w), r, due \ {w})
<1> DEFINE new == InsertLru(size, cache, w)
           left == IF Len(cache) >= size THEN Tail(cache) ELSE cache
           n == Len(cache)
           m == Len(left)
           shift == IF n >= size THEN 1 ELSE 0
<1>1. /\ cache \in Seq(Channels) /\ (size = 0 => cache = <<>>)
      /\ \A i, j \in 1 .. n : i <= j => r[cache[i]] <= r[cache[j]]
      /\ \A c \in ToSet(cache), d \in Channels \ (ToSet(cache) \cup due) : r[d] <= r[c]
  BY DEF LruHolds
<1>2. CASE size = 0
  <2>1. new = <<>> /\ <<>> \in Seq(Channels) /\ Len(<<>>) = 0 /\ ToSet(<<>>) = {}
    BY <1>1, <1>2 DEF InsertLru, ToSet
  <2> HIDE DEF new
  <2>2. \A i \in 1 .. 0 : FALSE
    OBVIOUS
  <2>3. LruHolds(size, new, r, due \ {w})
    BY <2>1, <2>2 DEF LruHolds
  <2>4. QED
    BY <2>3 DEF new
<1>3. CASE size # 0
  <2>1. /\ n \in Nat /\ left \in Seq(Channels) /\ m = Len(left) /\ m \in Nat
        /\ m = n - shift /\ shift \in {0, 1}
        /\ \A i \in 1 .. m : left[i] = cache[i + shift] /\ i + shift \in 1 .. n
        /\ shift = 1 => n >= 1
    <3>1. CASE n >= size
      <4>1. n >= 1 /\ shift = 1 /\ left = Tail(cache)
        BY <1>1, <1>3, <3>1
      <4>2. /\ Tail(cache) \in Seq(Channels) /\ Len(Tail(cache)) = n - 1
            /\ \A i \in 1 .. n - 1 : Tail(cache)[i] = cache[i + 1] /\ i + 1 \in 1 .. n
        BY <1>1, <4>1
      <4> HIDE DEF left, shift
      <4>3. QED
        BY <1>1, <4>1, <4>2
    <3>2. CASE ~ (n >= size)
      BY <1>1, <3>2
    <3>3. QED
      BY <3>1, <3>2
  <2>2. new = Append(left, w)
    BY <1>3 DEF InsertLru
  <2> HIDE DEF new, left, m, shift
  <2>3. /\ new \in Seq(Channels) /\ Len(new) = m + 1 /\ new[m + 1] = w
        /\ \A i \in 1 .. m : new[i] = left[i]
    <3>1. left \in Seq(Channels) /\ m = Len(left)
      BY <2>1
    <3>2. QED
      BY <2>2, <3>1, Appended
  <2>4. \A i \in 1 .. m : new[i] = cache[i + shift] /\ i + shift \in 1 .. n
    BY <2>1, <2>3
  <2>5. /\ ToSet(cache) = {cache[i] : i \in 1 .. n} /\ ToSet(cache) \in SUBSET Channels
        /\ ToSet(new) = {new[i] : i \in 1 .. m + 1} /\ ToSet(new) \in SUBSET Channels
    BY <1>1, <2>3, MembersOf
  <2>6. ASSUME NEW i \in 1 .. m + 1, NEW j \in 1 .. m + 1, i <= j PROVE r[new[i]] <= r[new[j]]
    <3>1. CASE j = m + 1
      <4>1. new[i] \in Channels
        BY <2>5
      <4>2. QED
        BY <2>3, <3>1, <4>1
    <3>2. CASE j # m + 1
      <4>0. m \in Nat /\ i <= j
        BY <2>1, <2>6
      <4>1. i \in 1 .. m /\ j \in 1 .. m
        BY <3>2, <4>0
      <4>2. /\ i + shift \in 1 .. n /\ j + shift \in 1 .. n /\ i + shift <= j + shift
        BY <2>1, <2>6, <4>1
      <4>3. r[cache[i + shift]] <= r[cache[j + shift]]
        BY <1>1, <4>2
      <4>4. QED
        BY <2>4, <4>1, <4>3
    <3>3. QED
      BY <3>1, <3>2
  <2>7. ASSUME NEW c \in ToSet(new), NEW d \in Channels \ (ToSet(new) \cup (due \ {w}))
        PROVE  r[d] <= r[c]
    <3>1. PICK i \in 1 .. m + 1 : c = new[i]
      BY <2>5
    <3>2. CASE i = m + 1
      BY <2>3, <3>1, <3>2
    <3>3. CASE i # m + 1
      <4>1. i \in 1 .. m
        BY <2>1, <3>3
      <4>2. c = cache[i + shift] /\ i + shift \in 1 .. n /\ c \in ToSet(cache)
        BY <2>4, <2>5, <3>1, <4>1
      <4>3. w \in ToSet(new)
        <5>1. m + 1 \in 1 .. m + 1
          BY <2>1
        <5>2. QED
          BY <2>3, <2>5, <5>1
      <4>4. d \notin due
        BY <4>3
      <4>5. CASE d \notin ToSet(cache)
        BY <1>1, <4>2, <4>4, <4>5
      <4>6. CASE d \in ToSet(cache)
        <5>1. PICK k \in 1 .. n : d = cache[k]
          BY <2>5, <4>6
        <5>2. k <= i + shift
          <6> SUFFICES ASSUME ~ (k <= i + shift) PROVE FALSE
            OBVIOUS
          <6>1. k - shift \in 1 .. m /\ (k - shift) + shift = k
            BY <2>1, <4>1
          <6>2. new[k - shift] = d /\ k - shift \in 1 .. m + 1
            BY <2>1, <2>4, <5>1, <6>1
          <6>3. QED
            BY <2>5, <6>2
        <5>3. QED
          BY <1>1, <4>2, <5>1, <5>2
      <4>7. QED
        BY <4>5, <4>6
    <3>4. QED
      BY <3>2, <3>3
  <2>8. LruHolds(size, new, r, due \ {w})
    BY <1>3, <2>3, <2>6, <2>7 DEF LruHolds
  <2>9. QED
    BY <2>8 DEF new
<1>4. QED
  BY <1>2, <1>3

(* The channels of the token rank highest from now on.                       *)
Renewed(r, S, now) == [c \in Channels |-> IF c \in S THEN now ELSE r[c]]

LEMMA LruTouches ==
  ASSUME NEW size \in Nat, NEW cache, NEW r \in [Channels -> Nat], LruHolds(size, cache, r, {}),
         NEW S \in SUBSET Channels, NEW now \in Nat, \A c \in Channels : r[c] <= now
  PROVE  LruHolds(size, Touched(cache, S), Renewed(r, S, now), S \ ToSet(cache))
<1> DEFINE n == Len(cache)
           Old == {i \in DOMAIN cache : cache[i] \notin S}
           kept == Ascending(Old)
           hits == Ascending(S \cap ToSet(cache))
           front == [i \in DOMAIN kept |-> cache[kept[i]]]
           new == Touched(cache, S)
           q == Renewed(r, S, now)
           a == Cardinality(Old)
           b == Len(hits)
<1>1. /\ cache \in Seq(Channels) /\ (size = 0 => cache = <<>>)
      /\ \A i, j \in 1 .. n : i <= j => r[cache[i]] <= r[cache[j]]
      /\ \A c \in ToSet(cache), d \in Channels \ ToSet(cache) : r[d] <= r[c]
  BY DEF LruHolds
<1>2. n \in Nat /\ DOMAIN cache = 1 .. n /\ \A i \in 1 .. n : cache[i] \in Channels
  BY <1>1
<1>3. ToSet(cache) = {cache[i] : i \in 1 .. n} /\ ToSet(cache) \in SUBSET Channels
  BY <1>1, MembersOf
<1>4. Old \in SUBSET Nat /\ IsFiniteSet(Old) /\ \A i : i \in Old <=> i \in 1 .. n /\ cache[i] \notin S
  <2>1. Old \in SUBSET (1 .. n) /\ IsFiniteSet(1 .. n)
    BY <1>2, FS_Interval
  <2>2. IsFiniteSet(Old)
    BY <2>1, FS_Subset
  <2>3. QED
    BY <1>2, <2>1, <2>2
<1> HIDE DEF Old
<1>5. /\ a \in Nat /\ DOMAIN kept = 1 .. a /\ \A i \in 1 .. a : kept[i] \in Old
      /\ \A i, j \in 1 .. a : i < j => kept[i] < kept[j]
      /\ \A i \in Old : \E j \in 1 .. a : kept[j] = i
  BY <1>4, AscendingLists
<1> HIDE DEF kept, a
<1>6. /\ hits \in Seq(S \cap ToSet(cache)) /\ b \in Nat
      /\ \A i \in 1 .. b : hits[i] \in S \cap ToSet(cache)
      /\ \A c \in S \cap ToSet(cache) : \E i \in 1 .. b : hits[i] = c
  <2>1. S \cap ToSet(cache) \in SUBSET Nat /\ IsFiniteSet(S \cap ToSet(cache))
    <3>1. S \cap ToSet(cache) \in SUBSET Channels
      OBVIOUS
    <3>2. QED
      BY <3>1, ChannelsFinite
  <2> DEFINE M == S \cap ToSet(cache)
  <2> HIDE DEF M
  <2>2. /\ Cardinality(M) \in Nat /\ Ascending(M) \in Seq(M) /\ Len(Ascending(M)) = Cardinality(M)
        /\ \A c \in M : \E k \in 1 .. Cardinality(M) : Ascending(M)[k] = c
    BY <2>1, AscendingLists DEF M
  <2>3. \A i \in 1 .. Len(Ascending(M)) : Ascending(M)[i] \in M
    BY <2>2
  <2>4. QED
    BY <2>2, <2>3 DEF M
<1>7. new = front \o hits
  BY DEF Touched, kept, Old
<1> HIDE DEF hits, b, new
<1>8. /\ front \in Seq(Channels) /\ Len(front) = a
      /\ \A i \in 1 .. a : front[i] = cache[kept[i]] /\ kept[i] \in 1 .. n /\ front[i] \notin S
  <2>1. \A i \in 1 .. a : kept[i] \in 1 .. n /\ cache[kept[i]] \notin S
    BY <1>4, <1>5
  <2>2. front \in [1 .. a -> Channels]
    BY <1>2, <1>5, <2>1
  <2>3. front \in Seq(Channels) /\ Len(front) = a
    BY <1>5, <2>2, Tabulated
  <2>4. \A i \in 1 .. a : front[i] = cache[kept[i]]
    BY <1>5
  <2>5. QED
    BY <2>1, <2>3, <2>4
<1> HIDE DEF front
<1>9. /\ new \in Seq(Channels) /\ Len(new) = a + b
      /\ \A i \in 1 .. a + b : new[i] = IF i <= a THEN front[i] ELSE hits[i - a]
  <2>1. hits \in Seq(Channels) /\ b = Len(hits)
    BY <1>6 DEF b
  <2>2. QED
    BY <1>7, <1>8, <2>1, Together
<1>10. \A i \in 1 .. a + b : ~ (i <= a) => i - a \in 1 .. b /\ new[i] \in S \cap ToSet(cache)
  <2>1. \A i \in 1 .. a + b : ~ (i <= a) => i - a \in 1 .. b
    BY <1>5, <1>6
  <2>2. QED
    BY <1>6, <1>9, <2>1
<1>11. ToSet(new) = ToSet(cache)
  <2>0. ToSet(new) = {new[i] : i \in 1 .. a + b}
    BY <1>9, MembersOf
  <2>1. ASSUME NEW i \in 1 .. a + b PROVE new[i] \in ToSet(cache)
    <3>1. CASE i <= a
      <4>1. i \in 1 .. a
        BY <1>5, <3>1
      <4>2. new[i] = front[i]
        BY <1>9, <3>1
      <4>3. front[i] = cache[kept[i]] /\ kept[i] \in 1 .. n
        BY <1>8, <4>1
      <4>4. QED
        BY <1>3, <4>2, <4>3
    <3>2. CASE ~ (i <= a)
      BY <1>10, <3>2
    <3>3. QED
      BY <3>1, <3>2
  <2>2. ASSUME NEW c \in ToSet(cache) PROVE \E i \in 1 .. a + b : new[i] = c
    <3>1. CASE c \in S
      <4>1. PICK i \in 1 .. b : hits[i] = c
        BY <1>6, <3>1
      <4>2. a + i \in 1 .. a + b /\ ~ (a + i <= a) /\ (a + i) - a = i
        BY <1>5, <1>6
      <4>3. new[a + i] = c
        BY <1>9, <4>1, <4>2
      <4>4. QED
        BY <4>2, <4>3
    <3>2. CASE c \notin S
      <4>1. PICK k \in 1 .. n : c = cache[k]
        BY <1>3
      <4>2. k \in Old
        BY <1>4, <3>2, <4>1
      <4>3. PICK i \in 1 .. a : kept[i] = k
        BY <1>5, <4>2
      <4>4. i \in 1 .. a + b /\ i <= a
        BY <1>5, <1>6
      <4>5. new[i] = c
        BY <1>8, <1>9, <4>1, <4>3, <4>4
      <4>6. QED
        BY <4>4, <4>5
    <3>3. QED
      BY <3>1, <3>2
  <2>3. QED
    BY <2>0, <2>1, <2>2
<1>12. \A c \in Channels : q[c] = IF c \in S THEN now ELSE r[c]
  BY DEF Renewed
<1>13. \A c \in Channels : q[c] <= now /\ r[c] <= q[c] /\ q[c] \in Nat
  BY <1>12
<1> HIDE DEF q
<1>14. ASSUME NEW i \in 1 .. a + b, NEW j \in 1 .. a + b, i <= j PROVE q[new[i]] <= q[new[j]]
  <2>0. new[i] \in Channels /\ new[j] \in Channels
    BY <1>9
  <2>1. CASE ~ (j <= a)
    <3>1. q[new[j]] = now
      BY <1>10, <1>12, <2>0, <2>1
    <3>2. QED
      BY <1>13, <2>0, <3>1
  <2>2. CASE j <= a
    <3>1. i \in 1 .. a /\ j \in 1 .. a
      BY <1>5, <1>14, <2>2
    <3>2. /\ new[i] = cache[kept[i]] /\ new[j] = cache[kept[j]] /\ new[i] \notin S /\ new[j] \notin S
          /\ kept[i] \in 1 .. n /\ kept[j] \in 1 .. n
      <4>1. i <= a /\ j <= a
        BY <1>5, <3>1
      <4>2. new[i] = front[i] /\ new[j] = front[j]
        BY <1>9, <4>1
      <4>3. QED
        BY <1>8, <3>1, <4>2
    <3>3. kept[i] <= kept[j]
      BY <1>2, <1>5, <1>14, <3>1, <3>2
    <3>4. QED
      BY <1>1, <1>12, <2>0, <3>2, <3>3
  <2>3. QED
    BY <2>1, <2>2
<1>15. ASSUME NEW c \in ToSet(new), NEW d \in Channels \ (ToSet(new) \cup (S \ ToSet(cache)))
       PROVE  q[d] <= q[c]
  <2>1. c \in ToSet(cache) /\ c \in Channels /\ d \notin ToSet(cache) /\ d \notin S
    BY <1>3, <1>11
  <2>2. r[d] <= r[c] /\ q[d] = r[d] /\ r[c] <= q[c] /\ r[c] \in Nat /\ r[d] \in Nat /\ q[c] \in Nat
    BY <1>1, <1>12, <1>13, <2>1
  <2>3. QED
    BY <2>2
<1>16. size = 0 => new = <<>>
  <2> SUFFICES ASSUME size = 0 PROVE new = <<>>
    OBVIOUS
  <2>1. n = 0
    BY <1>1
  <2>2. ToSet(cache) = {}
    BY <1>3, <2>1
  <2>3. ToSet(new) = {new[i] : i \in 1 .. a + b}
    BY <1>9, MembersOf
  <2>4. a + b = 0
    <3>1. a + b # 0 => 1 \in 1 .. a + b
      BY <1>5, <1>6
    <3>2. QED
      BY <1>11, <2>2, <2>3, <3>1
  <2>5. QED
    BY <1>9, <2>4
<1>17. LruHolds(size, new, q, S \ ToSet(cache))
  BY <1>9, <1>14, <1>15, <1>16 DEF LruHolds
<1>18. QED
  BY <1>17 DEF new, q

LEMMA TouchedType ==
  ASSUME NEW size \in Nat, NEW cache \in Seq(Channels), NEW c \in Channels
  PROVE  InsertLru(size, cache, c) \in Seq(Channels)
<1>1. CASE size # 0 /\ Len(cache) >= size
  <2>1. cache # <<>>
    BY <1>1
  <2>2. Tail(cache) \in Seq(Channels)
    BY <2>1
  <2>3. InsertLru(size, cache, c) = Append(Tail(cache), c)
    BY <1>1 DEF InsertLru
  <2>4. QED
    BY <2>2, <2>3
<1>2. CASE ~ (size # 0 /\ Len(cache) >= size)
  BY <1>2 DEF InsertLru
<1>3. QED
  BY <1>1, <1>2

(* A whole token: its hits are touched, then its misses come in.             *)
LEMMA LruTokenHolds ==
  ASSUME NEW size \in Nat, NEW cache, NEW r \in [Channels -> Nat], LruHolds(size, cache, r, {}),
         NEW S \in SUBSET Channels, NEW now \in Nat, \A c \in Channels : r[c] <= now
  PROVE  LruHolds(size, LruToken(size, cache, S).cache, Renewed(r, S, now), {})
<1> DEFINE Misses == S \ ToSet(cache)
           A == Ascending(Misses)
           n == Len(A)
           q == Renewed(r, S, now)
           base == Touched(cache, S)
           V == Seq(Channels)
           Serve(s, k) == InsertLru(size, s, A[k])
           g == [p \in V \X (1 .. n) |-> Serve(p[1], p[2])]
           Is(h) == h = [s \in SUBSET (1 .. n) |-> IF s = {} THEN base ELSE Serve(h[s \ {Max(s)}], Max(s))]
           fold == CHOOSE h : Is(h)
           Due(k) == Misses \ {A[j] : j \in 1 .. k}
           T == {k \in Nat : k <= n => LruHolds(size, fold[1 .. k], q, Due(k))}
<1>1. /\ n \in Nat /\ DOMAIN A = 1 .. n /\ \A k \in 1 .. n : A[k] \in Misses
      /\ \A c \in Misses : \E k \in 1 .. n : A[k] = c
  <2>1. Misses \in SUBSET Nat /\ IsFiniteSet(Misses)
    <3>1. Misses \in SUBSET Channels
      OBVIOUS
    <3>2. QED
      BY <3>1, ChannelsFinite
  <2> HIDE DEF Misses
  <2>2. /\ Cardinality(Misses) \in Nat /\ A \in Seq(Misses) /\ n = Cardinality(Misses)
        /\ DOMAIN A = 1 .. n
        /\ \A c \in Misses : \E k \in 1 .. n : A[k] = c
    BY <2>1, AscendingLists
  <2>3. QED
    BY <2>2
<1>2. LruToken(size, cache, S).cache = fold[1 .. n]
  BY <1>1 DEF LruToken, FoldLeft, MapThenFoldSet
<1>3. LruHolds(size, base, q, Misses)
  BY LruTouches
<1>4. base \in V
  BY <1>3 DEF LruHolds
<1>5. \A k \in 1 .. n : A[k] \in Channels /\ A[k] \in S
  BY <1>1
<1>6. q \in [Channels -> Nat] /\ \A c \in S, d \in Channels : q[d] <= q[c]
  BY DEF Renewed
<1> HIDE DEF A, n, base, q, Misses
<1>7. \A k \in 1 .. n, s \in V : Serve(s, k) \in V
  BY <1>5, TouchedType
<1> HIDE DEF Serve, V
<1>8. Is(fold)
  <2>1. g \in [V \X (1 .. n) -> V]
    BY <1>7
  <2> HIDE DEF g
  <2>2. Folded(n, V, base, g)
    BY <1>1, <1>4, <2>1, FoldsExist
  <2>3. PICK h \in [SUBSET (1 .. n) -> V] :
          \A s \in SUBSET (1 .. n) : h[s] = FoldStep(base, g, h, s)
    BY <2>2 DEF Folded
  <2>4. ASSUME NEW s \in SUBSET (1 .. n)
        PROVE  h[s] = IF s = {} THEN base ELSE Serve(h[s \ {Max(s)}], Max(s))
    <3>1. CASE s = {}
      BY <2>3, <3>1 DEF FoldStep
    <3>2. CASE s # {}
      <4>1. Max(s) \in 1 .. n /\ h[s \ {Max(s)}] \in V
        BY <1>1, <2>3, <3>2, MaxOfPositions
      <4>2. h[s] = g[<<h[s \ {Max(s)}], Max(s)>>]
        BY <2>3, <3>2 DEF FoldStep
      <4>3. QED
        BY <3>2, <4>1, <4>2 DEF g
    <3>3. QED
      BY <3>1, <3>2
  <2>5. Is(h)
    BY <2>3, <2>4
  <2>6. QED
    BY <2>5
<1>9. 0 \in T
  <2>1. fold[1 .. 0] = base
    <3>1. 1 .. 0 = {} /\ {} \in SUBSET (1 .. n)
      OBVIOUS
    <3> HIDE DEF fold
    <3>2. QED
      BY <1>8, <3>1
  <2>2. Due(0) = Misses
    OBVIOUS
  <2> HIDE DEF fold, Due
  <2>3. QED
    BY <1>3, <2>1, <2>2
<1>10. ASSUME NEW k \in Nat, k \in T PROVE k + 1 \in T
  <2> SUFFICES ASSUME k + 1 <= n PROVE LruHolds(size, fold[1 .. k + 1], q, Due(k + 1))
    OBVIOUS
  <2>1. k \in 0 .. n - 1 /\ k + 1 \in 1 .. n /\ k <= n
    BY <1>1
  <2>2. fold[1 .. k + 1] = Serve(fold[1 .. k], k + 1)
    <3>1. /\ 1 .. k + 1 \in SUBSET (1 .. n) /\ 1 .. k + 1 # {}
          /\ Max(1 .. k + 1) = k + 1 /\ (1 .. k + 1) \ {k + 1} = 1 .. k
      BY <1>1, <2>1, PrefixOfPositions
    <3> HIDE DEF fold
    <3>2. QED
      BY <1>8, <3>1
  <2>3. Due(k + 1) = Due(k) \ {A[k + 1]}
    <3>1. \A j : j \in 1 .. k + 1 <=> j \in 1 .. k \/ j = k + 1
      OBVIOUS
    <3>2. QED
      BY <3>1
  <2> HIDE DEF fold, Due
  <2>4. LruHolds(size, fold[1 .. k], q, Due(k))
    BY <1>10, <2>1
  <2>5. A[k + 1] \in Channels /\ \A d \in Channels : q[d] <= q[A[k + 1]]
    BY <1>5, <1>6, <2>1
  <2>6. LruHolds(size, InsertLru(size, fold[1 .. k], A[k + 1]), q, Due(k) \ {A[k + 1]})
    BY <1>6, <2>4, <2>5, LruInserts
  <2>7. QED
    BY <2>2, <2>3, <2>6 DEF Serve
<1> HIDE DEF T
<1>11. n \in T
  BY <1>1, <1>9, <1>10, SetInduction
<1>12. Due(n) = {}
  BY <1>1
<1> HIDE DEF fold, Due
<1>13. LruHolds(size, fold[1 .. n], q, Due(n))
  <2>1. n <= n
    BY <1>1
  <2>2. QED
    BY <1>11, <2>1 DEF T
<1>14. QED
  BY <1>2, <1>12, <1>13 DEF q

(* LastUse, tabulated over the channels.                                     *)
Recency(t) == [c \in Channels |-> Max({0} \cup {i \in DOMAIN t : c \in t[i]})]

LEMMA LatestUse ==
  ASSUME NEW n \in Nat, NEW s \in SUBSET (1 .. n)
  PROVE  /\ Max({0} \cup s) \in Nat /\ Max({0} \cup s) <= n
         /\ Max({0} \cup (s \cup {n + 1})) = n + 1
<1>1. CASE s = {}
  <2>1. {0} \cup s = {0} /\ {0} \cup (s \cup {n + 1}) = {0, n + 1}
    BY <1>1
  <2>2. Max({0}) \in {0} /\ Max({0, n + 1}) = n + 1
    <3>1. \E m \in {0} : \A y \in {0} : m >= y
      OBVIOUS
    <3>2. Max({0}) \in {0}
      BY <3>1 DEF Max
    <3>3. \E m \in {0, n + 1} : \A y \in {0, n + 1} : m >= y
      OBVIOUS
    <3>4. Max({0, n + 1}) \in {0, n + 1} /\ \A y \in {0, n + 1} : Max({0, n + 1}) >= y
      BY <3>3 DEF Max
    <3>5. QED
      BY <3>2, <3>4
  <2>3. QED
    BY <2>1, <2>2
<1>2. CASE s # {}
  <2>1. Max(s) \in s /\ \A j \in s : j <= Max(s)
    BY <1>2, MaxOfPositions
  <2>2. \E m \in {0} \cup s : \A y \in {0} \cup s : m >= y
    <3>1. \A y \in s : y \in Nat /\ Max(s) >= y /\ y >= 0
      BY <2>1
    <3>2. Max(s) >= 0
      BY <2>1, <3>1
    <3>3. QED
      BY <2>1, <3>1, <3>2
  <2>3. Max({0} \cup s) \in Nat /\ Max({0} \cup s) <= n
    <3>1. Max({0} \cup s) \in {0} \cup s
      BY <2>2 DEF Max
    <3>2. \A y \in {0} \cup s : y \in Nat /\ y <= n
      OBVIOUS
    <3>3. QED
      BY <3>1, <3>2
  <2> DEFINE u == {0} \cup (s \cup {n + 1})
  <2>4. n + 1 \in u /\ (\A y \in u : n + 1 >= y) /\ \A y \in u : y \in Nat
    OBVIOUS
  <2> HIDE DEF u
  <2>5. Max(u) \in u /\ \A y \in u : Max(u) >= y
    BY <2>4 DEF Max
  <2>6. Max(u) >= n + 1 /\ n + 1 >= Max(u) /\ Max(u) \in Nat
    BY <2>4, <2>5
  <2>7. Max(u) = n + 1
    BY <2>6
  <2>8. QED
    BY <2>3, <2>7 DEF u
<1>3. QED
  BY <1>1, <1>2

LEMMA RecencyOfNext ==
  ASSUME NEW t \in Seq(SUBSET Channels), NEW S \in SUBSET Channels
  PROVE  /\ Recency(t) \in [Channels -> Nat] /\ Len(t) + 1 \in Nat
         /\ \A c \in Channels : Recency(t)[c] <= Len(t) + 1
         /\ Recency(Append(t, S)) = Renewed(Recency(t), S, Len(t) + 1)
<1> DEFINE n == Len(t)
           Uses(u, c) == {i \in DOMAIN u : c \in u[i]}
           v == Append(t, S)
<1>1. n \in Nat /\ DOMAIN t = 1 .. n
  OBVIOUS
<1>2. DOMAIN v = 1 .. n + 1 /\ v[n + 1] = S /\ \A i \in 1 .. n : v[i] = t[i]
  OBVIOUS
<1> HIDE DEF n, v
<1>3. ASSUME NEW c \in Channels
      PROVE  /\ Uses(t, c) \in SUBSET (1 .. n)
             /\ Uses(v, c) = IF c \in S THEN Uses(t, c) \cup {n + 1} ELSE Uses(t, c)
  <2>1. \A i : i \in 1 .. n + 1 <=> i \in 1 .. n \/ i = n + 1
    BY <1>1
  <2>2. ~ (n + 1 \in 1 .. n)
    BY <1>1
  <2>3. QED
    BY <1>1, <1>2, <2>1, <2>2
<1>4. ASSUME NEW c \in Channels
      PROVE  /\ Recency(t)[c] \in Nat /\ Recency(t)[c] <= n + 1
             /\ Recency(v)[c] = IF c \in S THEN n + 1 ELSE Recency(t)[c]
  <2>1. Recency(t)[c] = Max({0} \cup Uses(t, c)) /\ Recency(v)[c] = Max({0} \cup Uses(v, c))
    BY DEF Recency
  <2>2. /\ Uses(t, c) \in SUBSET (1 .. n)
        /\ Uses(v, c) = IF c \in S THEN Uses(t, c) \cup {n + 1} ELSE Uses(t, c)
    BY <1>3
  <2> HIDE DEF Uses
  <2>3. /\ Max({0} \cup Uses(t, c)) \in Nat /\ Max({0} \cup Uses(t, c)) <= n
        /\ Max({0} \cup (Uses(t, c) \cup {n + 1})) = n + 1
    BY <1>1, <2>2, LatestUse
  <2>4. Recency(t)[c] \in Nat /\ Recency(t)[c] <= n + 1
    BY <1>1, <2>1, <2>3
  <2>5. CASE c \in S
    <3>1. Recency(v)[c] = n + 1
      BY <2>1, <2>2, <2>3, <2>5
    <3>2. QED
      BY <2>4, <2>5, <3>1
  <2>6. CASE c \notin S
    BY <2>1, <2>2, <2>4, <2>6
  <2>7. QED
    BY <2>5, <2>6
<1>5. Recency(t) \in [Channels -> Nat]
  <2>1. Recency(t) = [c \in Channels |-> Recency(t)[c]]
    BY DEF Recency
  <2>2. QED
    BY <1>4, <2>1
<1>6. Recency(v) = [c \in Channels |-> Recency(v)[c]]
  BY DEF Recency
<1>7. Recency(v) = Renewed(Recency(t), S, n + 1)
  BY <1>4, <1>6 DEF Renewed
<1>8. QED
  BY <1>1, <1>4, <1>5, <1>7 DEF n, v

-----------------------------------------------------------------------------
(* HotCachePolicies: a trace of any length *)

PoliciesInv ==
  /\ trace \in Seq(SUBSET Channels)
  /\ lru_hits \in [Sizes -> Nat]
  /\ \A s \in Sizes : LruHolds(s, lru[s], Recency(trace), {})
  /\ \A s \in Sizes : LfuHolds(s, lfu[s], freq, Seen)

LEMMA PoliciesStart == PoliciesInit => PoliciesInv
<1> SUFFICES ASSUME PoliciesInit PROVE PoliciesInv
  OBVIOUS
<1>1. trace = <<>> /\ trace \in Seq(SUBSET Channels) /\ Seen = {}
  BY DEF PoliciesInit, Seen, ToSet
<1>2. freq \in [Channels -> Nat] /\ \A c \in Channels : freq[c] = 0
  BY DEF PoliciesInit
<1>3. ASSUME NEW s \in Sizes PROVE LfuHolds(s, lfu[s], freq, Seen)
  <2>1. lfu[s] = {} /\ Cardinality({}) = 0 /\ s \in Nat /\ s >= 0
    BY PoliciesAssumption, FS_EmptySet DEF PoliciesInit
  <2>2. Weak({}, freq) = {}
    BY DEF Weak
  <2>3. QED
    BY <1>1, <1>2, <2>1, <2>2 DEF LfuHolds
<1>4. ASSUME NEW s \in Sizes PROVE LruHolds(s, lru[s], Recency(trace), {})
  <2>1. lru[s] = <<>> /\ <<>> \in Seq(Channels) /\ Len(<<>>) = 0 /\ ToSet(<<>>) = {}
    BY DEF PoliciesInit, ToSet
  <2>2. \A i \in 1 .. 0 : FALSE
    OBVIOUS
  <2>3. QED
    BY <2>1, <2>2 DEF LruHolds
<1>5. lru_hits \in [Sizes -> Nat]
  BY DEF PoliciesInit
<1>6. QED
  BY <1>1, <1>3, <1>4, <1>5 DEF PoliciesInv

LEMMA HitsCounted ==
  ASSUME lru_hits \in [Sizes -> Nat], \A s \in Sizes : LruHolds(s, lru[s], Recency(trace), {}),
         NEW S \in SUBSET Channels, Token(S)
  PROVE  /\ lru_hits' \in [Sizes -> Nat]
         /\ \A s \in Sizes : lru_hits'[s] - lru_hits[s] = Cardinality(S \cap ToSet(lru[s]))
<1>1. lru_hits' = [s \in Sizes |-> lru_hits[s] + Cardinality(S \cap ToSet(lru[s]))]
  <2>1. \A size, cache : LruToken(size, cache, S).hits = Cardinality(S \cap ToSet(cache))
    BY Zenon DEF LruToken
  <2>2. lru_hits' = [s \in Sizes |-> lru_hits[s] + LruToken(s, lru[s], S).hits]
    BY DEF Token
  <2>3. QED
    BY <2>1, <2>2
<1>2. \A s \in Sizes : Cardinality(S \cap ToSet(lru[s])) \in Nat
  <2> TAKE s \in Sizes
  <2>1. S \cap ToSet(lru[s]) \in SUBSET Channels
    OBVIOUS
  <2>2. IsFiniteSet(S \cap ToSet(lru[s]))
    BY <2>1, ChannelsFinite
  <2>3. QED
    BY <2>2, FS_CardinalityType
<1>3. QED
  BY <1>1, <1>2

LEMMA PoliciesStay ==
  ASSUME PoliciesInv, [PoliciesNext]_policyVars
  PROVE  PoliciesInv'
<1>1. CASE UNCHANGED policyVars
  BY <1>1 DEF policyVars, PoliciesInv, Seen
<1>2. CASE PoliciesNext
  <2>1. PICK S \in SUBSET Channels : Token(S)
    BY <1>2 DEF PoliciesNext, kSubset
  <2>2. trace \in Seq(SUBSET Channels) /\ trace' = Append(trace, S)
    BY <2>1 DEF Token, PoliciesInv
  <2>3. trace' \in Seq(SUBSET Channels) /\ Seen' = Seen \cup S
    <3>1. trace' \in Seq(SUBSET Channels)
      BY <2>2
    <3>2. Len(trace') = Len(trace) + 1 /\ Len(trace) \in Nat
      BY <2>2
    <3>3. DOMAIN trace = 1 .. Len(trace) /\ DOMAIN trace' = 1 .. Len(trace) + 1
      BY <2>2, <3>2
    <3>4. trace'[Len(trace) + 1] = S /\ \A j \in DOMAIN trace : trace'[j] = trace[j]
      BY <2>2, <3>3
    <3>5. ToSet(trace)' = ToSet(trace) \cup {S}
      BY <3>2, <3>3, <3>4 DEF ToSet
    <3>6. QED
      BY <3>1, <3>5 DEF Seen
  <2>4. freq' = Decayed(Counted(freq, S), Len(trace'), S)
    BY <2>1 DEF Token, Counted
  <2>5. ASSUME NEW s \in Sizes PROVE LfuHolds(s, lfu'[s], freq', Seen')
    <3>1. lfu'[s] = LfuToken(s, lfu[s], freq, S).cache
      BY <2>1 DEF Token
    <3>2. LfuHolds(s, lfu[s], freq, Seen) /\ s \in Nat
      BY PoliciesAssumption DEF PoliciesInv
    <3>3. LfuHolds(s, lfu'[s], Counted(freq, S), Seen')
      BY <2>3, <3>1, <3>2, LfuTokenHolds
    <3>4. \A seen, cache, f, step, T :
            LfuHolds(s, cache, f, seen) => LfuHolds(s, cache, Decayed(f, step, T), seen)
      BY <3>2, DecayKeeps
    <3>5. QED
      BY <2>4, <3>3, <3>4
  <2>6. ASSUME NEW s \in Sizes PROVE LruHolds(s, lru'[s], Recency(trace'), {})
    <3>1. lru'[s] = LruToken(s, lru[s], S).cache
      BY <2>1 DEF Token
    <3>2. LruHolds(s, lru[s], Recency(trace), {}) /\ s \in Nat
      BY PoliciesAssumption DEF PoliciesInv
    <3>3. \A t \in Seq(SUBSET Channels) :
            /\ Recency(t) \in [Channels -> Nat] /\ Len(t) + 1 \in Nat
            /\ \A c \in Channels : Recency(t)[c] <= Len(t) + 1
            /\ Recency(Append(t, S)) = Renewed(Recency(t), S, Len(t) + 1)
      BY RecencyOfNext
    <3>4. LruHolds(s, LruToken(s, lru[s], S).cache, Renewed(Recency(trace), S, Len(trace) + 1), {})
      BY <2>2, <3>2, <3>3, LruTokenHolds
    <3>5. Recency(trace') = Renewed(Recency(trace), S, Len(trace) + 1)
      BY <2>2, <3>3
    <3>6. QED
      BY <3>1, <3>4, <3>5
  <2>7. lru_hits' \in [Sizes -> Nat]
    BY HitsCounted, <2>1 DEF PoliciesInv
  <2>8. QED
    BY <2>3, <2>5, <2>6, <2>7 DEF PoliciesInv
<1>3. QED
  BY <1>1, <1>2

LEMMA PoliciesAlways == Spec => []PoliciesInv
<1>1. Init => PoliciesInv
  BY PoliciesStart DEF Init
<1>2. PoliciesInv /\ [Next]_vars => PoliciesInv'
  BY ScriptSteps, PoliciesStay
<1>3. QED
  BY <1>1, <1>2, PTL DEF Spec

(* For every trace and every cache size a token hits what the LRU cache held  *)
(* before it, and the cache keeps the channels used last                     *)
(* (hot_cache.py:103-116, 123-140).                                          *)
THEOREM LruIsRecent == Spec => LruServesMostRecent
<1> DEFINE Serves ==
      \A s \in Sizes :
        /\ trace' # trace =>
             lru_hits'[s] - lru_hits[s] = Cardinality(Last(trace') \cap ToSet(lru[s]))
        /\ KeepsMostRecent(s)'
<1>1. ASSUME PoliciesInv, PoliciesInv', [Next]_vars PROVE [Serves]_policyVars
  <2> SUFFICES ASSUME PoliciesNext PROVE Serves
    BY <1>1, ScriptSteps
  <2>1. PICK S \in SUBSET Channels : Token(S)
    BY DEF PoliciesNext, kSubset
  <2>2. Last(trace') = S
    <3>1. trace \in Seq(SUBSET Channels) /\ trace' = Append(trace, S)
      BY <1>1, <2>1 DEF Token, PoliciesInv
    <3>2. trace' \in Seq(SUBSET Channels) /\ trace'[Len(trace')] = S
      BY <3>1
    <3>3. QED
      BY <3>2 DEF Last
  <2>3. \A s \in Sizes : lru_hits'[s] - lru_hits[s] = Cardinality(Last(trace') \cap ToSet(lru[s]))
    BY <1>1, <2>1, <2>2, HitsCounted DEF PoliciesInv
  <2>4. ASSUME NEW s \in Sizes PROVE KeepsMostRecent(s)'
    <3>1. LruHolds(s, lru'[s], Recency(trace'), {})
      BY <1>1 DEF PoliciesInv
    <3>2. \A c \in ToSet(lru'[s]), d \in Channels \ ToSet(lru'[s]) : Recency(trace')[d] <= Recency(trace')[c]
      BY <3>1 DEF LruHolds
    <3>3. lru'[s] \in Seq(Channels)
      BY <3>1 DEF LruHolds
    <3>4. ToSet(lru'[s]) \in SUBSET Channels
      BY <3>3, MembersOf
    <3>5. \A c \in Channels : LastUse(c)' = Recency(trace')[c] /\ Recency(trace')[c] \in Nat
      <4>1. trace' \in Seq(SUBSET Channels)
        BY <1>1 DEF PoliciesInv
      <4>2. \A t \in Seq(SUBSET Channels) : Recency(t) \in [Channels -> Nat]
        BY RecencyOfNext
      <4>3. Recency(trace') \in [Channels -> Nat]
        BY <4>1, <4>2
      <4>4. \A c \in Channels : LastUse(c)' = Recency(trace')[c]
        BY DEF LastUse, Recency
      <4>5. QED
        BY <4>3, <4>4
    <3>6. QED
      BY <3>2, <3>4, <3>5 DEF KeepsMostRecent
  <2>5. QED
    BY <2>3, <2>4
<1>2. QED
  BY <1>1, PoliciesAlways, PTL DEF Spec, LruServesMostRecent

(* For every trace and every cache size no fixed set of channels would have  *)
(* hit more often than the static policy (hot_cache.py:197-203).             *)
THEOREM StaticIsBest == Spec => []StaticIsBestFixedSet
<1>1. PoliciesInv => StaticIsBestFixedSet
  BY HotSetIsBest, PoliciesAssumption DEF PoliciesInv, StaticIsBestFixedSet
<1>2. QED
  BY <1>1, PoliciesAlways, PTL

(* For every trace and every cache size at most one channel of the LFU cache *)
(* is less frequent than some channel left out (hot_cache.py:167-186).       *)
THEOREM LfuIsFrequent == Spec => []LfuKeepsFrequent
<1>1. ASSUME PoliciesInv PROVE LfuKeepsFrequent
  <2> SUFFICES ASSUME NEW s \in Sizes
               PROVE  Cardinality(Weak(lfu[s], freq)) <= 1
    BY DEF LfuKeepsFrequent, Weak
  <2>1. \A c, d \in Weak(lfu[s], freq) : c = d
    BY <1>1 DEF PoliciesInv, LfuHolds
  <2> DEFINE W == Weak(lfu[s], freq)
  <2>2. CASE W = {}
    BY <2>2, FS_EmptySet
  <2>3. CASE W # {}
    <3>1. PICK c \in W : TRUE
      BY <2>3
    <3>2. W = {c}
      BY <2>1, <3>1
    <3> HIDE DEF W
    <3>3. Cardinality(W) = 1
      BY <3>2, FS_Singleton
    <3>4. QED
      BY <3>3 DEF W
  <2>4. QED
    BY <2>2, <2>3
<1>2. QED
  BY <1>1, PoliciesAlways, PTL

(* For every trace and any two cache sizes the larger LFU cache holds what   *)
(* the smaller does, and has had no fewer hits (hot_cache.py:164-182).       *)
THEOREM LargerLfuIsBetter == Spec => []LargerLfuNeverHurts
<1> DEFINE Nested == lfu_hits \in [Sizes -> Nat] /\ LargerLfuNeverHurts
<1>1. PoliciesInit => Nested
  <2> SUFFICES ASSUME PoliciesInit PROVE Nested
    OBVIOUS
  <2>1. /\ lfu_hits \in [Sizes -> Nat] /\ \A s \in Sizes : lfu_hits[s] = 0 /\ lfu[s] = {}
    BY DEF PoliciesInit
  <2>2. QED
    BY <2>1 DEF LargerLfuNeverHurts
<1>2. ASSUME PoliciesInv, Nested, PoliciesNext PROVE Nested'
  <2>1. PICK S \in SUBSET Channels : Token(S)
    BY <1>2 DEF PoliciesNext, kSubset
  <2>2. /\ lfu' = [s \in Sizes |-> LfuToken(s, lfu[s], freq, S).cache]
        /\ lfu_hits' = [s \in Sizes |-> lfu_hits[s] + LfuToken(s, lfu[s], freq, S).hits]
    BY <2>1 DEF Token
  <2>3. \A s \in Sizes : s \in Nat /\ LfuHolds(s, lfu[s], freq, Seen) /\ lfu_hits[s] \in Nat
    BY <1>2, PoliciesAssumption DEF PoliciesInv
  <2>4. ASSUME NEW s \in Sizes, NEW t \in Sizes, s <= t
        PROVE  LET p == LfuToken(s, lfu[s], freq, S)
                   q == LfuToken(t, lfu[t], freq, S)
               IN  p.cache \in SUBSET q.cache /\ p.hits \in Nat /\ q.hits \in Nat /\ p.hits <= q.hits
    <3>1. lfu[s] \in SUBSET lfu[t]
      BY <1>2, <2>4 DEF LargerLfuNeverHurts
    <3>2. QED
      BY <2>3, <2>4, <3>1, LfuTokensNest
  <2>5. \A s \in Sizes : LfuToken(s, lfu[s], freq, S).hits \in Nat
    <3> TAKE s \in Sizes
    <3>1. s <= s
      BY <2>3
    <3>2. QED
      BY <2>4, <3>1
  <2>6. lfu_hits' \in [Sizes -> Nat]
    BY <2>2, <2>3, <2>5
  <2>7. ASSUME NEW s \in Sizes, NEW t \in Sizes, s <= t
        PROVE  lfu'[s] \subseteq lfu'[t] /\ lfu_hits'[s] <= lfu_hits'[t]
    <3>1. lfu_hits[s] <= lfu_hits[t] /\ lfu_hits[s] \in Nat /\ lfu_hits[t] \in Nat
      BY <1>2, <2>3, <2>7 DEF LargerLfuNeverHurts
    <3> DEFINE p == LfuToken(s, lfu[s], freq, S)
               q == LfuToken(t, lfu[t], freq, S)
    <3>2. lfu'[s] = p.cache /\ lfu'[t] = q.cache
          /\ lfu_hits'[s] = lfu_hits[s] + p.hits /\ lfu_hits'[t] = lfu_hits[t] + q.hits
      BY <2>2
    <3>3. p.cache \in SUBSET q.cache /\ p.hits \in Nat /\ q.hits \in Nat /\ p.hits <= q.hits
      BY <2>4, <2>7
    <3> HIDE DEF p, q
    <3>4. QED
      BY <3>1, <3>2, <3>3
  <2>8. QED
    BY <2>6, <2>7 DEF LargerLfuNeverHurts
<1>3. ASSUME Nested, UNCHANGED policyVars PROVE Nested'
  BY <1>3 DEF policyVars, LargerLfuNeverHurts
<1>4. Init => Nested
  BY <1>1 DEF Init
<1>5. PoliciesInv /\ Nested /\ [Next]_vars => Nested'
  BY <1>2, <1>3, ScriptSteps
<1>6. QED
  BY <1>4, <1>5, PoliciesAlways, PTL DEF Spec

-----------------------------------------------------------------------------
(* FormatSweep *)

RowsAreKept == (\E S : sweep_rows \in Seq(S)) /\ RowsFromPristine

LEMMA RowsStart == SweepInit => RowsAreKept
  BY DEF SweepInit, RowsAreKept, RowsFromPristine

(* A row is appended for the format at its place, applied to the weights as  *)
(* loaded, and those are not written again.                                  *)
LEMMA RowsStay ==
  ASSUME RowsAreKept, [SweepNext]_sweepVars
  PROVE  RowsAreKept'
<1>1. PICK S : sweep_rows \in Seq(S)
  BY DEF RowsAreKept
<1>2. CASE UNCHANGED sweepVars
  BY <1>2 DEF sweepVars, RowsAreKept, RowsFromPristine
<1>3. CASE Restore
  BY <1>3 DEF Restore, RowsAreKept, RowsFromPristine
<1>4. CASE Baseline
  <2>1. sweep_rows' = <<module_weights'>>
    BY <1>4 DEF Baseline
  <2>2. sweep_rows' \in Seq({module_weights'}) /\ Len(sweep_rows') = 1
    BY <2>1
  <2>3. QED
    BY <2>2 DEF RowsAreKept, RowsFromPristine
<1>5. CASE SweepStep
  <2> DEFINE n == Len(sweep_rows)
             row_n == fake_quantize_linear_layers(pristine_state, Configs[n])
  <2>1. /\ n \in Nat /\ sweep_rows' = Append(sweep_rows, module_weights')
        /\ module_weights' = row_n /\ pristine_state' = pristine_state
    BY <1>1, <1>5 DEF SweepStep, load_state_dict
  <2>2. /\ row_n["lm_head"] = pristine_state["lm_head"]
        /\ row_n["mlp.up_proj"] = dequantize(quantize(pristine_state["mlp.up_proj"], Configs[n]))
    BY DEF fake_quantize_linear_layers, Modules, skip_names
  <2> HIDE DEF row_n
  <2>3. /\ sweep_rows' \in Seq(S \cup {row_n}) /\ Len(sweep_rows') = n + 1
        /\ sweep_rows'[n + 1] = row_n
    BY <1>1, <2>1
  <2>4. (\E T : sweep_rows \in Seq(T))' /\ Last(sweep_rows)' = row_n /\ Len(sweep_rows)' - 1 = n
    BY <2>1, <2>3 DEF Last
  <2> HIDE DEF n
  <2>5. RowsFromPristine'
    BY <2>1, <2>2, <2>4 DEF RowsFromPristine
  <2>6. QED
    BY <2>4, <2>5 DEF RowsAreKept
<1>6. QED
  BY <1>2, <1>3, <1>4, <1>5 DEF SweepNext

(* Every row of the sweep comes from the model as loaded, under that one     *)
(* format and with the head as it was (bench_m3_perplexity.py:90-98).        *)
THEOREM FormatsIndependent == Spec => []RowsFromPristine
<1>1. Init => RowsAreKept
  BY RowsStart DEF Init
<1>2. RowsAreKept /\ [Next]_vars => RowsAreKept'
  BY ScriptSteps, RowsStay
<1>3. RowsAreKept => RowsFromPristine
  BY DEF RowsAreKept
<1>4. QED
  BY <1>1, <1>2, <1>3, PTL DEF Spec

-----------------------------------------------------------------------------
(* FormatSweep: rounding, clamping and powers of two *)

LEMMA PowersGrow ==
  ASSUME NEW n \in Nat
  PROVE  2 ^ n \in Nat \ {0} /\ 2 ^ n > n /\ 2 ^ (n + 1) = 2 * 2 ^ n /\ 2 ^ 0 = 1
<1>1. 2 ^ 0 = 1
  <2>1. Cardinality(SUBSET {}) = 2 ^ Cardinality({}) /\ Cardinality({}) = 0
    BY FS_EmptySet, FS_SUBSET
  <2>2. SUBSET {} = {{}}
    OBVIOUS
  <2>3. Cardinality({{}}) = 1
    BY FS_Singleton
  <2>4. QED
    BY <2>1, <2>2, <2>3
<1> DEFINE T == {k \in Nat : 2 ^ k > k}
<1>2. \A k \in Nat : 2 ^ k \in Nat /\ 2 ^ (k + 1) = 2 * 2 ^ k
  BY Doubling
<1>3. 0 \in T
  BY <1>1
<1>4. ASSUME NEW k \in Nat, k \in T PROVE k + 1 \in T
  <2>1. 2 ^ k \in Nat /\ 2 ^ k > k /\ 2 ^ (k + 1) = 2 * 2 ^ k
    BY <1>2, <1>4
  <2>2. 2 ^ (k + 1) > k + 1
    <3> DEFINE p == 2 ^ k
    <3>1. p \in Nat /\ p > k
      BY <2>1
    <3> HIDE DEF p
    <3>2. 2 * p > k + 1
      BY <3>1
    <3>3. QED
      BY <2>1, <3>2 DEF p
  <2>3. QED
    BY <2>2
<1> HIDE DEF T
<1>5. n \in T
  BY <1>3, <1>4, SetInduction
<1>6. QED
  <2>1. 2 ^ n > n /\ 2 ^ n \in Nat
    BY <1>2, <1>5 DEF T
  <2>2. QED
    BY <1>1, <1>2, <2>1

(* Doubling u until its square is at least half of t's, it does not go past  *)
(* twice of it.                                                              *)
LEMMA PowerBetween ==
  ASSUME NEW u \in Nat \ {0}, NEW t \in Nat, u <= t
  PROVE  \E n \in 0 .. t : LET b == 2 ^ n * u
                           IN  t * t <= 2 * b * b /\ b * b <= 2 * t * t
<1> DEFINE B(n) == 2 ^ n * u
           Enough == {n \in Nat : t * t <= 2 * B(n) * B(n)}
<1>1. \A n \in Nat : B(n) \in Nat /\ B(n + 1) = 2 * B(n)
  <2> TAKE n \in Nat
  <2>1. PICK p \in Nat : p = 2 ^ n /\ 2 ^ (n + 1) = 2 * p
    BY PowersGrow
  <2>2. p * u \in Nat /\ (2 * p) * u = 2 * (p * u)
    BY <2>1
  <2>3. QED
    BY <2>1, <2>2
<1>2. B(0) = u
  <2>1. 2 ^ 0 = 1
    BY PowersGrow
  <2>2. QED
    BY <2>1
<1>3. t \in Enough
  <2>1. PICK p \in Nat : p = 2 ^ t /\ p > t
    BY PowersGrow
  <2>2. p * u >= p
    BY <2>1
  <2>3. B(t) \in Nat /\ B(t) > t
    BY <2>1, <2>2
  <2> DEFINE b == B(t)
  <2>4. b \in Nat /\ b > t
    BY <2>3
  <2> HIDE DEF B, b
  <2>5. b * b >= t * b /\ t * b >= t * t /\ b * b \in Nat
    BY <2>4
  <2>6. t * t <= 2 * b * b
    BY <2>4, <2>5
  <2>7. QED
    BY <2>6 DEF b
<1> HIDE DEF B
<1>4. PICK n \in Enough : \A k \in Enough : n <= k
  <2>1. Enough \in SUBSET Nat /\ Enough # {}
    BY <1>3
  <2> HIDE DEF Enough
  <2>2. QED
    BY <2>1, LeastElement
<1>5. n \in 0 .. t /\ t * t <= 2 * B(n) * B(n)
  BY <1>3, <1>4
<1>6. B(n) * B(n) <= 2 * t * t
  <2>1. CASE n = 0
    <3>1. u * u <= t * u /\ t * u <= t * t /\ t * t <= 2 * t * t
      OBVIOUS
    <3>2. QED
      BY <1>2, <2>1, <3>1
  <2>2. CASE n # 0
    <3>1. n - 1 \in Nat /\ n - 1 \notin Enough /\ (n - 1) + 1 = n
      BY <1>4, <1>5, <2>2
    <3>2. PICK d \in Nat : d = B(n - 1) /\ B(n) = 2 * d
      BY <1>1, <3>1
    <3>3. ~ (t * t <= 2 * d * d)
      BY <3>1, <3>2
    <3>4. (2 * d) * (2 * d) = 2 * (2 * d * d) /\ 2 * d * d \in Nat /\ t * t \in Nat
      BY <3>2
    <3>5. QED
      BY <3>2, <3>3, <3>4
  <2>3. QED
    BY <2>1, <2>2
<1>7. QED
  BY <1>5, <1>6 DEF B

LEMMA NearestPower ==
  ASSUME NEW n \in Nat \ {0}, NEW d \in Nat \ {0}
  PROVE  LET p == round_to_pow2(<<n, d>>)
         IN  /\ p = <<p[1], p[2]>> /\ p[1] \in Nat \ {0} /\ p[2] \in Nat \ {0}
             /\ Near(p, <<n, d>>) /\ (n <= d => p[1] = 1)
<1> DEFINE s == <<n, d>>
<1>1. Less(<<1, 1>>, s) <=> d < n
  BY DEF Less
<1>2. CASE d < n
  <2>1. \E k \in 0 .. n : Near(<<2 ^ k, 1>>, s)
    <3>1. PICK k \in 0 .. n : LET b == 2 ^ k * d IN n * n <= 2 * b * b /\ b * b <= 2 * n * n
      <4>1. d <= n
        BY <1>2
      <4>2. QED
        BY <4>1, PowerBetween
    <3>2. n * 1 = n
      OBVIOUS
    <3>3. QED
      BY <3>1, <3>2 DEF Near
  <2> DEFINE k == CHOOSE j \in 0 .. n : Near(<<2 ^ j, 1>>, s)
  <2>2. k \in 0 .. n /\ Near(<<2 ^ k, 1>>, s)
    BY <2>1
  <2>3. round_to_pow2(s) = <<2 ^ k, 1>>
    BY <1>1, <1>2 DEF round_to_pow2
  <2> HIDE DEF k
  <2>4. 2 ^ k \in Nat \ {0}
    BY <2>2, PowersGrow
  <2>5. QED
    BY <1>2, <2>2, <2>3, <2>4
<1>3. CASE ~ (d < n)
  <2>1. \E k \in 0 .. d : Near(<<1, 2 ^ k>>, s)
    <3>1. PICK k \in 0 .. d : LET b == 2 ^ k * n IN d * d <= 2 * b * b /\ b * b <= 2 * d * d
      <4>1. n <= d
        BY <1>3
      <4>2. QED
        BY <4>1, PowerBetween
    <3>2. 1 * d = d /\ n * 2 ^ k = 2 ^ k * n
      <4>1. PICK p \in Nat : p = 2 ^ k
        BY PowersGrow
      <4>2. QED
        BY <4>1
    <3>3. QED
      BY <3>1, <3>2 DEF Near
  <2> DEFINE k == CHOOSE j \in 0 .. d : Near(<<1, 2 ^ j>>, s)
  <2>2. k \in 0 .. d /\ Near(<<1, 2 ^ k>>, s)
    BY <2>1
  <2>3. round_to_pow2(s) = <<1, 2 ^ k>>
    BY <1>1, <1>3 DEF round_to_pow2
  <2> HIDE DEF k
  <2>4. 2 ^ k \in Nat \ {0}
    BY <2>2, PowersGrow
  <2>5. QED
    BY <2>2, <2>3, <2>4
<1>4. QED
  BY <1>2, <1>3

LEMMA Rounding ==
  ASSUME NEW x \in Int, NEW d \in Nat \ {0}
  PROVE  LET r == RoundHalfEven(<<x, d>>)
         IN  r \in Int /\ 2 * (x - r * d) <= d /\ 2 * (r * d - x) <= d
<1> DEFINE below == x \div d
           rest == x % d
<1>1. below \in Int /\ rest \in Int /\ x = d * below + rest /\ 0 <= rest /\ rest < d
  OBVIOUS
<1>2. RoundHalfEven(<<x, d>>) = IF 2 * rest < d \/ (2 * rest = d /\ below % 2 = 0) THEN below ELSE below + 1
  BY DEF RoundHalfEven
<1> HIDE DEF below, rest
<1>3. PICK m \in Int : m = d * below /\ below * d = m /\ (below + 1) * d = m + d
  BY <1>1
<1>4. QED
  BY <1>1, <1>2, <1>3

LEMMA Clamped ==
  ASSUME NEW r \in Int, NEW qmax \in Nat
  PROVE  clamp(r, qmax) = IF r > qmax THEN qmax ELSE IF r < -qmax THEN -qmax ELSE r
<1>1. Min({r, qmax}) = IF r < qmax THEN r ELSE qmax
  BY MaxOfTwo
<1>2. Min({r, qmax}) \in Int /\ -qmax \in Int
  BY <1>1
<1>3. Max({-qmax, Min({r, qmax})}) = IF -qmax < Min({r, qmax}) THEN Min({r, qmax}) ELSE -qmax
  BY <1>2, MaxOfTwo
<1>4. QED
  BY <1>1, <1>3 DEF clamp

(* A weight x of a block with that peak, on a scale <<m, d>>.                *)
Off(x, m, d, q) == IF x * d - q * m < 0 THEN -(x * d - q * m) ELSE x * d - q * m

(* The scale is what takes the peak to qmax.                                 *)
LEMMA HalfStep ==
  ASSUME NEW peak \in Nat \ {0}, NEW x \in Int, -peak <= x, x <= peak, NEW qmax \in Nat \ {0}
  PROVE  LET q == clamp(RoundHalfEven(<<x * qmax, 1 * peak>>), qmax)
         IN  q \in Int /\ 2 * Off(x, peak, qmax, q) * qmax <= peak * qmax
<1> DEFINE r == RoundHalfEven(<<x * qmax, 1 * peak>>)
           y == x * qmax
<1>1. y \in Int /\ 1 * peak = peak /\ peak \in Nat \ {0}
  OBVIOUS
<1>2. r \in Int /\ 2 * (y - r * peak) <= peak /\ 2 * (r * peak - y) <= peak
  BY <1>1, Rounding
<1>3. y <= peak * qmax /\ -(peak * qmax) <= y /\ peak * qmax \in Nat
  OBVIOUS
<1> HIDE DEF r, y
<1>4. r <= qmax
  <2> SUFFICES ASSUME r >= qmax + 1 PROVE FALSE
    BY <1>2
  <2>1. r * peak >= (qmax + 1) * peak /\ (qmax + 1) * peak = peak * qmax + peak /\ r * peak \in Int
    BY <1>2
  <2>2. QED
    BY <1>1, <1>2, <1>3, <2>1
<1>5. r >= -qmax
  <2> SUFFICES ASSUME -r >= qmax + 1 PROVE FALSE
    BY <1>2
  <2>1. (-r) * peak >= (qmax + 1) * peak /\ (qmax + 1) * peak = peak * qmax + peak /\ r * peak \in Int
        /\ (-r) * peak = -(r * peak)
    BY <1>2
  <2>2. QED
    BY <1>1, <1>2, <1>3, <2>1
<1>6. clamp(r, qmax) = r
  BY <1>2, <1>4, <1>5, Clamped
<1>7. 2 * Off(x, peak, qmax, r) <= peak /\ Off(x, peak, qmax, r) \in Nat
  BY <1>2 DEF Off, y
<1> DEFINE o == Off(x, peak, qmax, r)
<1>8. 2 * o * qmax <= peak * qmax
  <2>1. o \in Nat /\ 2 * o <= peak
    BY <1>7
  <2> HIDE DEF o
  <2>2. QED
    BY <2>1
<1>9. QED
  BY <1>2, <1>6, <1>8 DEF r

(* A scale that divides one keeps an integer that is not cut off.            *)
LEMMA WholeSteps ==
  ASSUME NEW x \in Int, NEW d \in Nat \ {0}
  PROVE  RoundHalfEven(<<x * d, 1 * 1>>) = x * d
<1> DEFINE y == x * d
           r == RoundHalfEven(<<y, 1>>)
<1>1. y \in Int
  OBVIOUS
<1>2. r \in Int /\ 2 * (y - r * 1) <= 1 /\ 2 * (r * 1 - y) <= 1
  BY <1>1, Rounding
<1> HIDE DEF y, r
<1>3. r = y
  BY <1>1, <1>2
<1>4. QED
  BY <1>3 DEF r, y

(* The scale of a block in which nothing exceeds the smallest scale's range. *)
LEMMA ExactStep ==
  ASSUME NEW peak \in Nat, NEW x \in Int, -peak <= x, x <= peak, NEW qmax \in Nat,
         NEW d \in Nat \ {0}, peak * d <= qmax
  PROVE  LET q == clamp(RoundHalfEven(<<x * d, 1 * 1>>), qmax)
         IN  q \in Int /\ Off(x, 1, d, q) = 0
<1>1. x * d \in Int /\ -(peak * d) <= x * d /\ x * d <= peak * d /\ peak * d \in Nat
  OBVIOUS
<1>2. clamp(x * d, qmax) = x * d
  <2> DEFINE y == x * d
             z == peak * d
  <2>1. y \in Int /\ ~ (y > qmax) /\ ~ (y < -qmax)
    <3>1. y \in Int /\ -z <= y /\ y <= z /\ z \in Nat /\ z <= qmax
      BY <1>1
    <3> HIDE DEF y, z
    <3>2. QED
      BY <3>1
  <2> HIDE DEF y, z
  <2>2. QED
    BY <2>1, Clamped DEF y
<1>3. Off(x, 1, d, x * d) = 0
  BY <1>1 DEF Off
<1>4. QED
  BY <1>1, <1>2, <1>3, WholeSteps

(* A scale at most sqrt(2) times too small for the peak, and either whole    *)
(* steps or at most sqrt(2) times too large.                                 *)
LEMMA PowerStep ==
  ASSUME NEW peak \in Nat, NEW x \in Int, -peak <= x, x <= peak, NEW qmax \in Nat, qmax >= 7,
         NEW m \in Nat \ {0}, NEW d \in Nat \ {0},
         (peak * d) * (peak * d) <= 2 * (m * qmax) * (m * qmax),
         m = 1 \/ (m * qmax) * (m * qmax) <= 2 * (peak * d) * (peak * d)
  PROVE  LET q == clamp(RoundHalfEven(<<x * d, 1 * m>>), qmax)
             kept == peak * d - Off(x, m, d, q)
         IN  q \in Int /\ kept \in Nat /\ 2 * kept * kept >= (peak * d) * (peak * d)
<1> DEFINE r == RoundHalfEven(<<x * d, 1 * m>>)
           y == x * d
           A == peak * d
           a == m * qmax
           q == clamp(r, qmax)
           e == Off(x, m, d, q)
<1>1. /\ y \in Int /\ A \in Nat /\ a \in Nat /\ -A <= y /\ y <= A
      /\ A * A <= 2 * a * a /\ (m = 1 \/ a * a <= 2 * A * A)
  OBVIOUS
<1>2. r \in Int /\ 2 * (y - r * m) <= m /\ 2 * (r * m - y) <= m /\ (m = 1 => r = y)
  <2>1. 1 * m = m /\ y \in Int
    OBVIOUS
  <2>2. LET t == RoundHalfEven(<<y, m>>) IN t \in Int /\ 2 * (y - t * m) <= m /\ 2 * (t * m - y) <= m
    <3> HIDE DEF y
    <3>1. QED
      BY <2>1, Rounding
  <2>3. r = RoundHalfEven(<<y, m>>)
    BY <2>1
  <2>4. m = 1 => r = y
    BY WholeSteps
  <2> HIDE DEF r, y
  <2>5. QED
    BY <2>2, <2>3, <2>4
<1>3. q = IF r > qmax THEN qmax ELSE IF r < -qmax THEN -qmax ELSE r
  <2> HIDE DEF r
  <2>1. QED
    BY <1>2, Clamped
<1>4. e = IF y - q * m < 0 THEN -(y - q * m) ELSE y - q * m
  BY DEF Off
<1> HIDE DEF r, y, A, q, e
<1> SUFFICES q \in Int /\ A - e \in Nat /\ 2 * (A - e) * (A - e) >= A * A
  BY DEF A, q, e, r
<1>5. CASE r > qmax
  <2>1. q = qmax /\ q * m = a
    BY <1>3, <1>5
  <2>2. PICK z \in Int : z = r * m /\ z >= a + m
    <3>1. r * m >= (qmax + 1) * m /\ (qmax + 1) * m = a + m
      BY <1>2, <1>5
    <3>2. QED
      BY <1>2, <3>1
  <2> HIDE DEF a
  <2>3. e = y - a /\ A - e >= a
    BY <1>1, <1>2, <1>4, <2>1, <2>2
  <2>4. (A - e) * (A - e) >= a * a /\ A - e \in Nat
    <3> DEFINE k == A - e
    <3>1. k \in Nat /\ k >= a
      BY <1>1, <2>3
    <3> HIDE DEF k
    <3>2. k * k >= a * k /\ a * k >= a * a
      BY <1>1, <3>1
    <3>3. k * k >= a * a
      BY <1>1, <3>1, <3>2
    <3>4. QED
      BY <3>1, <3>3 DEF k
  <2>5. 2 * (A - e) * (A - e) >= A * A
    BY <1>1, <2>4
  <2>6. QED
    BY <2>1, <2>4, <2>5
<1>6. CASE ~ (r > qmax) /\ r < -qmax
  <2>1. q = -qmax /\ q * m = -a
    BY <1>3, <1>6
  <2>2. PICK z \in Int : z = r * m /\ z <= -(a + m)
    <3>1. (-r) * m >= (qmax + 1) * m /\ (qmax + 1) * m = a + m /\ (-r) * m = -(r * m)
      BY <1>2, <1>6
    <3>2. QED
      BY <1>2, <3>1
  <2> HIDE DEF a
  <2>3. e = -y - a /\ A - e >= a
    BY <1>1, <1>2, <1>4, <2>1, <2>2
  <2>4. (A - e) * (A - e) >= a * a /\ A - e \in Nat
    <3> DEFINE k == A - e
    <3>1. k \in Nat /\ k >= a
      BY <1>1, <2>3
    <3> HIDE DEF k
    <3>2. k * k >= a * k /\ a * k >= a * a
      BY <1>1, <3>1
    <3>3. k * k >= a * a
      BY <1>1, <3>1, <3>2
    <3>4. QED
      BY <3>1, <3>3 DEF k
  <2>5. 2 * (A - e) * (A - e) >= A * A
    BY <1>1, <2>4
  <2>6. q \in Int
    BY <2>1
  <2>7. QED
    BY <2>4, <2>5, <2>6
<1>7. CASE ~ (r > qmax) /\ ~ (r < -qmax)
  <2>1. q = r
    BY <1>3, <1>7
  <2>2. CASE m = 1
    <3>1. e = 0
      BY <1>1, <1>2, <1>4, <2>1, <2>2
    <3>2. A * A \in Nat
      BY <1>1
    <3>3. QED
      BY <1>1, <1>2, <2>1, <3>1, <3>2
  <2>3. CASE a * a <= 2 * A * A
    <3>1. e \in Nat /\ 2 * e <= m
      <4>1. PICK z \in Int : z = r * m
        BY <1>2
      <4>2. QED
        BY <1>1, <1>2, <1>4, <2>1, <4>1
    <3>2. 14 * e <= a
      <4>1. m * 7 <= m * qmax
        OBVIOUS
      <4>2. QED
        BY <3>1, <4>1
    <3> HIDE DEF a
    <3>3. (14 * e) * (14 * e) <= 2 * A * A
      <4> DEFINE f == 14 * e
      <4>1. f \in Nat /\ f <= a
        BY <3>1, <3>2
      <4> HIDE DEF f
      <4>2. f * f <= a * f /\ a * f <= a * a
        BY <1>1, <4>1
      <4>3. f * f <= 2 * A * A
        BY <1>1, <2>3, <4>1, <4>2
      <4>4. QED
        BY <4>3 DEF f
    <3>4. 9 * e <= A
      <4> SUFFICES ASSUME 9 * e > A PROVE FALSE
        BY <1>1, <3>1
      <4> DEFINE f == 9 * e
      <4>1. f \in Nat /\ f > A
        BY <3>1
      <4> HIDE DEF f
      <4>2. f * f >= A * f /\ A * f >= A * A /\ f * f > A * A
        BY <1>1, <4>1
      <4>3. PICK g \in Nat : g = e * e /\ (14 * e) * (14 * e) = 196 * g /\ (9 * e) * (9 * e) = 81 * g
        BY <3>1
      <4>4. PICK h \in Nat : h = A * A /\ 2 * A * A = 2 * h
        BY <1>1
      <4>5. QED
        BY <3>3, <4>2, <4>3, <4>4 DEF f
    <3>5. A - e \in Nat /\ 9 * (A - e) >= 8 * A
      BY <1>1, <3>1, <3>4
    <3>6. 2 * (A - e) * (A - e) >= A * A
      <4> DEFINE k == A - e
                 f == 9 * k
                 g == 8 * A
      <4>1. k \in Nat /\ f \in Nat /\ g \in Nat /\ f >= g
        BY <1>1, <3>5
      <4>2. f * f = 81 * (k * k) /\ g * g = 64 * (A * A) /\ k * k \in Nat /\ A * A \in Nat
        BY <1>1, <4>1
      <4> HIDE DEF k, f, g
      <4>3. f * f >= g * f /\ g * f >= g * g /\ f * f >= g * g
        BY <4>1
      <4>4. 2 * (k * k) >= A * A
        BY <4>2, <4>3
      <4>5. 2 * k * k = 2 * (k * k)
        BY <4>1
      <4>6. QED
        BY <4>4, <4>5 DEF k
    <3>7. QED
      BY <1>2, <2>1, <3>5, <3>6
  <2>4. QED
    BY <1>1, <2>2, <2>3
<1>8. QED
  BY <1>5, <1>6, <1>7

-----------------------------------------------------------------------------
(* FormatSweep: the scale of a block *)

IntegerWeights(w) == \A c \in Cells : w[c] = <<w[c][1], 1>> /\ w[c][1] \in Int
PeakOf(w, S) == Max({Magnitude(w[d])[1] : d \in S})

LEMMA CellsFinite == IsFiniteSet(Cells)
<1>1. IsFiniteSet(0 .. MatrixRows - 1) /\ IsFiniteSet(0 .. RowLength - 1)
  <2>1. MatrixRows \in Nat /\ RowLength \in Nat
    BY SweepAssumption
  <2>2. QED
    BY <2>1, FS_Interval
<1>2. QED
  BY <1>1, FS_Product DEF Cells

LEMMA Peaks ==
  ASSUME NEW w, IntegerWeights(w), NEW S \in SUBSET Cells, S # {}
  PROVE  /\ PeakOf(w, S) \in Nat
         /\ \A d \in S : -PeakOf(w, S) <= w[d][1] /\ w[d][1] <= PeakOf(w, S)
         /\ amax(w, S) = <<PeakOf(w, S), 1>>
<1> DEFINE Mag(d) == IF w[d][1] < 0 THEN -w[d][1] ELSE w[d][1]
           M == {Mag(d) : d \in S}
           peak == PeakOf(w, S)
<1>1. \A d \in S : w[d] = <<w[d][1], 1>> /\ w[d][1] \in Int /\ Mag(d) \in Nat
                 /\ Magnitude(w[d]) = <<Mag(d), 1>>
  BY DEF IntegerWeights, Magnitude
<1>2. {Magnitude(w[d])[1] : d \in S} = M
  BY <1>1
<1>3. IsFiniteSet(M) /\ M # {} /\ M \in SUBSET Nat
  <2>1. IsFiniteSet(S)
    BY CellsFinite, FS_Subset
  <2>2. IsFiniteSet(M)
    <3> DEFINE f == [d \in S |-> Mag(d)]
    <3> HIDE DEF Mag
    <3>1. f \in Surjection(S, M)
      BY DEF Surjection
    <3> HIDE DEF f, M
    <3>2. QED
      BY <2>1, <3>1, FS_Surjection
  <2>3. QED
    BY <1>1, <2>2
<1> HIDE DEF Mag
<1>4. \E m \in M : \A z \in M : m >= z
  <2> HIDE DEF M
  <2>1. QED
    BY <1>3, GreatestElement
<1>5. peak \in M /\ \A z \in M : peak >= z
  <2>1. peak = Max(M)
    BY <1>2 DEF PeakOf
  <2> HIDE DEF M, peak
  <2>2. QED
    BY <1>4, <2>1 DEF Max
<1>6. peak \in Nat /\ \A d \in S : Mag(d) <= peak
  BY <1>1, <1>3, <1>5
<1>7. \A d \in S : -peak <= w[d][1] /\ w[d][1] <= peak
  BY <1>1, <1>6 DEF Mag
<1> HIDE DEF peak
<1>8. amax(w, S) = <<peak, 1>>
  <2> DEFINE C == {<<0, 1>>} \cup {Magnitude(w[d]) : d \in S}
             m == Largest(C)
  <2>1. \A z \in C : z = <<z[1], 1>> /\ z[1] \in Nat /\ z[1] <= peak
    BY <1>1, <1>6
  <2>2. <<peak, 1>> \in C
    <3>1. PICK d \in S : peak = Mag(d)
      BY <1>5
    <3>2. QED
      BY <1>1, <3>1
  <2>3. amax(w, S) = m
    BY DEF amax
  <2> HIDE DEF C
  <2>4. \A z \in C : ~ Less(<<peak, 1>>, z)
    BY <1>6, <2>1 DEF Less
  <2>5. m \in C /\ \A z \in C : ~ Less(m, z)
    BY <2>2, <2>4 DEF Largest
  <2> HIDE DEF m
  <2>6. m = <<m[1], 1>> /\ m[1] \in Nat /\ m[1] <= peak /\ ~ Less(m, <<peak, 1>>)
    BY <2>1, <2>2, <2>5
  <2>7. m[1] = peak
    BY <1>6, <2>6 DEF Less
  <2>8. QED
    BY <2>3, <2>6, <2>7
<1>9. QED
  BY <1>6, <1>7, <1>8 DEF peak

LEMMA WidestCodes == qmax_for_bits(4) = 7 /\ qmax_for_bits(8) = 127
<1>1. 2 ^ 0 = 1 /\ \A n \in Nat : 2 ^ (n + 1) = 2 * 2 ^ n
  BY PowersGrow
<1>2. 2 ^ (0 + 1) = 2 /\ 2 ^ (1 + 1) = 2 * 2 ^ 1 /\ 2 ^ (2 + 1) = 2 * 2 ^ 2 /\ 2 ^ (3 + 1) = 2 * 2 ^ 3
      /\ 2 ^ (4 + 1) = 2 * 2 ^ 4 /\ 2 ^ (5 + 1) = 2 * 2 ^ 5 /\ 2 ^ (6 + 1) = 2 * 2 ^ 6
  BY <1>1
<1>3. /\ 0 + 1 = 1 /\ 1 + 1 = 2 /\ 2 + 1 = 3 /\ 3 + 1 = 4 /\ 4 + 1 = 5 /\ 5 + 1 = 6 /\ 6 + 1 = 7
      /\ 4 - 1 = 3 /\ 8 - 1 = 7
  OBVIOUS
<1>4. 2 ^ (4 - 1) = 8 /\ 2 ^ (8 - 1) = 128
  <2>1. 2 ^ 1 = 2
    BY <1>2, <1>3
  <2>2. 2 ^ 2 = 4
    BY <1>2, <1>3, <2>1
  <2>3. 2 ^ 3 = 8
    BY <1>2, <1>3, <2>2
  <2>4. 2 ^ 4 = 16
    BY <1>2, <1>3, <2>3
  <2>5. 2 ^ 5 = 32
    BY <1>2, <1>3, <2>4
  <2>6. 2 ^ 6 = 64
    BY <1>2, <1>3, <2>5
  <2>7. 2 ^ 7 = 128
    BY <1>2, <1>3, <2>6
  <2>8. QED
    BY <1>3, <2>3, <2>7
<1>5. QED
  BY <1>4 DEF qmax_for_bits

(* The weights a format leaves of integer weights.                           *)
LEMMA CellBounded ==
  ASSUME NEW w, IntegerWeights(w), NEW config, config.bits \in {4, 8}, NEW c \in Cells
  PROVE  LET v == dequantize(quantize(w, config))
             qmax == qmax_for_bits(config.bits)
             peak == PeakOf(w, Block(config, c))
             kept == peak * v[c][2] - Error(w[c], v[c])
         IN  IF config.granularity = "mx_e8m0"
             THEN kept >= 0 /\ 2 * kept * kept >= peak * peak * v[c][2] * v[c][2]
             ELSE 2 * Error(w[c], v[c]) * qmax <= peak * v[c][2]
<1> DEFINE S == Block(config, c)
           peak == PeakOf(w, S)
           qmax == qmax_for_bits(config.bits)
           base == min_max(<<peak, 1>>, qmax)
           s == scale(w, config, c)
           x == w[c][1]
           q == clamp(RoundHalfEven(<<x * s[2], 1 * s[1]>>), qmax)
           v == dequantize(quantize(w, config))
<1>1. S \in SUBSET Cells /\ c \in S
  BY DEF Block
<1>2. qmax \in {7, 127}
  BY WidestCodes
<1>3. /\ peak \in Nat /\ x \in Int /\ w[c] = <<x, 1>> /\ -peak <= x /\ x <= peak
      /\ amax(w, S) = <<peak, 1>>
  <2> HIDE DEF S
  <2>1. S # {}
    BY <1>1
  <2>2. QED
    BY <1>1, <2>1, Peaks DEF IntegerWeights
<1>4. s = IF config.granularity = "mx_e8m0" THEN round_to_pow2(base) ELSE base
  <2>1. amax(w, Block(config, c)) = <<peak, 1>>
    BY <1>3
  <2> HIDE DEF peak, S
  <2>2. QED
    BY <2>1 DEF scale
<1>5. base = IF peak * Tiny < qmax THEN <<1, Tiny>> ELSE <<peak, qmax>>
  <2> HIDE DEF peak, qmax
  <2>1. 1 * qmax = qmax /\ 1 * (1 * qmax) = qmax
    BY <1>2
  <2>2. QED
    BY <2>1 DEF min_max, Less
<1>6. v[c] = <<q * s[1], s[2]>>
  <2> HIDE DEF s, qmax
  <2>1. quantize(w, config)[c].scale = s /\ quantize(w, config)[c].q = q
    BY <1>3 DEF quantize, s, qmax
  <2>2. QED
    BY <2>1 DEF dequantize
<1> HIDE DEF S, peak, qmax, base, s, x, q, v
<1>7. q * s[1] \in Int => Error(w[c], v[c]) = Off(x, s[1], s[2], q)
  BY <1>3, <1>6 DEF Error, Magnitude, Off
<1> DEFINE E == Off(x, s[1], s[2], q)
<1> SUFFICES /\ q * s[1] \in Int
             /\ IF config.granularity = "mx_e8m0"
                THEN peak * s[2] - E >= 0 /\ 2 * (peak * s[2] - E) * (peak * s[2] - E) >= peak * peak * s[2] * s[2]
                ELSE 2 * E * qmax <= peak * s[2]
  BY <1>6, <1>7 DEF peak, qmax, S, v
<1>8. Tiny \in Nat \ {0}
  BY SweepAssumption
<1>9. peak * Tiny < qmax \/ peak \in Nat \ {0}
  <2>1. 0 * Tiny = 0
    BY <1>8
  <2>2. QED
    BY <1>2, <1>3, <2>1
<1>10. CASE config.granularity # "mx_e8m0"
  <2>1. CASE peak * Tiny < qmax
    <3>1. s = <<1, Tiny>>
      BY <1>4, <1>5, <1>10, <2>1
    <3>2. peak * Tiny <= qmax /\ qmax \in Nat /\ peak * Tiny \in Nat
      BY <1>2, <1>3, <1>8, <2>1
    <3>3. LET k == clamp(RoundHalfEven(<<x * Tiny, 1 * 1>>), qmax) IN k \in Int /\ Off(x, 1, Tiny, k) = 0
      BY <1>3, <1>8, <3>2, ExactStep
    <3>4. q \in Int /\ E = 0
      BY <3>1, <3>3 DEF q
    <3>5. 2 * 0 * qmax = 0
      BY <1>2
    <3>6. QED
      BY <1>10, <3>1, <3>2, <3>4, <3>5
  <2>2. CASE ~ (peak * Tiny < qmax)
    <3>1. s = <<peak, qmax>> /\ peak \in Nat \ {0} /\ qmax \in Nat \ {0}
      BY <1>2, <1>4, <1>5, <1>9, <1>10, <2>2
    <3>2. LET k == clamp(RoundHalfEven(<<x * qmax, 1 * peak>>), qmax)
          IN  k \in Int /\ 2 * Off(x, peak, qmax, k) * qmax <= peak * qmax
      BY <1>3, <3>1, HalfStep
    <3>3. q \in Int /\ 2 * E * qmax <= peak * qmax
      BY <3>1, <3>2 DEF q
    <3>4. QED
      BY <1>10, <3>1, <3>3
  <2>3. QED
    BY <2>1, <2>2
<1>11. CASE config.granularity = "mx_e8m0"
  <2>1. PICK n \in Nat \ {0}, d \in Nat \ {0} :
          /\ base = <<n, d>>
          /\ (n = 1 /\ d = Tiny /\ peak * Tiny < qmax) \/ (n = peak /\ d = qmax)
    <3>1. CASE peak * Tiny < qmax
      <4>1. base = <<1, Tiny>> /\ 1 \in Nat \ {0} /\ Tiny \in Nat \ {0}
        BY <1>5, <1>8, <3>1
      <4>2. QED
        BY <3>1, <4>1
    <3>2. CASE ~ (peak * Tiny < qmax)
      <4>1. base = <<peak, qmax>> /\ peak \in Nat \ {0} /\ qmax \in Nat \ {0}
        BY <1>2, <1>5, <1>9, <3>2
      <4>2. QED
        BY <4>1
    <3>3. QED
      BY <3>1, <3>2
  <2>2. /\ s = <<s[1], s[2]>> /\ s[1] \in Nat \ {0} /\ s[2] \in Nat \ {0}
        /\ Near(s, <<n, d>>) /\ (n <= d => s[1] = 1)
    <3>1. s = round_to_pow2(<<n, d>>)
      BY <1>4, <1>11, <2>1
    <3>2. QED
      BY <3>1, NearestPower
  <2> DEFINE m == s[1]
             b == s[2]
             A == peak * b
             a == m * qmax
  <2>3. (m * d) * (m * d) <= 2 * (n * b) * (n * b) /\ (n * b) * (n * b) <= 2 * (m * d) * (m * d)
    BY <2>2 DEF Near
  <2>4. m \in Nat \ {0} /\ b \in Nat \ {0} /\ qmax \in Nat /\ qmax >= 7
    BY <1>2, <2>2
  <2>5. A * A <= 2 * a * a /\ (m = 1 \/ a * a <= 2 * A * A)
    <3>1. CASE n = peak /\ d = qmax
      BY <2>3, <3>1
    <3>2. CASE n = 1 /\ d = Tiny /\ peak * Tiny < qmax
      <4>1. m = 1
        BY <1>8, <2>2, <3>2
      <4>2. b * b <= 2 * Tiny * Tiny
        <5>1. 1 * b = b /\ 1 * Tiny = Tiny
          BY <1>8, <2>4
        <5>2. QED
          BY <2>3, <3>2, <4>1, <5>1
      <4> DEFINE t == peak * Tiny
      <4>3. A * A <= 2 * t * t
        <5>1. peak * peak \in Nat
          BY <1>3
        <5> DEFINE pp == peak * peak
                   bb == b * b
                   tt == 2 * Tiny * Tiny
        <5>2. A * A = pp * bb /\ 2 * t * t = pp * tt
          <6> HIDE DEF m, b
          <6>1. (peak * b) * (peak * b) = (peak * peak) * (b * b)
            BY <1>3, <2>4
          <6>2. 2 * (peak * Tiny) * (peak * Tiny) = (peak * peak) * (2 * Tiny * Tiny)
            BY <1>3, <1>8
          <6>3. QED
            BY <6>1, <6>2
        <5>3. pp \in Nat /\ bb \in Nat /\ tt \in Nat /\ bb <= tt
          BY <1>3, <1>8, <2>4, <4>2
        <5> HIDE DEF pp, bb, tt, t, A, b
        <5>4. pp * bb <= pp * tt
          BY <5>3
        <5>5. QED
          BY <5>2, <5>4
      <4>4. t \in Nat /\ t <= qmax
        BY <1>2, <1>3, <1>8, <3>2
      <4>5. a = qmax
        BY <2>4, <4>1
      <4> HIDE DEF t, A, a, b, m
      <4>6. t * t <= qmax * t /\ qmax * t <= qmax * qmax /\ t * t \in Nat /\ qmax * qmax \in Nat
        BY <2>4, <4>4
      <4>7. 2 * t * t = 2 * (t * t) /\ 2 * qmax * qmax = 2 * (qmax * qmax)
        BY <2>4, <4>4
      <4>8. A * A <= 2 * qmax * qmax
        <5> DEFINE AA == A * A
                   tt == t * t
                   qq == qmax * qmax
        <5>1. AA \in Int /\ tt \in Nat /\ qq \in Nat
          BY <1>3, <2>4, <4>6 DEF A
        <5>2. AA <= 2 * tt /\ tt <= qq /\ 2 * qmax * qmax = 2 * qq
          <6>1. AA <= 2 * tt /\ 2 * qmax * qmax = 2 * qq
            BY <4>3, <4>7
          <6>2. tt <= qmax * t /\ qmax * t <= qq /\ qmax * t \in Nat
            BY <2>4, <4>4, <4>6
          <6> HIDE DEF AA, tt, qq
          <6>3. QED
            BY <5>1, <6>1, <6>2
        <5> HIDE DEF AA, tt, qq
        <5>3. AA <= 2 * qmax * qmax
          BY <5>1, <5>2
        <5>4. QED
          BY <5>3 DEF AA
      <4>9. QED
        BY <4>1, <4>5, <4>8
    <3>3. QED
      BY <2>1, <3>1, <3>2
  <2>6. LET k == clamp(RoundHalfEven(<<x * b, 1 * m>>), qmax)
            kept == peak * b - Off(x, m, b, k)
        IN  k \in Int /\ kept \in Nat /\ 2 * kept * kept >= (peak * b) * (peak * b)
    <3> HIDE DEF m, b
    <3>1. QED
      BY <1>3, <2>4, <2>5, PowerStep
  <2>7. q \in Int /\ peak * b - E \in Nat /\ 2 * (peak * b - E) * (peak * b - E) >= (peak * b) * (peak * b)
    BY <2>6 DEF q
  <2>8. (peak * b) * (peak * b) = peak * peak * b * b
    BY <1>3, <2>4
  <2>9. QED
    BY <1>11, <2>4, <2>7, <2>8
<1>12. QED
  BY <1>10, <1>11

-----------------------------------------------------------------------------
(* FormatSweep: every row *)

SweepInv ==
  /\ RowsAreKept
  /\ Len(sweep_rows) <= Len(Configs) + 1
  /\ sweep_rows # <<>> => IntegerWeights(pristine_state["mlp.up_proj"])

LEMMA SweepStays ==
  ASSUME SweepInv, [SweepNext]_sweepVars
  PROVE  SweepInv'
<1>1. PICK S : sweep_rows \in Seq(S)
  BY DEF SweepInv, RowsAreKept
<1>2. Len(Configs) = 10 /\ Len(sweep_rows) \in Nat
  BY <1>1 DEF Configs
<1>3. RowsAreKept'
  BY RowsStay DEF SweepInv
<1>4. CASE UNCHANGED sweepVars
  BY <1>3, <1>4 DEF SweepInv, sweepVars, IntegerWeights, Cells
<1>5. CASE Baseline
  <2>1. PICK w \in [Cells -> {<<Signed(n), 1>> : n \in WeightValues}] :
          pristine_state' = [name \in Modules |-> w] /\ sweep_rows' = <<module_weights'>>
    BY <1>5 DEF Baseline
  <2>2. pristine_state'["mlp.up_proj"] = w /\ Len(sweep_rows') = 1
    BY <2>1 DEF Modules
  <2>3. \A n \in WeightValues : Signed(n) \in Int
    <3>1. \A n \in Nat : n \div 2 \in Int /\ (n + 1) \div 2 \in Int
      OBVIOUS
    <3>2. QED
      BY <3>1, SweepAssumption DEF Signed
  <2>4. IntegerWeights(w)
    BY <2>3 DEF IntegerWeights
  <2>5. QED
    BY <1>2, <1>3, <2>2, <2>4 DEF SweepInv, Configs
<1>6. CASE SweepStep
  <2>1. /\ Len(sweep_rows) <= 10 /\ sweep_rows # <<>> /\ pristine_state' = pristine_state
        /\ sweep_rows' = Append(sweep_rows, module_weights')
    <3>1. /\ Len(sweep_rows) \in 1 .. Len(Configs) /\ UNCHANGED pristine_state
          /\ sweep_rows' = Append(sweep_rows, module_weights')
      BY <1>6 DEF SweepStep
    <3>2. Len(sweep_rows) \in 1 .. 10
      BY <1>2, <3>1
    <3>3. Len(<<>>) = 0
      OBVIOUS
    <3>4. QED
      BY <3>1, <3>2, <3>3
  <2>2. sweep_rows' \in Seq(S \cup {module_weights'}) /\ Len(sweep_rows') = Len(sweep_rows) + 1
    BY <1>1, <2>1
  <2>3. QED
    BY <1>2, <1>3, <2>1, <2>2 DEF SweepInv, Configs
<1>7. CASE Restore
  BY <1>3, <1>7 DEF SweepInv, Restore
<1>8. QED
  BY <1>4, <1>5, <1>6, <1>7 DEF SweepNext

(* No format moves a weight by more than half a step of the largest weight   *)
(* that shares its scale, and a scale rounded to a power of two keeps every  *)
(* weight within the share of that largest one that rounding can cost        *)
(* (formats.py:68-110).                                                      *)
THEOREM EveryFormatBounded == Spec => []ReconstructionBounded
<1>1. Init => SweepInv
  <2>1. SweepInit => sweep_rows = <<>>
    BY DEF SweepInit
  <2>2. SweepInit => SweepInv
    <3>1. Len(Configs) = 10
      BY DEF Configs
    <3>2. QED
      BY <2>1, <3>1, RowsStart DEF SweepInv
  <2>3. QED
    BY <2>2 DEF Init
<1>2. SweepInv /\ [Next]_vars => SweepInv'
  BY ScriptSteps, SweepStays
<1>3. ASSUME SweepInv PROVE ReconstructionBounded
  <2>1. PICK S : sweep_rows \in Seq(S)
    BY <1>3 DEF SweepInv, RowsAreKept
  <2> SUFFICES ASSUME Len(sweep_rows) > 1 PROVE ReconstructionBounded
    BY DEF ReconstructionBounded
  <2> DEFINE config == Configs[Len(sweep_rows) - 1]
             w == pristine_state["mlp.up_proj"]
             v == Last(sweep_rows)["mlp.up_proj"]
  <2>2. v = dequantize(quantize(w, config)) /\ IntegerWeights(w)
    BY <1>3, <2>1 DEF SweepInv, RowsAreKept, RowsFromPristine
  <2>3. config.bits \in {4, 8}
    <3>1. Len(Configs) = 10
      BY DEF Configs
    <3>2. Len(sweep_rows) - 1 \in 1 .. 10
      <4>1. Len(sweep_rows) \in Nat
        BY <2>1
      <4>2. Len(sweep_rows) <= 10 + 1
        BY <1>3, <3>1 DEF SweepInv
      <4>3. \A l \in Nat : l > 1 /\ l <= 10 + 1 => l - 1 \in 1 .. 10
        OBVIOUS
      <4>4. QED
        BY <4>1, <4>2, <4>3
    <3>3. \A n \in 1 .. 10 : Configs[n].bits = IF n <= 5 THEN 8 ELSE 4
      BY Zenon DEF Configs
    <3> DEFINE n == Len(sweep_rows) - 1
    <3>4. n \in 1 .. 10 /\ config = Configs[n]
      BY <3>2
    <3> HIDE DEF n, config
    <3>5. QED
      BY <3>3, <3>4
  <2> HIDE DEF config, w, v
  <2>4. ASSUME NEW c \in Cells
        PROVE  LET peak == PeakOf(w, Block(config, c))
                   kept == peak * v[c][2] - Error(w[c], v[c])
               IN  IF config.granularity = "mx_e8m0"
                   THEN kept >= 0 /\ 2 * kept * kept >= peak * peak * v[c][2] * v[c][2]
                   ELSE 2 * Error(w[c], v[c]) * qmax_for_bits(config.bits) <= peak * v[c][2]
    BY <2>2, <2>3, CellBounded
  <2>5. QED
    BY <2>4 DEF ReconstructionBounded, PeakOf, config, w, v
<1>4. QED
  BY <1>1, <1>2, <1>3, PTL DEF Spec

-----------------------------------------------------------------------------
(* Ablation: sums over the layers *)

LEMMA LayersFinite ==
  /\ IsFiniteSet(Layers) /\ NumLayers \in Nat \ {0}
  /\ \A f : OverLayers(f) = SumOver(f, Layers)
<1>1. NumLayers \in Nat \ {0}
  BY AblationAssumption
<1>2. IsFiniteSet(Layers)
  BY <1>1, FS_Interval DEF Layers
<1>3. ASSUME NEW f PROVE OverLayers(f) = SumOver(f, Layers)
  BY DEF OverLayers, MapThenSumSet, MapThenFoldSet, SumOver, IsSum, SumStep, Pick
<1>4. QED
  BY <1>1, <1>2, <1>3

LEMMA SumPlus ==
  ASSUME NEW S, IsFiniteSet(S), NEW f, NEW g, NEW h,
         \A x \in S : f[x] \in Int /\ g[x] \in Int /\ h[x] = f[x] + g[x]
  PROVE  SumOver(h, S) = SumOver(f, S) + SumOver(g, S)
<1> DEFINE T == {s \in SUBSET S : SumOver(h, s) = SumOver(f, s) + SumOver(g, s)}
<1>1. \A s \in SUBSET S : IsFiniteSet(s)
  BY FS_Subset
<1>2. \A x \in S : f[x] \in Int /\ g[x] \in Int /\ h[x] \in Int
  OBVIOUS
<1>3. {} \in T
  <2>1. SumOver(f, {}) = 0 /\ SumOver(g, {}) = 0 /\ SumOver(h, {}) = 0
    BY <1>1, SumAdd
  <2>2. QED
    BY <2>1
<1>4. ASSUME NEW s \in SUBSET S, NEW x \in s, s \ {x} \in T PROVE s \in T
  <2> DEFINE r == s \ {x}
  <2>1. SumOver(h, r) = SumOver(f, r) + SumOver(g, r)
    BY <1>4
  <2>2. /\ SumOver(f, s) = SumOver(f, r) + f[x] /\ SumOver(f, r) \in Int
        /\ SumOver(g, s) = SumOver(g, r) + g[x] /\ SumOver(g, r) \in Int
        /\ SumOver(h, s) = SumOver(h, r) + h[x]
    <3>1. IsFiniteSet(s) /\ IsFiniteSet(r)
      BY <1>1
    <3>2. QED
      BY <1>2, <3>1, SumAdd
  <2>3. h[x] = f[x] + g[x] /\ f[x] \in Int /\ g[x] \in Int
    OBVIOUS
  <2> HIDE DEF r
  <2>4. SumOver(h, s) = SumOver(f, s) + SumOver(g, s)
    BY <2>1, <2>2, <2>3
  <2>5. QED
    BY <2>4
<1> HIDE DEF T
<1>5. S \in T
  BY <1>3, <1>4, SubsetInduction
<1>6. QED
  BY <1>5 DEF T

LEMMA SumOfEquals ==
  ASSUME NEW S, IsFiniteSet(S), NEW f, NEW v \in Nat, \A x \in S : f[x] = v
  PROVE  SumOver(f, S) = Cardinality(S) * v
<1> DEFINE T == {s \in SUBSET S : SumOver(f, s) = Cardinality(s) * v}
<1>1. \A s \in SUBSET S : IsFiniteSet(s)
  BY FS_Subset
<1>2. \A x \in S : f[x] \in Int
  OBVIOUS
<1>3. {} \in T
  <2>1. SumOver(f, {}) = 0 /\ Cardinality({}) = 0
    BY <1>1, SumAdd, FS_EmptySet
  <2>2. QED
    BY <2>1
<1>4. ASSUME NEW s \in SUBSET S, NEW x \in s, s \ {x} \in T PROVE s \in T
  <2> DEFINE n == Cardinality(s \ {x})
  <2>1. Cardinality(s) = n + 1 /\ n \in Nat
    BY <1>1, FS_RemoveElement, FS_CardinalityType
  <2>2. SumOver(f, s) = SumOver(f, s \ {x}) + v
    BY <1>1, <1>2, SumAdd
  <2>3. SumOver(f, s \ {x}) = n * v
    BY <1>4
  <2>4. n * v + v = (n + 1) * v
    BY <2>1
  <2>5. QED
    BY <2>1, <2>2, <2>3, <2>4
<1> HIDE DEF T
<1>5. S \in T
  BY <1>3, <1>4, SubsetInduction
<1>6. QED
  BY <1>5 DEF T

(* What the layers move for as many rows in each.                            *)
LEMMA SumAlike ==
  ASSUME NEW f, NEW v \in Nat, \A l \in Layers : f[l] = v
  PROVE  SumOver(f, Layers) = NumLayers * v
<1>1. Cardinality(Layers) = NumLayers
  <2>1. NumLayers \in Nat \ {0}
    BY LayersFinite
  <2>2. Cardinality(0 .. NumLayers - 1) = (NumLayers - 1) - 0 + 1
    BY <2>1, FS_Interval
  <2>3. QED
    BY <2>1, <2>2 DEF Layers
<1>2. QED
  BY <1>1, LayersFinite, SumOfEquals

LEMMA SumAtMost ==
  ASSUME NEW f, NEW v \in Nat, \A l \in Layers : f[l] \in Nat /\ f[l] <= v
  PROVE  SumOver(f, Layers) \in Nat /\ SumOver(f, Layers) <= NumLayers * v
<1> DEFINE g == [l \in Layers |-> v]
<1>1. SumOver(g, Layers) = NumLayers * v
  BY SumAlike
<1>2. \A l \in Layers : f[l] \in Int /\ g[l] \in Int /\ f[l] <= g[l]
  OBVIOUS
<1> HIDE DEF g
<1>3. SumOver(f, Layers) <= SumOver(g, Layers)
  BY <1>2, LayersFinite, SumBelow
<1>4. SumOver(f, Layers) \in Nat
  BY LayersFinite, SumIsNatural
<1>5. QED
  BY <1>1, <1>3, <1>4

LEMMA BytesOfRows ==
  /\ \A n \in Nat : RowBytes(n) \in Nat /\ RowBytes(0) = 0
  /\ \A m, n \in Nat : m <= n => RowBytes(m) <= RowBytes(n)
<1> DEFINE b == up_row_nbytes + down_row_nbytes
<1>1. b \in Nat
  <2>1. up_row_nbytes \in Nat /\ down_row_nbytes \in Nat
    BY AblationAssumption
  <2>2. QED
    BY <2>1
<1>2. \A n : RowBytes(n) = n * b
  BY DEF RowBytes
<1> HIDE DEF b
<1>3. \A n \in Nat : n * b \in Nat /\ 0 * b = 0
  BY <1>1
<1>4. ASSUME NEW m \in Nat, NEW n \in Nat, m <= n PROVE m * b <= n * b
  BY <1>1, <1>4
<1>5. QED
  BY <1>2, <1>3, <1>4

(* A token's bytes: the rows all layers have to move, and those gathered.    *)
LEMMA TokenBytes ==
  ASSUME NEW k \in Nat
  PROVE  /\ dip_bytes_per_token(k, FALSE) \in Nat
         /\ dip_bytes_per_token(k, FALSE) = NumLayers * dense_row_bytes + NumLayers * RowBytes(k)
         /\ dip_bytes_per_token(0, FALSE) = NumLayers * dense_row_bytes
         /\ dip_bytes_per_token(IntermediateSize, TRUE) = dip_bytes_per_token(IntermediateSize, FALSE)
<1>1. /\ NumLayers \in Nat /\ dense_row_bytes \in Nat /\ up_row_nbytes \in Nat /\ down_row_nbytes \in Nat
  BY AblationAssumption
<1>2. /\ RowBytes(k) = k * (up_row_nbytes + down_row_nbytes)
      /\ dip_bytes_per_token(k, FALSE) = NumLayers * (dense_row_bytes + k * up_row_nbytes + k * down_row_nbytes)
      /\ dip_bytes_per_token(0, FALSE) = NumLayers * (dense_row_bytes + 0 * up_row_nbytes + 0 * down_row_nbytes)
      /\ dip_bytes_per_token(IntermediateSize, TRUE) = dip_bytes_per_token(IntermediateSize, FALSE)
  BY DEF RowBytes, dip_bytes_per_token
<1>3. dense_row_bytes + k * up_row_nbytes + k * down_row_nbytes = dense_row_bytes + RowBytes(k)
  BY <1>1, <1>2
<1>4. RowBytes(k) \in Nat
  BY BytesOfRows
<1>5. NumLayers * (dense_row_bytes + RowBytes(k)) = NumLayers * dense_row_bytes + NumLayers * RowBytes(k)
  BY <1>1, <1>4
<1>6. dense_row_bytes + 0 * up_row_nbytes + 0 * down_row_nbytes = dense_row_bytes
  BY <1>1
<1>7. NumLayers * (dense_row_bytes + RowBytes(k)) \in Nat
  BY <1>1, <1>4
<1>8. QED
  BY <1>2, <1>3, <1>5, <1>6, <1>7

LEMMA TokenBytesGrow ==
  ASSUME NEW m \in Nat, NEW n \in Nat, m <= n
  PROVE  dip_bytes_per_token(m, FALSE) <= dip_bytes_per_token(n, FALSE)
<1>1. RowBytes(m) \in Nat /\ RowBytes(n) \in Nat /\ RowBytes(m) <= RowBytes(n)
  BY BytesOfRows
<1>2. NumLayers \in Nat /\ NumLayers * dense_row_bytes \in Nat
  <2>1. NumLayers \in Nat /\ dense_row_bytes \in Nat
    BY AblationAssumption
  <2>2. QED
    BY <2>1
<1>3. NumLayers * RowBytes(m) <= NumLayers * RowBytes(n)
  BY <1>1, <1>2
<1>4. NumLayers * RowBytes(m) \in Nat /\ NumLayers * RowBytes(n) \in Nat
  BY <1>1, <1>2
<1>5. \A k \in Nat :
        dip_bytes_per_token(k, FALSE) = NumLayers * dense_row_bytes + NumLayers * RowBytes(k)
  BY TokenBytes
<1> DEFINE d == NumLayers * dense_row_bytes
           a == NumLayers * RowBytes(m)
           b == NumLayers * RowBytes(n)
<1>6. d \in Nat /\ a \in Nat /\ b \in Nat /\ a <= b
  BY <1>2, <1>3, <1>4
<1>7. dip_bytes_per_token(m, FALSE) = d + a /\ dip_bytes_per_token(n, FALSE) = d + b
  BY <1>5
<1> HIDE DEF d, a, b
<1>8. d + a <= d + b
  BY <1>6
<1>9. QED
  BY <1>7, <1>8

-----------------------------------------------------------------------------
(* Ablation: the scripts *)

Modes == {"dense", "dip", "cached"}

(* What is yet to be called: a measured call that is not the next one comes  *)
(* right after its warm-up.                                                  *)
ToCall(s) ==
  /\ \E S : s \in Seq(S)
  /\ \A n \in 1 .. Len(s) :
       /\ s[n].mode \in Modes /\ s[n].k \in Nat
       /\ n > 1 /\ s[n].kind = "measure" => s[n - 1].kind = "warmup"
Opens(s) == s # <<>> => s[1].kind # "measure"
ProperScript(s) == ToCall(s) /\ Opens(s)

LEMMA EmptyScript == ProperScript(<<>>)
<1>1. <<>> \in Seq({}) /\ Len(<<>>) = 0
  OBVIOUS
<1>2. QED
  BY <1>1 DEF ProperScript, ToCall, Opens

LEMMA ScriptsTogether ==
  ASSUME NEW s, NEW t, ProperScript(s), ProperScript(t)
  PROVE  ProperScript(s \o t)
<1>1. PICK S : s \in Seq(S)
  BY DEF ProperScript, ToCall
<1>2. PICK T : t \in Seq(T)
  BY DEF ProperScript, ToCall
<1> DEFINE U == S \cup T
           m == Len(s)
           n == Len(t)
           r == s \o t
<1>3. s \in Seq(U) /\ t \in Seq(U)
  BY <1>1, <1>2
<1>4. /\ r \in Seq(U) /\ Len(r) = m + n /\ m \in Nat /\ n \in Nat
      /\ \A j \in 1 .. m + n : r[j] = IF j <= m THEN s[j] ELSE t[j - m]
  BY <1>3, Together
<1>5. /\ \A j \in 1 .. m : /\ s[j].mode \in Modes /\ s[j].k \in Nat
                           /\ s[j].kind = "measure" => j > 1 /\ s[j - 1].kind = "warmup"
      /\ \A j \in 1 .. n : /\ t[j].mode \in Modes /\ t[j].k \in Nat
                           /\ t[j].kind = "measure" => j > 1 /\ t[j - 1].kind = "warmup"
  <2>1. \A u : ProperScript(u) => \A j \in 1 .. Len(u) :
          /\ u[j].mode \in Modes /\ u[j].k \in Nat
          /\ u[j].kind = "measure" => j > 1 /\ u[j - 1].kind = "warmup"
    <3> SUFFICES ASSUME NEW u, ProperScript(u), NEW j \in 1 .. Len(u)
                 PROVE  /\ u[j].mode \in Modes /\ u[j].k \in Nat
                        /\ u[j].kind = "measure" => j > 1 /\ u[j - 1].kind = "warmup"
      OBVIOUS
    <3>1. PICK V : u \in Seq(V)
      BY DEF ProperScript, ToCall
    <3>2. u # <<>> /\ j >= 1
      BY <3>1
    <3>3. u[j].kind = "measure" => j # 1
      BY <3>2 DEF ProperScript, Opens
    <3>4. QED
      BY <3>2, <3>3 DEF ProperScript, ToCall
  <2>2. QED
    BY <2>1
<1> HIDE DEF U, m, n, r
<1>6. ASSUME NEW j \in 1 .. m + n
      PROVE  /\ r[j].mode \in Modes /\ r[j].k \in Nat
             /\ r[j].kind = "measure" => j > 1 /\ r[j - 1].kind = "warmup"
  <2>1. CASE j <= m
    <3>1. j \in 1 .. m /\ r[j] = s[j]
      BY <1>4, <2>1
    <3>2. j > 1 => j - 1 \in 1 .. m + n /\ j - 1 <= m
      BY <1>4, <2>1
    <3>3. j > 1 => r[j - 1] = s[j - 1]
      BY <1>4, <3>2
    <3>4. QED
      BY <1>5, <3>1, <3>3
  <2>2. CASE ~ (j <= m)
    <3>1. j - m \in 1 .. n /\ r[j] = t[j - m]
      BY <1>4, <2>2
    <3>2. j - m > 1 => /\ j - 1 \in 1 .. m + n /\ ~ (j - 1 <= m) /\ j > 1
                       /\ (j - 1) - m = (j - m) - 1
      BY <1>4, <2>2
    <3>3. j - m > 1 => r[j - 1] = t[(j - m) - 1] /\ j > 1
      BY <1>4, <3>2
    <3>4. QED
      BY <1>5, <3>1, <3>3
  <2>3. QED
    BY <2>1, <2>2
<1>7. ToCall(r)
  BY <1>4, <1>6 DEF ToCall
<1>8. r # <<>> => 1 \in 1 .. m + n
  BY <1>4
<1>9. Opens(r)
  BY <1>6, <1>8 DEF Opens
<1>10. QED
  BY <1>7, <1>9 DEF ProperScript, r

(* Scripts flattened into one.                                               *)
LEMMA ScriptsJoined ==
  ASSUME NEW n \in Nat, NEW seqs, seqs = [m \in 1 .. n |-> seqs[m]],
         \A m \in 1 .. n : ProperScript(seqs[m])
  PROVE  ProperScript(FlattenSeq(seqs))
<1>1. Len(seqs) = n
  <2>1. seqs \in [1 .. n -> {seqs[m] : m \in 1 .. n}]
    OBVIOUS
  <2>2. QED
    BY <2>1, Tabulated
<1>2. CASE n = 0
  <2>1. seqs = <<>> /\ FlattenSeq(seqs) = seqs
    BY <1>1, <1>2 DEF FlattenSeq
  <2>2. QED
    BY <2>1, EmptyScript
<1>3. CASE n # 0
  <2> DEFINE g == CHOOSE f : Joins(seqs, n, f)
             T == {m \in Nat : m < n => ProperScript(g[m + 1])}
  <2>1. n \in Nat \ {0}
    BY <1>3
  <2>2. FlattenSeq(seqs) = g[n]
    BY <1>1, <1>3 DEF FlattenSeq, Joins
  <2>3. Joins(seqs, n, g)
    <3>1. \E f : Joins(seqs, n, f)
      BY <2>1, JoinExists
    <3>2. QED
      BY <3>1
  <2> HIDE DEF g
  <2>4. g[1] = seqs[1] /\ \A m \in 1 .. n - 1 : g[m + 1] = g[m] \o seqs[m + 1]
    <3>1. \A f : Joins(seqs, n, f) =>
            f[1] = seqs[1] /\ \A m \in 1 .. n - 1 : f[m + 1] = f[m] \o seqs[m + 1]
      BY <2>1, JoinSteps
    <3>2. QED
      BY <2>3, <3>1
  <2>5. 0 \in T
    <3>1. 0 + 1 = 1 /\ 1 \in 1 .. n
      BY <2>1
    <3>2. QED
      BY <2>4, <3>1
  <2>6. ASSUME NEW m \in Nat, m \in T PROVE m + 1 \in T
    <3> SUFFICES ASSUME m + 1 < n PROVE ProperScript(g[(m + 1) + 1])
      OBVIOUS
    <3>1. m < n /\ m + 1 \in 1 .. n - 1 /\ (m + 1) + 1 \in 1 .. n
      OBVIOUS
    <3>2. ProperScript(g[m + 1]) /\ ProperScript(seqs[(m + 1) + 1])
      BY <2>6, <3>1
    <3>3. g[(m + 1) + 1] = g[m + 1] \o seqs[(m + 1) + 1]
      BY <2>4, <3>1
    <3>4. QED
      BY <3>2, <3>3, ScriptsTogether
  <2> HIDE DEF T
  <2>7. n - 1 \in Nat /\ n - 1 < n /\ (n - 1) + 1 = n
    BY <2>1
  <2>8. n - 1 \in T
    BY <2>5, <2>6, <2>7, SetInduction
  <2>9. ProperScript(g[n])
    BY <2>7, <2>8 DEF T
  <2>10. QED
    BY <2>2, <2>9
<1>4. QED
  BY <1>2, <1>3

LEMMA ShareIsNatural ==
  ASSUME NEW num \in Nat, NEW den \in Nat \ {0}
  PROVE  Share(num, den) \in Nat
<1> DEFINE x == RoundHalfEven(<<IntermediateSize * num, den>>)
           p == IntermediateSize * num
<1>1. p \in Nat
  <2>1. IntermediateSize \in Nat
    BY AblationAssumption
  <2>2. QED
    BY <2>1
<1> HIDE DEF p
<1>2. p \div den \in Int
  BY <1>1
<1>3. x \in {p \div den, p \div den + 1}
  BY DEF RoundHalfEven, p
<1>4. x \in Int
  BY <1>2, <1>3
<1> HIDE DEF x
<1>5. \E m \in {1, x} : \A y \in {1, x} : m >= y
  BY <1>4
<1>6. Max({1, x}) \in {1, x} /\ Max({1, x}) >= 1
  BY <1>5 DEF Max
<1>7. QED
  BY <1>4, <1>6 DEF Share, x

LEMMA ScoredIsProper ==
  ASSUME NEW mode \in Modes, NEW k \in Nat, NEW size
  PROVE  ProperScript(Scored(mode, k, size))
<1> DEFINE One == Call("perplexity", mode, k, size)
           Two == Call("warmup", mode, k, size)
           Three == Call("measure", mode, k, size)
           s == <<One, Two, Three>>
<1>1. /\ One.kind = "perplexity" /\ Two.kind = "warmup" /\ Three.kind = "measure"
      /\ One.mode = mode /\ Two.mode = mode /\ Three.mode = mode
      /\ One.k = k /\ Two.k = k /\ Three.k = k
  BY DEF Call
<1> HIDE DEF One, Two, Three
<1>3. ProperScript(s)
  <2>1. /\ s \in Seq({One, Two, Three}) /\ Len(s) = 3 /\ s[1] = One /\ s[2] = Two /\ s[3] = Three
    OBVIOUS
  <2> HIDE DEF s
  <2>2. \A n \in 1 .. 3 : n = 1 \/ n = 2 \/ n = 3
    OBVIOUS
  <2>3. 2 - 1 = 1 /\ 3 - 1 = 2
    OBVIOUS
  <2>4. ASSUME NEW n \in 1 .. 3
        PROVE  /\ s[n].mode \in Modes /\ s[n].k \in Nat
               /\ n > 1 /\ s[n].kind = "measure" => s[n - 1].kind = "warmup"
    BY <1>1, <2>1, <2>2, <2>3
  <2>5. ToCall(s)
    BY <2>1, <2>4 DEF ToCall
  <2>6. QED
    BY <1>1, <2>1, <2>5 DEF ProperScript, Opens
<1>4. Scored(mode, k, size) = s
  BY DEF Scored, One, Two, Three
<1> HIDE DEF s
<1>5. QED
  BY <1>3, <1>4

LEMMA SingleCall ==
  ASSUME NEW x, x.mode \in Modes, x.k \in Nat, x.kind # "measure"
  PROVE  ProperScript(<<x>>)
<1> DEFINE s == <<x>>
<1>1. s \in Seq({x}) /\ Len(s) = 1 /\ s[1] = x
  OBVIOUS
<1> HIDE DEF s
<1>2. \A n \in 1 .. 1 : n = 1 /\ ~ (n > 1)
  OBVIOUS
<1>3. ToCall(s) /\ Opens(s)
  BY <1>1, <1>2 DEF ToCall, Opens
<1>4. QED
  BY <1>3 DEF ProperScript, s

LEMMA CachedRowIsProper ==
  ASSUME NEW k \in Nat, NEW size
  PROVE  ProperScript(CachedRow(k, size))
<1> DEFINE Build == Call("build", "cached", k, size)
<1>1. Build.kind = "build" /\ Build.mode = "cached" /\ Build.k = k
  BY DEF Call
<1>2. CachedRow(k, size) = <<Build>> \o Scored("cached", k, size)
  BY DEF CachedRow
<1> HIDE DEF Build
<1>3. ProperScript(<<Build>>)
  BY <1>1, SingleCall DEF Modes
<1>4. ProperScript(Scored("cached", k, size))
  BY ScoredIsProper DEF Modes
<1>5. QED
  BY <1>2, <1>3, <1>4, ScriptsTogether

LEMMA ScriptsAreProper ==
  ProperScript(m7_pareto) /\ ProperScript(m8_ablation) /\ ProperScript(m9_ablation_matrix)
<1>1. \A n \in 1 .. 6 : K_FRACTIONS[n] \in Nat
  BY DEF K_FRACTIONS
<1>2. /\ \A n \in 1 .. 6 : Share(K_FRACTIONS[n], 8) \in Nat
      /\ Share(4, 8) \in Nat /\ IntermediateSize \in Nat
  <2>1. 8 \in Nat \ {0} /\ 4 \in Nat
    OBVIOUS
  <2>2. \A num \in Nat : Share(num, 8) \in Nat
    BY <2>1, ShareIsNatural
  <2>3. IntermediateSize \in Nat
    BY AblationAssumption
  <2>4. QED
    BY <1>1, <2>1, <2>2, <2>3
<1>3. \A k \in Nat : ProperScript(<<Call("calibrate", "dip", k, 0)>>)
  <2> TAKE k \in Nat
  <2> DEFINE x == Call("calibrate", "dip", k, 0)
  <2>1. x.kind = "calibrate" /\ x.mode = "dip" /\ x.k = k
    BY DEF Call
  <2> HIDE DEF x
  <2>2. ProperScript(<<x>>)
    BY <2>1, SingleCall DEF Modes
  <2>3. QED
    BY <2>2 DEF x
<1>4. \A mode \in Modes, k \in Nat : \A size : ProperScript(Scored(mode, k, size))
  BY ScoredIsProper
<1>5. \A k \in Nat : \A size : ProperScript(CachedRow(k, size))
  BY CachedRowIsProper
<1>6. \A s, t : ProperScript(s) /\ ProperScript(t) => ProperScript(s \o t)
  BY ScriptsTogether
<1>7. ProperScript(m7_pareto)
  <2> DEFINE seqs == [n \in 1 .. 6 |-> Scored("dip", Share(K_FRACTIONS[n], 8), 0)]
  <2>1. seqs = [n \in 1 .. 6 |-> seqs[n]] /\ \A n \in 1 .. 6 : ProperScript(seqs[n])
    BY <1>2, <1>4 DEF Modes
  <2> HIDE DEF seqs
  <2>2. ProperScript(FlattenSeq(seqs))
    BY <2>1, ScriptsJoined
  <2>3. ProperScript(Scored("dense", IntermediateSize, 0))
    BY <1>2, <1>4 DEF Modes
  <2>4. QED
    BY <1>6, <2>2, <2>3 DEF m7_pareto, seqs
<1>8. ProperScript(m8_ablation)
  <2>1. /\ ProperScript(Scored("dense", IntermediateSize, 0)) /\ ProperScript(Scored("dip", Share(4, 8), 0))
        /\ ProperScript(<<Call("calibrate", "dip", Share(4, 8), 0)>>)
        /\ ProperScript(CachedRow(Share(4, 8), CacheSizes[1]))
    BY <1>2, <1>3, <1>4, <1>5 DEF Modes
  <2>2. QED
    BY <1>6, <2>1 DEF m8_ablation
<1>9. ProperScript(m9_ablation_matrix)
  <2> DEFINE Rows(k) == FlattenSeq([c \in DOMAIN CacheSizes |-> CachedRow(k, CacheSizes[c])])
             seqs == [n \in 1 .. 6 |-> <<Call("calibrate", "dip", Share(K_FRACTIONS[n], 8), 0)>>
                                       \o Rows(Share(K_FRACTIONS[n], 8))]
  <2>1. Cardinality(CachePercents) \in Nat /\ DOMAIN CacheSizes = 1 .. Cardinality(CachePercents)
    BY AblationAssumption, FS_CardinalityType DEF CacheSizes, Ascending
  <2>2. ASSUME NEW k \in Nat PROVE ProperScript(Rows(k))
    <3> DEFINE rows == [c \in DOMAIN CacheSizes |-> CachedRow(k, CacheSizes[c])]
    <3>1. /\ rows = [c \in 1 .. Cardinality(CachePercents) |-> rows[c]]
          /\ \A c \in 1 .. Cardinality(CachePercents) : ProperScript(rows[c])
      BY <1>5, <2>1
    <3> HIDE DEF rows
    <3>2. ProperScript(FlattenSeq(rows))
      BY <2>1, <3>1, ScriptsJoined
    <3>3. QED
      BY <3>2 DEF rows
  <2> HIDE DEF Rows
  <2>3. seqs = [n \in 1 .. 6 |-> seqs[n]] /\ \A n \in 1 .. 6 : ProperScript(seqs[n])
    BY <1>2, <1>3, <1>6, <2>2
  <2>4. m9_ablation_matrix = FlattenSeq(seqs)
    BY DEF m9_ablation_matrix, Rows
  <2> HIDE DEF seqs
  <2>5. QED
    BY <2>3, <2>4, ScriptsJoined
<1>10. QED
  BY <1>7, <1>8, <1>9

-----------------------------------------------------------------------------
(* Ablation: the measured call *)

(* What a measured call has moved in its first p tokens.                     *)
Measured(call, p, moved, miss) ==
  /\ p \in Nat
  /\ p > 0 /\ call.mode # "dense" => call.k <= IntermediateSize
  /\ call.mode = "dense" => moved = p * dip_bytes_per_token(IntermediateSize, FALSE)
  /\ call.mode = "dip" => moved = p * dip_bytes_per_token(call.k, FALSE)
  /\ call.mode = "cached" =>
       /\ moved = p * dip_bytes_per_token(0, FALSE) + SumOver(miss, Layers)
       /\ \A l \in Layers : miss[l] \in Nat /\ miss[l] <= p * RowBytes(call.k)

TableInv ==
  /\ ToCall(todo)
  /\ At("measure") => Measured(Head(todo), passes, transferred, miss_bytes)
  /\ RowsMatchTransfers

LEMMA TableStarts == AblationInit => TableInv
<1>1. ToCall(<<>>)
  BY EmptyScript DEF ProperScript
<1>2. QED
  BY <1>1 DEF AblationInit, TableInv, At, RowsMatchTransfers

LEMMA NothingMeasured ==
  ASSUME NEW call, call.k \in Nat
  PROVE  Measured(call, 0, 0, NoBytes)
<1>1. \A n \in Nat : 0 * n = 0
  OBVIOUS
<1>2. /\ dip_bytes_per_token(0, FALSE) \in Nat /\ dip_bytes_per_token(call.k, FALSE) \in Nat
      /\ dip_bytes_per_token(IntermediateSize, FALSE) \in Nat /\ RowBytes(call.k) \in Nat
  <2>1. IntermediateSize \in Nat /\ 0 \in Nat
    BY AblationAssumption
  <2>2. \A k \in Nat : dip_bytes_per_token(k, FALSE) \in Nat /\ RowBytes(k) \in Nat
    BY TokenBytes, BytesOfRows
  <2>3. QED
    BY <2>1, <2>2
<1>3. \A l \in Layers : NoBytes[l] = 0
  BY DEF NoBytes
<1>4. SumOver(NoBytes, Layers) = 0
  BY <1>3, LayersFinite, SumOfZeros
<1>5. \A l \in Layers : NoBytes[l] \in Nat /\ NoBytes[l] <= 0 * RowBytes(call.k)
  BY <1>1, <1>2, <1>3
<1>6. /\ 0 = 0 * dip_bytes_per_token(0, FALSE) + SumOver(NoBytes, Layers)
      /\ 0 = 0 * dip_bytes_per_token(call.k, FALSE)
      /\ 0 = 0 * dip_bytes_per_token(IntermediateSize, FALSE)
  <2> DEFINE x == dip_bytes_per_token(0, FALSE)
             y == dip_bytes_per_token(call.k, FALSE)
             z == dip_bytes_per_token(IntermediateSize, FALSE)
  <2>1. x \in Nat /\ y \in Nat /\ z \in Nat
    BY <1>2
  <2> HIDE DEF x, y, z
  <2>2. 0 * x = 0 /\ 0 * y = 0 /\ 0 * z = 0
    BY <2>1
  <2>3. 0 = 0 * x + SumOver(NoBytes, Layers) /\ 0 = 0 * y /\ 0 = 0 * z
    BY <1>4, <2>2
  <2>4. QED
    BY ONLY <2>3, Zenon DEF x, y, z
<1>7. 0 \in Nat /\ ~ (0 > 0)
  OBVIOUS
<1>8. QED
  BY <1>5, <1>6, <1>7 DEF Measured

(* A call returns, and the next one is not measured unless this one warmed up. *)
LEMMA Returns ==
  ASSUME ToCall(todo), todo # <<>>, Return
  PROVE  /\ ToCall(todo)' /\ passes' = 0
         /\ At("measure")' => Head(todo).kind = "warmup"
<1>1. PICK S : todo \in Seq(S)
  BY DEF ToCall
<1> DEFINE n == Len(todo)
           s == Tail(todo)
<1>2. /\ n \in Nat /\ n >= 1 /\ s \in Seq(S) /\ Len(s) = n - 1 /\ Head(todo) = todo[1]
      /\ \A j \in 1 .. n - 1 : s[j] = todo[j + 1] /\ j + 1 \in 1 .. n
  BY <1>1
<1>3. todo' = s /\ passes' = 0
  BY DEF Return
<1>4. s # <<>> => 1 \in 1 .. n - 1 /\ Head(s) = s[1]
  BY <1>2
<1> HIDE DEF s, n
<1>5. ASSUME NEW j \in 1 .. n - 1
      PROVE  /\ s[j].mode \in Modes /\ s[j].k \in Nat
             /\ j > 1 /\ s[j].kind = "measure" => s[j - 1].kind = "warmup"
  <2>1. s[j] = todo[j + 1] /\ j + 1 \in 1 .. n /\ j + 1 > 1 /\ (j + 1) - 1 = j
    BY <1>2
  <2>2. j > 1 => j - 1 \in 1 .. n - 1 /\ (j - 1) + 1 = j
    BY <1>2
  <2>3. j > 1 => s[j - 1] = todo[j]
    BY <1>2, <2>2
  <2>4. /\ todo[j + 1].mode \in Modes /\ todo[j + 1].k \in Nat
        /\ todo[j + 1].kind = "measure" => todo[j].kind = "warmup"
    BY <2>1 DEF ToCall, n
  <2>5. QED
    BY <2>1, <2>3, <2>4
<1>6. ToCall(s)
  BY <1>2, <1>5 DEF ToCall
<1>7. s # <<>> /\ Head(s).kind = "measure" => todo[1].kind = "warmup"
  <2> SUFFICES ASSUME s # <<>>, Head(s).kind = "measure" PROVE todo[1].kind = "warmup"
    OBVIOUS
  <2>1. s[1] = todo[1 + 1] /\ 1 + 1 \in 1 .. n /\ 1 + 1 > 1 /\ (1 + 1) - 1 = 1
    BY <1>2, <1>4
  <2>2. QED
    BY <1>4, <2>1 DEF ToCall, n
<1>8. ToCall(todo)' <=> ToCall(s)
  BY <1>3 DEF ToCall
<1>9. QED
  BY <1>2, <1>3, <1>6, <1>7, <1>8 DEF At

(* A token more.                                                             *)
LEMMA OneMoreToken ==
  ASSUME TableInv, MeasuredPass
  PROVE  Measured(Head(todo), passes', transferred', miss_bytes')
<1> DEFINE call == Head(todo)
           p == passes
           k == call.k
           Z == dip_bytes_per_token(0, FALSE)
           D == dip_bytes_per_token(IntermediateSize, FALSE)
           Dk == dip_bytes_per_token(k, FALSE)
           AllPicks == IF call.mode = "dense" THEN {[layer \in Layers |-> {}]} ELSE Picks
<1>1. At("measure") /\ Measured(call, p, transferred, miss_bytes)
  BY DEF TableInv, MeasuredPass
<1>2. call.k \in Nat /\ call.mode \in Modes
  <2>1. PICK S : todo \in Seq(S)
    BY DEF TableInv, ToCall
  <2>2. todo # <<>>
    BY <1>1 DEF At
  <2>3. 1 \in 1 .. Len(todo) /\ call = todo[1]
    BY <2>1, <2>2
  <2>4. QED
    BY <2>3 DEF TableInv, ToCall
<1>3. PICK picks \in AllPicks :
        LET moved == [layer \in Layers |-> RowBytes(Gathered(Head(todo), layer, picks[layer]))]
        IN  /\ transferred' = transferred + NumLayers * dense_row_bytes + OverLayers(moved)
            /\ miss_bytes' = IF Head(todo).mode = "cached"
                             THEN [layer \in Layers |-> miss_bytes[layer] + moved[layer]]
                             ELSE miss_bytes
  BY DEF MeasuredPass
<1> DEFINE moved == [layer \in Layers |-> RowBytes(Gathered(Head(todo), layer, picks[layer]))]
<1>4. /\ passes' = p + 1
      /\ transferred' = transferred + Z + SumOver(moved, Layers)
      /\ call.mode = "cached" => miss_bytes' = [layer \in Layers |-> miss_bytes[layer] + moved[layer]]
  <2>1. OverLayers(moved) = SumOver(moved, Layers) /\ Z = NumLayers * dense_row_bytes
    BY LayersFinite, TokenBytes
  <2>2. passes' = p + 1
    BY DEF MeasuredPass
  <2>3. QED
    BY <1>3, <2>1, <2>2
<1>5. p \in Nat /\ p + 1 \in Nat /\ p + 1 > 0
  BY <1>1 DEF Measured
<1>6. /\ Z \in Nat /\ D \in Nat /\ Dk \in Nat /\ IntermediateSize \in Nat
      /\ D = Z + NumLayers * RowBytes(IntermediateSize) /\ Dk = Z + NumLayers * RowBytes(k)
  <2>1. IntermediateSize \in Nat /\ 0 \in Nat
    BY AblationAssumption
  <2>2. \A n \in Nat : /\ dip_bytes_per_token(n, FALSE) \in Nat
                       /\ dip_bytes_per_token(n, FALSE) = NumLayers * dense_row_bytes + NumLayers * RowBytes(n)
                       /\ Z = NumLayers * dense_row_bytes
    BY TokenBytes
  <2>3. QED
    BY <1>2, <2>1, <2>2
<1>7. ASSUME call.mode # "dense"
      PROVE  /\ k <= IntermediateSize
             /\ \A l \in Layers : IsFiniteSet(picks[l]) /\ Cardinality(picks[l]) = k
  <2>1. picks \in [Layers -> kSubset(k, MlpChannels)]
    BY <1>7 DEF Picks
  <2>2. \A l \in Layers : picks[l] \in SUBSET MlpChannels /\ Cardinality(picks[l]) = k
    BY <2>1 DEF kSubset
  <2>3. IsFiniteSet(MlpChannels) /\ Cardinality(MlpChannels) = IntermediateSize
    <3>1. IntermediateSize \in Nat \ {0}
      BY AblationAssumption
    <3>2. /\ IsFiniteSet(0 .. IntermediateSize - 1)
          /\ Cardinality(0 .. IntermediateSize - 1) = (IntermediateSize - 1) - 0 + 1
      BY <3>1, FS_Interval
    <3>3. QED
      BY <3>1, <3>2 DEF MlpChannels
  <2>4. \A l \in Layers : IsFiniteSet(picks[l]) /\ Cardinality(picks[l]) <= IntermediateSize
    BY <2>2, <2>3, FS_Subset
  <2>5. 0 \in Layers
    BY LayersFinite DEF Layers
  <2>6. QED
    BY <2>2, <2>4, <2>5
<1> HIDE DEF call, p, k, Z, D, Dk, AllPicks
<1>8. CASE call.mode = "dense"
  <2>1. \A l \in Layers : moved[l] = RowBytes(IntermediateSize)
    BY <1>8 DEF Gathered, call
  <2>2. RowBytes(IntermediateSize) \in Nat
    BY <1>6, BytesOfRows
  <2> HIDE DEF moved
  <2>3. Z + SumOver(moved, Layers) = D
    BY <1>6, <2>1, <2>2, SumAlike
  <2>4. SumOver(moved, Layers) = NumLayers * RowBytes(IntermediateSize)
    BY <2>1, <2>2, SumAlike
  <2>5. NumLayers * RowBytes(IntermediateSize) \in Nat
    BY <2>2, LayersFinite
  <2>6. transferred = p * D
    BY <1>1, <1>8 DEF Measured, D
  <2>7. p * D \in Nat /\ (p + 1) * D = p * D + D
    BY <1>5, <1>6
  <2>8. transferred' = (p + 1) * D
    BY <1>4, <1>6, <2>3, <2>4, <2>5, <2>6, <2>7
  <2>9. QED
    BY <1>4, <1>5, <1>8, <2>8 DEF Measured, call, p, D
<1>9. CASE call.mode = "dip"
  <2>1. \A l \in Layers : moved[l] = RowBytes(k)
    BY <1>7, <1>9 DEF Gathered, call
  <2>2. RowBytes(k) \in Nat
    BY <1>2, BytesOfRows DEF k
  <2> HIDE DEF moved
  <2>4. SumOver(moved, Layers) = NumLayers * RowBytes(k)
    BY <2>1, <2>2, SumAlike
  <2>5. NumLayers * RowBytes(k) \in Nat
    BY <2>2, LayersFinite
  <2>6. transferred = p * Dk
    BY <1>1, <1>9 DEF Measured, Dk, k
  <2>7. p * Dk \in Nat /\ (p + 1) * Dk = p * Dk + Dk
    BY <1>5, <1>6
  <2>8. transferred' = (p + 1) * Dk
    BY <1>4, <1>6, <2>4, <2>5, <2>6, <2>7
  <2>9. QED
    BY <1>4, <1>5, <1>7, <1>9, <2>8 DEF Measured, call, p, Dk, k
<1>10. CASE call.mode = "cached"
  <2> DEFINE R == RowBytes(k)
  <2>1. R \in Nat
    BY <1>2, BytesOfRows DEF k
  <2>2. \A l \in Layers : moved[l] \in Nat /\ moved[l] <= R
    <3> TAKE l \in Layers
    <3> DEFINE g == Cardinality(picks[l] \ caches[l])
    <3>1. moved[l] = RowBytes(g)
      BY <1>10 DEF Gathered, call
    <3>2. IsFiniteSet(picks[l]) /\ Cardinality(picks[l]) = k
      BY <1>7, <1>10
    <3>3. picks[l] \ caches[l] \in SUBSET picks[l]
      OBVIOUS
    <3>4. g \in Nat /\ g <= k
      BY <3>2, <3>3, FS_Subset, FS_CardinalityType
    <3> HIDE DEF g
    <3>5. k \in Nat
      BY <1>2 DEF k
    <3>6. QED
      BY <3>1, <3>4, <3>5, BytesOfRows
  <2> HIDE DEF moved
  <2>3. /\ transferred = p * Z + SumOver(miss_bytes, Layers)
        /\ \A l \in Layers : miss_bytes[l] \in Nat /\ miss_bytes[l] <= p * R
    BY <1>1, <1>10 DEF Measured, Z, k
  <2>4. \A l \in Layers : miss_bytes'[l] = miss_bytes[l] + moved[l]
    BY <1>4, <1>10
  <2>5. SumOver(miss_bytes', Layers) = SumOver(miss_bytes, Layers) + SumOver(moved, Layers)
    <3>1. \A f, g, h : (\A l \in Layers : f[l] \in Int /\ g[l] \in Int /\ h[l] = f[l] + g[l])
                       => SumOver(h, Layers) = SumOver(f, Layers) + SumOver(g, Layers)
      BY LayersFinite, SumPlus
    <3>2. \A l \in Layers : miss_bytes[l] \in Int /\ moved[l] \in Int
      BY <2>2, <2>3
    <3>3. QED
      BY <2>4, <3>1, <3>2
  <2>6. SumOver(miss_bytes, Layers) \in Nat /\ SumOver(moved, Layers) \in Nat
    BY <2>2, <2>3, LayersFinite, SumIsNatural
  <2>7. /\ p * Z \in Nat /\ (p + 1) * Z = p * Z + Z
        /\ p * R \in Nat /\ (p + 1) * R = p * R + R
    BY <1>5, <1>6, <2>1
  <2> HIDE DEF R
  <2>8. transferred' = (p + 1) * Z + SumOver(miss_bytes', Layers)
    BY <1>4, <1>6, <2>3, <2>5, <2>6, <2>7
  <2>9. \A l \in Layers : miss_bytes'[l] \in Nat /\ miss_bytes'[l] <= (p + 1) * R
    <3> TAKE l \in Layers
    <3>1. /\ miss_bytes[l] \in Nat /\ moved[l] \in Nat /\ moved[l] <= R /\ miss_bytes[l] <= p * R
          /\ miss_bytes'[l] = miss_bytes[l] + moved[l]
      BY <2>2, <2>3, <2>4
    <3>2. QED
      BY <2>1, <2>7, <3>1
  <2>10. QED
    BY <1>4, <1>5, <1>7, <1>10, <2>8, <2>9 DEF Measured, call, p, Z, R, k
<1>11. QED
  BY <1>2, <1>8, <1>9, <1>10 DEF Modes, call

(* The row of a call that has moved its tokens.                              *)
LEMMA RowMatches ==
  ASSUME TableInv, AddRow
  PROVE  RowsMatchTransfers'
<1> DEFINE call == Head(todo)
           p == passes
           k == call.k
           Z == dip_bytes_per_token(0, FALSE)
           D == dip_bytes_per_token(IntermediateSize, FALSE)
           Dk == dip_bytes_per_token(k, FALSE)
           B == bytes_per_token(call)
           t == transferred
           X == SumOver(miss_bytes, Layers)
<1>1. /\ At("measure") /\ Measured(call, p, transferred, miss_bytes)
      /\ p = n_tokens_measured /\ row' = [call |-> call, bytes |-> B, moved |-> <<t, p>>]
  BY DEF TableInv, AddRow, n_tokens_measured
<1>2. call.k \in Nat /\ call.mode \in Modes
  <2>1. PICK S : todo \in Seq(S)
    BY DEF TableInv, ToCall
  <2>2. todo # <<>>
    BY <1>1 DEF At
  <2>3. 1 \in 1 .. Len(todo) /\ call = todo[1]
    BY <2>1, <2>2
  <2>4. QED
    BY <2>3 DEF TableInv, ToCall
<1>3. p \in Nat /\ p > 0
  <2>1. PromptLength \in Nat \ {0} /\ N_GEN_TOKENS \in Nat \ {0}
    BY AblationAssumption
  <2>2. PromptLength + N_GEN_TOKENS > 0
    BY <2>1
  <2>3. QED
    BY <1>1, <2>2 DEF Measured, n_tokens_measured
<1>4. /\ Z \in Nat /\ D \in Nat /\ Dk \in Nat /\ IntermediateSize \in Nat
      /\ Dk = Z + NumLayers * RowBytes(k)
      /\ dip_bytes_per_token(IntermediateSize, TRUE) = D
  <2>1. IntermediateSize \in Nat /\ 0 \in Nat
    BY AblationAssumption
  <2>2. \A n \in Nat : /\ dip_bytes_per_token(n, FALSE) \in Nat
                       /\ dip_bytes_per_token(n, FALSE) = NumLayers * dense_row_bytes + NumLayers * RowBytes(n)
                       /\ Z = NumLayers * dense_row_bytes
                       /\ dip_bytes_per_token(IntermediateSize, TRUE) = D
    BY TokenBytes
  <2>3. QED
    BY <1>2, <2>1, <2>2
<1>5. call.mode # "dense" => k <= IntermediateSize /\ Dk <= D
  BY <1>1, <1>2, <1>3, <1>4, TokenBytesGrow DEF Measured
<1>6. /\ call.mode = "dense" => B = <<D, 1>>
      /\ call.mode = "dip" => B = <<Dk, 1>>
      /\ call.mode = "cached" => B = <<Z * p + X, p>>
  BY <1>1, <1>4, LayersFinite DEF bytes_per_token
<1>7. /\ row'.call = call /\ row'.bytes = B /\ row'.moved[1] = t /\ row'.moved[2] = p
  BY <1>1
<1> SUFFICES /\ B[1] * p = t * B[2]
             /\ ~ (Dk * B[2] < B[1] * 1) \/ call.mode = "dense"
             /\ ~ (D * B[2] < B[1] * 1)
  <2>1. dip_bytes_per_token(row'.call.k, FALSE) = Dk
    BY <1>7
  <2>2. QED
    BY <1>4, <1>7, <2>1 DEF RowsMatchTransfers, Less
<1>8. CASE call.mode = "dense"
  <2>1. B = <<D, 1>> /\ t = p * D
    BY <1>1, <1>6, <1>8 DEF Measured
  <2> HIDE DEF B, t, D, p, call
  <2>2. B[1] = D /\ B[2] = 1
    BY <2>1
  <2>3. D * p = (p * D) * 1 /\ ~ (D * 1 < D * 1)
    BY <1>3, <1>4
  <2>4. QED
    BY <1>8, <2>1, <2>2, <2>3
<1>9. CASE call.mode = "dip"
  <2>1. B = <<Dk, 1>> /\ t = p * Dk /\ Dk <= D
    BY <1>1, <1>5, <1>6, <1>9 DEF Measured
  <2> HIDE DEF B, t, D, Dk, p, call
  <2>2. B[1] = Dk /\ B[2] = 1
    BY <2>1
  <2>3. Dk \in Nat /\ D \in Nat /\ p \in Nat /\ Dk <= D
    BY <1>3, <1>4, <2>1
  <2>4. Dk * p = (p * Dk) * 1
    BY <2>3
  <2>5. ~ (D * 1 < Dk * 1) /\ ~ (Dk * 1 < Dk * 1)
    BY <2>3
  <2>6. QED
    BY <2>1, <2>2, <2>4, <2>5
<1>10. CASE call.mode = "cached"
  <2>1. /\ B = <<Z * p + X, p>> /\ t = p * Z + X /\ Dk <= D
        /\ \A l \in Layers : miss_bytes[l] \in Nat /\ miss_bytes[l] <= p * RowBytes(k)
    BY <1>1, <1>5, <1>6, <1>10 DEF Measured
  <2> DEFINE R == RowBytes(k)
             M == NumLayers * R
  <2>2. R \in Nat /\ p * R \in Nat /\ NumLayers \in Nat /\ M \in Nat
    <3>1. R \in Nat /\ NumLayers \in Nat
      BY <1>2, BytesOfRows, LayersFinite
    <3> HIDE DEF R
    <3>2. QED
      BY <1>3, <3>1
  <2>3. X \in Nat /\ X <= NumLayers * (p * R)
    BY <2>1, <2>2, SumAtMost
  <2>4. Dk = Z + M
    BY <1>4
  <2> HIDE DEF B, t, D, Dk, p, call, X, Z, R
  <2>5. B[1] = Z * p + X /\ B[2] = p
    BY <2>1
  <2>6. NumLayers * (p * R) = p * M
    BY <1>3, <2>2
  <2> HIDE DEF M
  <2>7. Z * p = p * Z /\ p * Z \in Nat /\ p * M \in Nat
    BY <1>3, <1>4, <2>2
  <2>8. Dk * p = p * Z + p * M
    BY <1>3, <1>4, <2>2, <2>4
  <2>9. D * p >= Dk * p
    BY <1>3, <1>4, <2>1
  <2>10. (p * Z + X) * p = t * p /\ D * p \in Nat
    BY <1>3, <1>4, <2>1
  <2>11. B[1] = p * Z + X /\ B[1] * 1 = p * Z + X
    BY <2>3, <2>5, <2>7
  <2>12. p * Z + X <= Dk * p /\ p * Z + X <= D * p
    BY <2>3, <2>6, <2>7, <2>8, <2>9, <2>10
  <2>13. ~ (Dk * p < p * Z + X) /\ ~ (D * p < p * Z + X)
    <3>1. Dk * p \in Nat /\ p * Z + X \in Nat
      BY <2>3, <2>7, <2>8
    <3>2. QED
      BY <2>10, <2>12, <3>1
  <2>14. QED
    BY <2>5, <2>10, <2>11, <2>13
<1>11. QED
  BY <1>2, <1>8, <1>9, <1>10 DEF Modes

LEMMA TableStays ==
  ASSUME TableInv, [AblationNext]_ablationVars
  PROVE  TableInv'
<1>1. ASSUME todo # <<>>, Return PROVE ToCall(todo)' /\ passes' = 0 /\ (At("measure")' => Head(todo).kind = "warmup")
  BY <1>1, Returns DEF TableInv
<1>2. row' = row => RowsMatchTransfers'
  BY DEF TableInv, RowsMatchTransfers
<1>3. CASE UNCHANGED ablationVars
  BY <1>3 DEF ablationVars, TableInv, ToCall, At, Measured, RowsMatchTransfers
<1>4. CASE RunScript
  <2>1. ProperScript(todo)'
    BY <1>4, ScriptsAreProper DEF RunScript
  <2>2. ToCall(todo)' /\ ~ At("measure")'
    BY <2>1 DEF ProperScript, Opens, At
  <2>3. QED
    BY <1>2, <1>4, <2>2 DEF RunScript, TableInv
<1>5. CASE Calibrate
  <2>1. todo' = todo /\ row' = row /\ Head(todo).kind = "calibrate"
    BY <1>5 DEF Calibrate, At
  <2>2. ToCall(todo)' /\ ~ At("measure")'
    BY <2>1 DEF TableInv, ToCall, At
  <2>3. QED
    BY <1>2, <2>1, <2>2 DEF TableInv
<1>6. CASE EndCalibration
  BY <1>1, <1>2, <1>6 DEF EndCalibration, At, TableInv
<1>7. CASE BuildCaches
  BY <1>1, <1>2, <1>7 DEF BuildCaches, At, TableInv
<1>8. CASE Perplexity
  BY <1>1, <1>2, <1>8 DEF Perplexity, At, TableInv
<1>9. CASE WarmUp
  <2>1. /\ ToCall(todo)' /\ passes' = 0 /\ row' = row /\ miss_bytes' = NoBytes /\ transferred' = 0
    BY <1>1, <1>9 DEF WarmUp, At, Fresh
  <2>2. At("measure")' => Head(todo').k \in Nat
    <3> SUFFICES ASSUME At("measure")' PROVE Head(todo').k \in Nat
      OBVIOUS
    <3>1. PICK S : todo' \in Seq(S)
      BY <2>1 DEF ToCall
    <3>2. todo' # <<>>
      BY DEF At
    <3>3. 1 \in 1 .. Len(todo') /\ Head(todo') = todo'[1]
      BY <3>1, <3>2
    <3>4. QED
      BY <2>1, <3>3 DEF ToCall
  <2>3. At("measure")' => Measured(Head(todo'), 0, 0, NoBytes)
    BY <2>2, NothingMeasured
  <2>4. At("measure")' => Measured(Head(todo'), passes', transferred', miss_bytes')
    BY <2>1, <2>3
  <2>5. QED
    BY <1>2, <2>1, <2>4 DEF TableInv
<1>10. CASE MeasuredPass
  <2>1. Measured(Head(todo), passes', transferred', miss_bytes') /\ todo' = todo /\ row' = row
    BY <1>10, OneMoreToken DEF MeasuredPass
  <2>2. ToCall(todo)'
    BY <2>1 DEF TableInv, ToCall
  <2>3. Measured(Head(todo'), passes', transferred', miss_bytes')
    BY <2>1
  <2>4. QED
    BY <1>2, <2>1, <2>2, <2>3 DEF TableInv
<1>11. CASE AddRow
  BY <1>1, <1>11, RowMatches DEF AddRow, At, TableInv
<1>12. QED
  BY <1>3, <1>4, <1>5, <1>6, <1>7, <1>8, <1>9, <1>10, <1>11 DEF AblationNext

(* For any model, k fractions, cache sizes and selections, what a row says of *)
(* bytes per token is what the measured call moved, and never more than DIP  *)
(* or dense offload would move (bench_m8_ablation.py:169-171,                *)
(* bench_m9_ablation_matrix.py:142-152).                                     *)
THEOREM RowsAreMeasured == Spec => []RowsMatchTransfers
<1>1. Init => TableInv
  BY TableStarts DEF Init
<1>2. TableInv /\ [Next]_vars => TableInv'
  BY ScriptSteps, TableStays
<1>3. TableInv => RowsMatchTransfers
  BY DEF TableInv
<1>4. QED
  BY <1>1, <1>2, <1>3, PTL DEF Spec

-----------------------------------------------------------------------------
(* OverlapReport: intervals *)

Instants == 0 .. Horizon - 1
Span(e) == {t \in Instants : e[1] <= t /\ t < e[2]}
Covered(s) == {t \in Instants : \E i \in 1 .. Len(s) : t \in Span(s[i])}

(* Merged intervals: in order, with time between them.                       *)
Apart(s) ==
  /\ s \in Seq(Intervals)
  /\ \A i, j \in 1 .. Len(s) : i < j => s[i][2] < s[j][1]

LEMMA IntervalType ==
  ASSUME NEW e \in Intervals
  PROVE  /\ e[1] \in Nat /\ e[2] \in Nat /\ e[1] <= e[2] /\ e[2] <= Horizon /\ Horizon \in Nat
         /\ e = <<e[1], e[2]>>
  BY ReportAssumption DEF Intervals

LEMMA IntervalsFinite == IsFiniteSet(Intervals) /\ IsFiniteSet(Instants) /\ Instants \in SUBSET Nat
<1>1. Horizon \in Nat /\ IsFiniteSet(0 .. Horizon) /\ IsFiniteSet(0 .. Horizon - 1)
  BY ReportAssumption, FS_Interval
<1>2. IsFiniteSet((0 .. Horizon) \X (0 .. Horizon))
  BY <1>1, FS_Product
<1>3. Intervals \in SUBSET ((0 .. Horizon) \X (0 .. Horizon))
  BY DEF Intervals
<1>4. QED
  BY <1>1, <1>2, <1>3, FS_Subset DEF Instants

LEMMA TimeBetween ==
  ASSUME NEW a \in Nat, NEW b \in Nat, b <= Horizon
  PROVE  /\ {t \in Instants : a <= t /\ t < b} = a .. b - 1
         /\ IsFiniteSet(a .. b - 1) /\ Cardinality(a .. b - 1) = IF a < b THEN b - a ELSE 0
<1>1. Horizon \in Nat
  BY ReportAssumption
<1>2. \A t : t \in Instants /\ a <= t /\ t < b <=> t \in a .. b - 1
  BY <1>1 DEF Instants
<1>3. IsFiniteSet(a .. b - 1) /\ Cardinality(a .. b - 1) = IF a > b - 1 THEN 0 ELSE (b - 1) - a + 1
  BY FS_Interval
<1>4. QED
  BY <1>2, <1>3

LEMMA SpanCount ==
  ASSUME NEW e \in Intervals
  PROVE  /\ Span(e) \in SUBSET Instants /\ IsFiniteSet(Span(e))
         /\ Cardinality(Span(e)) = e[2] - e[1]
<1>1. e[1] \in Nat /\ e[2] \in Nat /\ e[1] <= e[2] /\ e[2] <= Horizon
  BY IntervalType
<1>2. Span(e) = e[1] .. e[2] - 1 /\ IsFiniteSet(e[1] .. e[2] - 1)
  BY <1>1, TimeBetween DEF Span
<1>3. Cardinality(e[1] .. e[2] - 1) = IF e[1] < e[2] THEN e[2] - e[1] ELSE 0
  BY <1>1, TimeBetween
<1>4. Cardinality(Span(e)) = e[2] - e[1]
  BY <1>1, <1>2, <1>3
<1>5. Span(e) \in SUBSET Instants
  BY DEF Span
<1>6. QED
  BY <1>2, <1>4, <1>5

LEMMA SharedSpan ==
  ASSUME NEW a \in Intervals, NEW b \in Intervals
  PROVE  Cardinality(Span(a) \cap Span(b)) = Max({Min({a[2], b[2]}) - Max({a[1], b[1]}), 0})
<1> DEFINE lo == Max({a[1], b[1]})
           hi == Min({a[2], b[2]})
<1>1. /\ a[1] \in Nat /\ a[2] \in Nat /\ a[2] <= Horizon /\ b[1] \in Nat /\ b[2] \in Nat /\ b[2] <= Horizon
  BY IntervalType
<1>2. lo = (IF a[1] < b[1] THEN b[1] ELSE a[1]) /\ hi = IF a[2] < b[2] THEN a[2] ELSE b[2]
  <2>1. a[1] \in Int /\ b[1] \in Int /\ a[2] \in Int /\ b[2] \in Int
    BY <1>1
  <2>2. \A x, y \in Int : /\ Max({x, y}) = (IF x < y THEN y ELSE x)
                          /\ Min({x, y}) = (IF x < y THEN x ELSE y)
    BY MaxOfTwo
  <2>3. lo = (IF a[1] < b[1] THEN b[1] ELSE a[1])
    BY <2>1, <2>2
  <2>4. hi = (IF a[2] < b[2] THEN a[2] ELSE b[2])
    BY <2>1, <2>2
  <2>5. QED
    BY <2>3, <2>4
<1> HIDE DEF lo, hi
<1>3. lo \in Nat /\ hi \in Nat /\ hi <= Horizon
  BY <1>1, <1>2
<1>4. \A t \in Instants : t \in Span(a) \cap Span(b) <=> lo <= t /\ t < hi
  <2> TAKE t \in Instants
  <2>1. t \in Nat
    BY IntervalsFinite
  <2>2. QED
    BY <1>1, <1>2, <2>1 DEF Span
<1>5. Span(a) \cap Span(b) = {t \in Instants : lo <= t /\ t < hi}
  BY <1>4 DEF Span
<1>6. Cardinality(Span(a) \cap Span(b)) = IF lo < hi THEN hi - lo ELSE 0
  <2>1. {t \in Instants : lo <= t /\ t < hi} = lo .. hi - 1
    BY <1>3, TimeBetween
  <2>2. Cardinality(lo .. hi - 1) = IF lo < hi THEN hi - lo ELSE 0
    BY <1>3, TimeBetween
  <2>3. QED
    BY <1>5, <2>1, <2>2
<1>7. Max({hi - lo, 0}) = IF hi - lo < 0 THEN 0 ELSE hi - lo
  BY <1>3, MaxOfTwo
<1>8. QED
  BY <1>3, <1>6, <1>7 DEF lo, hi

(* Sorted lists intervals in the order of their starts.                      *)
LEMMA SortedLists ==
  ASSUME NEW S \in SUBSET Intervals
  PROVE  /\ Sorted(S) \in Seq(S) /\ Len(Sorted(S)) \in Nat
         /\ DOMAIN Sorted(S) = 1 .. Len(Sorted(S))
         /\ \A j, k \in 1 .. Len(Sorted(S)) : j < k => Sorted(S)[j][1] <= Sorted(S)[k][1]
         /\ \A e \in S : \E k \in 1 .. Len(Sorted(S)) : Sorted(S)[k] = e
<1> DEFINE n == Cardinality(S)
           Upto(e) == {d \in S : Before(d, e)}
           Rank(e) == Cardinality(Upto(e))
           A == Sorted(S)
<1>1. IsFiniteSet(S) /\ n \in Nat
  BY IntervalsFinite, FS_Subset, FS_CardinalityType
<1>2. \A e \in S : /\ Upto(e) \in SUBSET S /\ IsFiniteSet(Upto(e)) /\ Rank(e) \in Nat /\ Rank(e) <= n
                   /\ e \in Upto(e)
  <2> TAKE e \in S
  <2>1. Upto(e) \in SUBSET S
    OBVIOUS
  <2>2. e \in Upto(e)
    <3>1. e[1] \in Nat /\ e[2] \in Nat
      BY IntervalType
    <3>2. QED
      BY <3>1 DEF Before
  <2> HIDE DEF Upto
  <2>3. IsFiniteSet(Upto(e)) /\ Cardinality(Upto(e)) \in Nat /\ Cardinality(Upto(e)) <= n
    BY <1>1, <2>1, FS_Subset, FS_CardinalityType
  <2>4. QED
    BY <2>1, <2>2, <2>3
<1>3. \A e \in S : Rank(e) \in 1 .. n
  <2> TAKE e \in S
  <2>1. Upto(e) # {} /\ IsFiniteSet(Upto(e)) /\ Rank(e) \in Nat /\ Rank(e) <= n
    BY <1>2
  <2> HIDE DEF Upto
  <2>2. Rank(e) # 0
    BY <2>1, FS_EmptySet
  <2>3. QED
    BY <1>1, <2>1, <2>2
<1>4. ASSUME NEW d \in S, NEW e \in S, ~ Before(e, d) PROVE Rank(d) < Rank(e)
  <2>1. d[1] \in Nat /\ d[2] \in Nat /\ e[1] \in Nat /\ e[2] \in Nat
    BY IntervalType
  <2>2. Upto(d) \in SUBSET Upto(e)
    <3> SUFFICES ASSUME NEW x \in S, Before(x, d) PROVE Before(x, e)
      OBVIOUS
    <3>1. x[1] \in Nat /\ x[2] \in Nat
      BY IntervalType
    <3>2. QED
      BY <1>4, <2>1, <3>1 DEF Before
  <2>3. e \in Upto(e) /\ e \notin Upto(d) /\ IsFiniteSet(Upto(e)) /\ Rank(d) \in Nat /\ Rank(e) \in Nat
    BY <1>2, <1>4
  <2> HIDE DEF Upto
  <2>4. Cardinality(Upto(d)) <= Cardinality(Upto(e)) /\ Cardinality(Upto(d)) # Cardinality(Upto(e))
    BY <2>2, <2>3, FS_Subset
  <2>5. QED
    BY <2>3, <2>4
<1>5. ASSUME NEW d \in S, NEW e \in S, Rank(d) = Rank(e) PROVE d = e
  <2>1. Before(d, e) /\ Before(e, d)
    <3>1. Rank(d) \in Nat /\ Rank(e) \in Nat
      BY <1>2
    <3> HIDE DEF Rank
    <3>2. QED
      BY <1>4, <1>5, <3>1
  <2>2. /\ d[1] \in Nat /\ d[2] \in Nat /\ e[1] \in Nat /\ e[2] \in Nat
        /\ d = <<d[1], d[2]>> /\ e = <<e[1], e[2]>>
    BY IntervalType
  <2>3. d[1] = e[1] /\ d[2] = e[2]
    BY <2>1, <2>2 DEF Before
  <2>4. QED
    BY <2>2, <2>3
<1>6. A = [k \in 1 .. n |-> CHOOSE e \in S : Rank(e) = k]
  BY DEF Sorted
<1> HIDE DEF Rank, A, n
<1>7. \A k \in 1 .. n : \E e \in S : Rank(e) = k
  <2> DEFINE f == [e \in S |-> Rank(e)]
  <2>1. f \in [S -> 1 .. n] /\ \A d, e \in S : f[d] = f[e] => d = e
    BY <1>3, <1>5
  <2>2. \A e \in S : f[e] = Rank(e)
    OBVIOUS
  <2> HIDE DEF f
  <2>3. f \in Injection(S, 1 .. n)
    BY <2>1, Fun_IsInj
  <2>4. IsFiniteSet(1 .. n) /\ Cardinality(1 .. n) = n
    <3>1. IsFiniteSet(1 .. n) /\ Cardinality(1 .. n) = IF 1 > n THEN 0 ELSE n - 1 + 1
      BY <1>1, FS_Interval
    <3>2. QED
      BY <1>1, <3>1
  <2>5. f \in Surjection(S, 1 .. n)
    BY <1>1, <2>3, <2>4, FS_Injection DEF n
  <2>6. \A k \in 1 .. n : \E e \in S : f[e] = k
    BY <2>5 DEF Surjection
  <2>7. QED
    BY <2>2, <2>6
<1>8. \A k \in 1 .. n : A[k] \in S /\ Rank(A[k]) = k
  BY <1>6, <1>7
<1>9. A \in Seq(S) /\ Len(A) = n /\ DOMAIN A = 1 .. n
  <2>1. A \in [1 .. n -> S]
    BY <1>6, <1>8
  <2>2. QED
    BY <1>1, <2>1, Tabulated
<1>10. ASSUME NEW j \in 1 .. n, NEW k \in 1 .. n, j < k PROVE A[j][1] <= A[k][1]
  <2>1. A[j] \in S /\ A[k] \in S /\ Rank(A[j]) = j /\ Rank(A[k]) = k
    BY <1>8
  <2>2. Before(A[j], A[k])
    <3>1. ~ Before(A[j], A[k]) => k < j
      BY <1>4, <2>1
    <3>2. ~ (k < j)
      BY <1>1, <1>10
    <3>3. QED
      BY <3>1, <3>2
  <2>3. A[j][1] \in Nat /\ A[k][1] \in Nat
    BY <2>1, IntervalType
  <2>4. QED
    BY <2>2, <2>3 DEF Before
<1>11. ASSUME NEW e \in S PROVE \E k \in 1 .. n : A[k] = e
  BY <1>3, <1>5, <1>8
<1>12. QED
  BY <1>1, <1>9, <1>10, <1>11 DEF A

(* A sequence without its last element.                                      *)
LEMMA Fronts ==
  ASSUME NEW T, NEW s \in Seq(T), s # <<>>
  PROVE  /\ Front(s) \in Seq(T) /\ Len(Front(s)) = Len(s) - 1
         /\ \A i \in 1 .. Len(s) - 1 : Front(s)[i] = s[i]
<1>1. Len(s) \in Nat /\ Len(s) # 0
  OBVIOUS
<1>2. Len(s) - 1 \in Nat /\ 1 .. Len(s) - 1 \in SUBSET (1 .. Len(s))
  BY <1>1
<1>3. \A m \in Nat : 1 .. m \in SUBSET (1 .. Len(s)) =>
        /\ SubSeq(s, 1, m) \in Seq(T) /\ Len(SubSeq(s, 1, m)) = m
        /\ \A i \in 1 .. m : SubSeq(s, 1, m)[i] = s[i]
  OBVIOUS
<1>4. Front(s) = SubSeq(s, 1, Len(s) - 1)
  BY DEF Front
<1>5. QED
  BY <1>2, <1>3, <1>4

(* Folding one interval in.                                                  *)
LEMMA MergesOne ==
  ASSUME NEW m, Apart(m), NEW e \in Intervals, m # <<>> => Last(m)[1] <= e[1]
  PROVE  /\ Apart(MergeOne(m, e)) /\ MergeOne(m, e) # <<>>
         /\ Covered(MergeOne(m, e)) = Covered(m) \cup Span(e)
         /\ Last(MergeOne(m, e))[1] <= e[1]
<1> DEFINE n == Len(m)
           l == m[n]
           r == MergeOne(m, e)
<1>1. /\ m \in Seq(Intervals) /\ n \in Nat /\ (\A i \in 1 .. n : m[i] \in Intervals)
      /\ \A i, j \in 1 .. n : i < j => m[i][2] < m[j][1]
  BY DEF Apart
<1>2. e[1] \in Nat /\ e[2] \in Nat /\ e[1] <= e[2] /\ e[2] <= Horizon
  BY IntervalType
<1>3. \A i \in 1 .. n : /\ m[i][1] \in Nat /\ m[i][2] \in Nat /\ m[i][1] <= m[i][2] /\ m[i][2] <= Horizon
  BY <1>1, IntervalType
<1>4. m # <<>> => n \in 1 .. n /\ n - 1 \in Nat /\ Last(m) = l /\ l[1] <= e[1]
  BY <1>1 DEF Last
<1>5. CASE m # <<>> /\ e[1] <= l[2]
  <2> DEFINE top == Max({l[2], e[2]})
             w == <<l[1], top>>
             f == Front(m)
  <2>0. /\ l[1] \in Nat /\ l[2] \in Nat /\ l[1] <= l[2] /\ l[2] <= Horizon /\ l[1] <= e[1] /\ e[1] <= l[2]
        /\ n \in 1 .. n /\ n - 1 \in Nat
    BY <1>3, <1>4, <1>5
  <2>1. top = IF l[2] < e[2] THEN e[2] ELSE l[2]
    <3>1. l[2] \in Int /\ e[2] \in Int
      BY <1>2, <2>0
    <3>2. QED
      BY <3>1, MaxOfTwo
  <2>2. r = Append(f, w)
    BY <1>4, <1>5 DEF MergeOne
  <2> HIDE DEF top
  <2> HIDE DEF l
  <2>3. w \in Intervals /\ w[1] = l[1] /\ w[2] = top
    <3>1. l[1] \in 0 .. Horizon /\ top \in 0 .. Horizon /\ l[1] <= top
      BY <1>2, <2>0, <2>1, ReportAssumption
    <3> HIDE DEF top
    <3>2. QED
      BY <3>1 DEF Intervals
  <2>4. /\ f \in Seq(Intervals) /\ Len(f) = n - 1 /\ \A i \in 1 .. n - 1 : f[i] = m[i] /\ i \in 1 .. n
    <3>1. /\ f \in Seq(Intervals) /\ Len(f) = n - 1 /\ \A i \in 1 .. n - 1 : f[i] = m[i]
      BY <1>1, <1>5, Fronts
    <3>2. \A i \in 1 .. n - 1 : i \in 1 .. n
      BY <2>0
    <3>3. QED
      BY <3>1, <3>2
  <2> HIDE DEF f, w, r
  <2>5. /\ r \in Seq(Intervals) /\ Len(r) = n /\ r[n] = w /\ \A i \in 1 .. n - 1 : r[i] = m[i]
    <3>1. /\ r \in Seq(Intervals) /\ Len(r) = Len(f) + 1 /\ r[Len(f) + 1] = w
          /\ \A i \in 1 .. Len(f) : r[i] = f[i]
      BY <2>2, <2>3, <2>4, Appended
    <3>2. Len(f) + 1 = n
      BY <1>1, <2>4
    <3>3. QED
      BY <2>4, <3>1, <3>2
  <2>6. ASSUME NEW i \in 1 .. n, NEW j \in 1 .. n, i < j PROVE r[i][2] < r[j][1]
    <3>1. i \in 1 .. n - 1 /\ r[i] = m[i]
      BY <1>1, <2>5, <2>6
    <3>2. r[j][1] = m[j][1]
      <4>1. CASE j = n
        BY <2>3, <2>5, <4>1 DEF l
      <4>2. CASE j # n
        <5>1. j \in 1 .. n - 1
          BY <1>1, <4>2
        <5>2. QED
          BY <2>5, <5>1
      <4>3. QED
        BY <4>1, <4>2
    <3>3. QED
      BY <1>1, <2>6, <3>1, <3>2
  <2>7. \A t \in Instants : t \in Span(w) <=> t \in Span(l) \/ t \in Span(e)
    <3> TAKE t \in Instants
    <3>1. t \in Nat
      BY IntervalsFinite
    <3>2. QED
      BY <1>2, <2>0, <2>1, <2>3, <3>1 DEF Span
  <2>8. Covered(r) = Covered(m) \cup Span(e)
    <3>1. \A i : i \in 1 .. n <=> i \in 1 .. n - 1 \/ i = n
      BY <2>0
    <3>2. \A t \in Instants :
            (\E i \in 1 .. n : t \in Span(r[i])) <=> (\E i \in 1 .. n - 1 : t \in Span(m[i])) \/ t \in Span(w)
      BY <2>5, <3>1
    <3>3. \A t \in Instants :
            (\E i \in 1 .. n : t \in Span(m[i])) <=> (\E i \in 1 .. n - 1 : t \in Span(m[i])) \/ t \in Span(l)
      BY <3>1 DEF l
    <3>4. \A t \in Span(e) : t \in Instants
      BY DEF Span
    <3>5. \A t \in Instants : t \in Covered(r) <=> t \in Covered(m) \/ t \in Span(e)
      BY <2>5, <2>7, <3>2, <3>3 DEF Covered
    <3>6. QED
      BY <3>4, <3>5 DEF Covered
  <2>9. Apart(r) /\ r # <<>> /\ Last(r)[1] <= e[1]
    <3>1. Apart(r)
      BY <2>5, <2>6 DEF Apart
    <3>2. r # <<>>
      BY <2>0, <2>5
    <3>3. QED
      BY <2>0, <2>3, <2>5, <3>1, <3>2 DEF Last
  <2>10. QED
    BY <2>8, <2>9 DEF r
<1>6. CASE ~ (m # <<>> /\ e[1] <= l[2])
  <2>1. r = Append(m, e)
    BY <1>4, <1>6 DEF MergeOne
  <2> HIDE DEF r
  <2>2. /\ r \in Seq(Intervals) /\ Len(r) = n + 1 /\ r[n + 1] = e /\ \A i \in 1 .. n : r[i] = m[i]
    BY <1>1, <2>1, Appended
  <2>3. \A i \in 1 .. n : m[i][2] < e[1]
    <3> TAKE i \in 1 .. n
    <3>1. m # <<>> /\ n \in 1 .. n /\ ~ (e[1] <= l[2]) /\ l[2] \in Nat /\ l[1] <= l[2] /\ l[1] \in Nat
      <4>1. m # <<>>
        BY <1>1
      <4>2. QED
        BY <1>3, <1>4, <1>6, <4>1
    <3>2. m[i][2] <= l[2]
      <4>1. CASE i = n
        BY <3>1, <4>1
      <4>2. CASE i # n
        <5>1. m[i][2] < l[1] /\ m[i][2] \in Nat
          BY <1>1, <1>3, <3>1, <4>2
        <5>2. QED
          BY <3>1, <5>1
      <4>3. QED
        BY <4>1, <4>2
    <3>3. m[i][2] \in Nat
      BY <1>3
    <3>4. QED
      BY <1>2, <3>1, <3>2, <3>3
  <2>4. \A i : i \in 1 .. n + 1 <=> i \in 1 .. n \/ i = n + 1
    BY <1>1
  <2>5. ASSUME NEW i \in 1 .. n + 1, NEW j \in 1 .. n + 1, i < j PROVE r[i][2] < r[j][1]
    <3>1. i \in 1 .. n /\ r[i] = m[i]
      BY <1>1, <2>2, <2>5
    <3>2. CASE j = n + 1
      BY <2>2, <2>3, <3>1, <3>2
    <3>3. CASE j # n + 1
      BY <1>1, <2>2, <2>4, <2>5, <3>1, <3>3
    <3>4. QED
      BY <3>2, <3>3
  <2>6. Covered(r) = Covered(m) \cup Span(e)
    <3>1. \A t \in Instants :
            (\E i \in 1 .. n + 1 : t \in Span(r[i])) <=> (\E i \in 1 .. n : t \in Span(m[i])) \/ t \in Span(e)
      BY <2>2, <2>4
    <3>2. \A t \in Span(e) : t \in Instants
      BY DEF Span
    <3>3. \A t \in Instants : t \in Covered(r) <=> t \in Covered(m) \/ t \in Span(e)
      BY <2>2, <3>1 DEF Covered
    <3>4. QED
      BY <3>2, <3>3 DEF Covered
  <2>7. Apart(r)
    BY <2>2, <2>5 DEF Apart
  <2>8. r # <<>> /\ Last(r) = e
    BY <1>1, <2>2 DEF Last
  <2>9. QED
    BY <1>2, <2>6, <2>7, <2>8 DEF r
<1>7. QED
  BY <1>5, <1>6

(* merge_intervals covers the instants its intervals cover, and no gaps.     *)
LEMMA MergedIntervals ==
  ASSUME NEW S \in SUBSET Intervals
  PROVE  Apart(merge_intervals(S)) /\ Covered(merge_intervals(S)) = Busy(S)
<1> DEFINE A == Sorted(S)
           n == Len(A)
           V == Seq(Intervals)
           Step(m, k) == MergeOne(m, A[k])
           Is(h) == h = [s \in SUBSET (1 .. n) |-> IF s = {} THEN <<>> ELSE Step(h[s \ {Max(s)}], Max(s))]
           fold == CHOOSE h : Is(h)
           Good(m, k) == /\ Apart(m)
                         /\ Covered(m) = {t \in Instants : \E j \in 1 .. k : t \in Span(A[j])}
                         /\ m # <<>> => k \in 1 .. n /\ Last(m)[1] <= A[k][1]
           T == {k \in Nat : k <= n => Good(fold[1 .. k], k)}
<1>1. /\ n \in Nat /\ DOMAIN A = 1 .. n /\ \A k \in 1 .. n : A[k] \in S /\ A[k] \in Intervals
      /\ \A j, k \in 1 .. n : j < k => A[j][1] <= A[k][1]
      /\ \A e \in S : \E k \in 1 .. n : A[k] = e
  BY SortedLists
<1>2. merge_intervals(S) = fold[1 .. n]
  BY <1>1 DEF merge_intervals, FoldLeft, MapThenFoldSet
<1> HIDE DEF A, n
<1>3. \A k \in 1 .. n, m \in V : Step(m, k) \in V
  <2> TAKE k \in 1 .. n, m \in V
  <2> DEFINE e == A[k]
             w == <<Last(m)[1], Max({Last(m)[2], e[2]})>>
  <2>1. e \in Intervals
    BY <1>1
  <2>2. CASE m # <<>> /\ e[1] <= Last(m)[2]
    <3>1. Last(m) \in Intervals
      BY <2>2 DEF Last
    <3> HIDE DEF e
    <3>2. w \in Intervals
      <4> DEFINE l == Last(m)
                 top == Max({l[2], e[2]})
      <4>1. /\ l[1] \in Nat /\ l[2] \in Nat /\ l[1] <= l[2] /\ l[2] <= Horizon /\ Horizon \in Nat
            /\ e[2] \in Nat /\ e[2] <= Horizon
        BY <2>1, <3>1, IntervalType
      <4> HIDE DEF l
      <4>2. top = IF l[2] < e[2] THEN e[2] ELSE l[2]
        BY <4>1, MaxOfTwo
      <4> HIDE DEF top
      <4>3. l[1] \in 0 .. Horizon /\ top \in 0 .. Horizon /\ l[1] <= top
        BY <4>1, <4>2
      <4>4. <<l[1], top>> \in Intervals
        BY <4>3 DEF Intervals
      <4>5. QED
        BY <4>4 DEF l, top
    <3>3. Front(m) \in V
      BY <2>2, Fronts
    <3>4. Step(m, k) = Append(Front(m), w)
      BY <2>2 DEF MergeOne, e
    <3> HIDE DEF w, Step
    <3>5. QED
      BY <3>2, <3>3, <3>4
  <2>3. CASE ~ (m # <<>> /\ e[1] <= Last(m)[2])
    <3>1. Step(m, k) = Append(m, e)
      BY <2>3 DEF MergeOne
    <3>2. QED
      BY <2>1, <3>1
  <2>4. QED
    BY <2>2, <2>3
<1>4. <<>> \in V
  OBVIOUS
<1> HIDE DEF Step, V
<1>5. Is(fold)
  <2> DEFINE g == [p \in V \X (1 .. n) |-> Step(p[1], p[2])]
  <2>1. g \in [V \X (1 .. n) -> V]
    BY <1>3
  <2> HIDE DEF g
  <2>2. Folded(n, V, <<>>, g)
    BY <1>1, <1>4, <2>1, FoldsExist
  <2>3. PICK h \in [SUBSET (1 .. n) -> V] :
          \A s \in SUBSET (1 .. n) : h[s] = FoldStep(<<>>, g, h, s)
    BY <2>2 DEF Folded
  <2>4. ASSUME NEW s \in SUBSET (1 .. n)
        PROVE  h[s] = IF s = {} THEN <<>> ELSE Step(h[s \ {Max(s)}], Max(s))
    <3>1. CASE s = {}
      BY <2>3, <3>1 DEF FoldStep
    <3>2. CASE s # {}
      <4>1. Max(s) \in 1 .. n /\ h[s \ {Max(s)}] \in V
        BY <1>1, <2>3, <3>2, MaxOfPositions
      <4>2. h[s] = g[<<h[s \ {Max(s)}], Max(s)>>]
        BY <2>3, <3>2 DEF FoldStep
      <4>3. QED
        BY <3>2, <4>1, <4>2 DEF g
    <3>3. QED
      BY <3>1, <3>2
  <2>5. Is(h)
    BY <2>3, <2>4
  <2>6. QED
    BY <2>5
<1>6. 0 \in T
  <2>1. fold[1 .. 0] = <<>>
    <3>1. 1 .. 0 = {} /\ {} \in SUBSET (1 .. n)
      OBVIOUS
    <3> HIDE DEF fold
    <3>2. QED
      BY <1>5, <3>1
  <2>2. Apart(<<>>)
    BY DEF Apart
  <2>3. Covered(<<>>) = {}
    BY DEF Covered
  <2>4. {t \in Instants : \E j \in 1 .. 0 : t \in Span(A[j])} = {}
    OBVIOUS
  <2> HIDE DEF fold
  <2>5. QED
    BY <2>1, <2>2, <2>3, <2>4
<1>7. ASSUME NEW k \in Nat, k \in T PROVE k + 1 \in T
  <2> DEFINE p == k + 1
             m == fold[1 .. k]
             e == A[p]
  <2> SUFFICES ASSUME p <= n PROVE Good(fold[1 .. p], p)
    <3> HIDE DEF Good, fold
    <3>1. p \in Nat
      OBVIOUS
    <3>2. QED
      BY <3>1
  <2>1. k \in 0 .. n - 1 /\ p \in 1 .. n /\ k <= n
    BY <1>1
  <2>2. fold[1 .. p] = Step(m, p)
    <3>1. /\ 1 .. k + 1 \in SUBSET (1 .. n) /\ 1 .. k + 1 # {}
          /\ Max(1 .. k + 1) = k + 1 /\ (1 .. k + 1) \ {k + 1} = 1 .. k
      BY <1>1, <2>1, PrefixOfPositions
    <3> HIDE DEF fold
    <3>2. QED
      BY <1>5, <3>1
  <2>3. Good(m, k)
    BY <1>7, <2>1
  <2>4. \A j : j \in 1 .. p <=> j \in 1 .. k \/ j = p
    OBVIOUS
  <2>5. e \in Intervals
    BY <1>1, <2>1
  <2>6. m # <<>> => Last(m)[1] <= e[1]
    <3> SUFFICES ASSUME m # <<>> PROVE Last(m)[1] <= e[1]
      OBVIOUS
    <3> HIDE DEF fold
    <3>1. k \in 1 .. n /\ Last(m)[1] <= A[k][1] /\ m \in Seq(Intervals)
      BY <2>3 DEF Apart
    <3>2. A[k][1] <= e[1]
      <4>1. k < p
        OBVIOUS
      <4>2. QED
        BY <1>1, <2>1, <3>1, <4>1
    <3>3. Last(m) \in Intervals /\ A[k] \in Intervals
      <4> HIDE DEF m
      <4>1. Last(m) \in Intervals
        BY <3>1 DEF Last
      <4>2. QED
        BY <1>1, <3>1, <4>1
    <3>4. Last(m)[1] \in Nat /\ A[k][1] \in Nat /\ e[1] \in Nat
      BY <2>5, <3>3, IntervalType
    <3>5. QED
      BY <3>1, <3>2, <3>4
  <2> HIDE DEF m, e, fold
  <2>7. /\ Apart(MergeOne(m, e)) /\ MergeOne(m, e) # <<>>
        /\ Covered(MergeOne(m, e)) = Covered(m) \cup Span(e)
        /\ Last(MergeOne(m, e))[1] <= e[1]
    BY <2>3, <2>5, <2>6, MergesOne
  <2>8. Step(m, p) = MergeOne(m, e)
    BY DEF Step, e
  <2>9. Covered(m) \cup Span(e) = {t \in Instants : \E j \in 1 .. p : t \in Span(A[j])}
    <3>1. Covered(m) = {t \in Instants : \E j \in 1 .. k : t \in Span(A[j])}
      BY <2>3
    <3>2. \A t \in Span(e) : t \in Instants
      BY DEF Span
    <3> HIDE DEF p
    <3>3. QED
      BY <2>4, <3>1, <3>2 DEF e
  <2> HIDE DEF p
  <2>10. QED
    BY <2>1, <2>2, <2>7, <2>8, <2>9 DEF e
<1> HIDE DEF T
<1>8. n \in T
  BY <1>1, <1>6, <1>7, SetInduction
<1> HIDE DEF fold
<1>9. Good(fold[1 .. n], n)
  <2>1. n <= n
    BY <1>1
  <2>2. QED
    BY <1>8, <2>1 DEF T
<1>10. {t \in Instants : \E j \in 1 .. n : t \in Span(A[j])} = Busy(S)
  <2>1. \A t \in Instants : (\E j \in 1 .. n : t \in Span(A[j])) <=> \E e \in S : t \in Span(e)
    BY <1>1
  <2>2. QED
    BY <2>1 DEF Busy, Span, Instants
<1>11. QED
  BY <1>2, <1>9, <1>10

LEMMA CoveredFinite ==
  ASSUME NEW s
  PROVE  Covered(s) \in SUBSET Instants /\ IsFiniteSet(Covered(s)) /\ Cardinality(Covered(s)) \in Nat
<1>1. Covered(s) \in SUBSET Instants
  BY DEF Covered
<1>2. QED
  BY <1>1, IntervalsFinite, FS_Subset, FS_CardinalityType

(* The durations of intervals apart add up to the instants they cover.       *)
LEMMA DurationsCount ==
  ASSUME NEW m, Apart(m)
  PROVE  total_duration(m) = Cardinality(Covered(m))
<1> DEFINE n == Len(m)
           Longer(d, k) == d + m[k][2] - m[k][1]
           g == [p \in Int \X (1 .. n) |-> Longer(p[1], p[2])]
           Is(h) == h = [s \in SUBSET (1 .. n) |-> IF s = {} THEN 0 ELSE Longer(h[s \ {Max(s)}], Max(s))]
           fold == CHOOSE h : Is(h)
           Upto(k) == {t \in Instants : \E j \in 1 .. k : t \in Span(m[j])}
           T == {k \in Nat : k <= n => fold[1 .. k] = Cardinality(Upto(k))}
<1>1. /\ n \in Nat /\ DOMAIN m = 1 .. n /\ \A k \in 1 .. n : m[k] \in Intervals
      /\ \A i, j \in 1 .. n : i < j => m[i][2] < m[j][1]
  BY DEF Apart
<1>2. total_duration(m) = fold[1 .. n]
  BY <1>1 DEF total_duration, FoldLeft, MapThenFoldSet
<1> HIDE DEF n
<1>3. \A k \in 1 .. n : m[k][1] \in Nat /\ m[k][2] \in Nat /\ m[k][1] <= m[k][2]
  BY <1>1, IntervalType
<1>4. \A k \in 1 .. n, d \in Int : Longer(d, k) \in Int
  BY <1>3
<1> HIDE DEF Longer
<1>5. Is(fold)
  <2>1. g \in [Int \X (1 .. n) -> Int]
    BY <1>4
  <2> HIDE DEF g
  <2>2. Folded(n, Int, 0, g)
    <3>1. 0 \in Int
      OBVIOUS
    <3>2. QED
      BY <1>1, <2>1, <3>1, FoldsExist
  <2>3. PICK h \in [SUBSET (1 .. n) -> Int] :
          \A s \in SUBSET (1 .. n) : h[s] = FoldStep(0, g, h, s)
    BY <2>2 DEF Folded
  <2>4. ASSUME NEW s \in SUBSET (1 .. n)
        PROVE  h[s] = IF s = {} THEN 0 ELSE Longer(h[s \ {Max(s)}], Max(s))
    <3>1. CASE s = {}
      BY <2>3, <3>1 DEF FoldStep
    <3>2. CASE s # {}
      <4>1. Max(s) \in 1 .. n /\ h[s \ {Max(s)}] \in Int
        BY <1>1, <2>3, <3>2, MaxOfPositions
      <4>2. h[s] = g[<<h[s \ {Max(s)}], Max(s)>>]
        BY <2>3, <3>2 DEF FoldStep
      <4>3. QED
        BY <3>2, <4>1, <4>2 DEF g
    <3>3. QED
      BY <3>1, <3>2
  <2>5. Is(h)
    BY <2>3, <2>4
  <2>6. QED
    BY <2>5
<1>6. \A k \in Nat : IsFiniteSet(Upto(k)) /\ Cardinality(Upto(k)) \in Nat
  <2> TAKE k \in Nat
  <2>1. Upto(k) \in SUBSET Instants
    OBVIOUS
  <2> HIDE DEF Upto
  <2>2. QED
    BY <2>1, IntervalsFinite, FS_Subset, FS_CardinalityType
<1>7. 0 \in T
  <2>1. fold[1 .. 0] = 0
    <3>1. 1 .. 0 = {} /\ {} \in SUBSET (1 .. n)
      OBVIOUS
    <3> HIDE DEF fold
    <3>2. QED
      BY <1>5, <3>1
  <2>2. Upto(0) = {}
    OBVIOUS
  <2> HIDE DEF fold, Upto
  <2>3. QED
    BY <2>1, <2>2, FS_EmptySet
<1>8. ASSUME NEW k \in Nat, k \in T PROVE k + 1 \in T
  <2> DEFINE p == k + 1
  <2> SUFFICES ASSUME p <= n PROVE fold[1 .. p] = Cardinality(Upto(p))
    <3> HIDE DEF fold, Upto
    <3>1. p \in Nat
      OBVIOUS
    <3>2. QED
      BY <3>1
  <2>1. k \in 0 .. n - 1 /\ p \in 1 .. n /\ k <= n
    BY <1>1
  <2>2. fold[1 .. p] = Longer(fold[1 .. k], p)
    <3>1. /\ 1 .. k + 1 \in SUBSET (1 .. n) /\ 1 .. k + 1 # {}
          /\ Max(1 .. k + 1) = k + 1 /\ (1 .. k + 1) \ {k + 1} = 1 .. k
      BY <1>1, <2>1, PrefixOfPositions
    <3> HIDE DEF fold
    <3>2. QED
      BY <1>5, <3>1
  <2>3. fold[1 .. k] = Cardinality(Upto(k))
    BY <1>8, <2>1
  <2>4. \A j : j \in 1 .. p <=> j \in 1 .. k \/ j = p
    OBVIOUS
  <2>5. \A j \in 1 .. k : j \in 1 .. n /\ j < p
    BY <1>1, <2>1
  <2> HIDE DEF p, fold
  <2>6. Upto(p) = Upto(k) \cup Span(m[p])
    <3>1. \A t \in Span(m[p]) : t \in Instants
      BY DEF Span
    <3>2. QED
      BY <2>4, <3>1
  <2>7. Upto(k) \cap Span(m[p]) = {}
    <3> SUFFICES ASSUME NEW t \in Instants, NEW j \in 1 .. k, t \in Span(m[j]), t \in Span(m[p])
                 PROVE  FALSE
      OBVIOUS
    <3>1. t \in Nat
      BY IntervalsFinite
    <3>2. m[j][2] < m[p][1] /\ m[j][2] \in Nat /\ m[p][1] \in Nat
      BY <1>1, <1>3, <2>1, <2>5
    <3>3. t < m[j][2] /\ m[p][1] <= t
      BY DEF Span
    <3>4. QED
      BY <3>1, <3>2, <3>3
  <2>8. /\ IsFiniteSet(Span(m[p])) /\ Cardinality(Span(m[p])) = m[p][2] - m[p][1]
        /\ m[p][2] \in Nat /\ m[p][1] \in Nat
    BY <1>1, <1>3, <2>1, SpanCount
  <2>9. IsFiniteSet(Upto(k)) /\ Cardinality(Upto(k)) \in Nat
    BY <1>6
  <2> HIDE DEF Upto
  <2>10. /\ Cardinality(Upto(p)) = Cardinality(Upto(k)) + Cardinality(Span(m[p])) - Cardinality({})
         /\ Cardinality({}) = 0
    BY <2>6, <2>7, <2>8, <2>9, FS_Union, FS_EmptySet
  <2>11. Longer(fold[1 .. k], p) = fold[1 .. k] + m[p][2] - m[p][1]
    BY DEF Longer
  <2>12. QED
    BY <2>2, <2>3, <2>8, <2>9, <2>10, <2>11
<1> HIDE DEF T
<1>9. n \in T
  BY <1>1, <1>7, <1>8, SetInduction
<1> HIDE DEF fold
<1>10. Upto(n) = Covered(m)
  BY DEF Covered, n
<1> HIDE DEF Upto
<1>11. QED
  <2>1. n <= n
    BY <1>1
  <2>2. QED
    BY <1>2, <1>9, <1>10, <2>1 DEF T

(* Passing the first interval.                                               *)
LEMMA Passed ==
  ASSUME NEW s, Apart(s), s # <<>>
  PROVE  /\ Head(s) \in Intervals /\ Apart(Tail(s))
         /\ Covered(s) = Span(Head(s)) \cup Covered(Tail(s))
         /\ \A t \in Covered(Tail(s)) : Head(s)[2] <= t
<1> DEFINE n == Len(s)
           h == Head(s)
           r == Tail(s)
<1>1. /\ s \in Seq(Intervals) /\ n \in Nat /\ n # 0 /\ (\A i \in 1 .. n : s[i] \in Intervals)
      /\ \A i, j \in 1 .. n : i < j => s[i][2] < s[j][1]
  BY DEF Apart
<1>2. /\ h = s[1] /\ h \in Intervals /\ r \in Seq(Intervals) /\ Len(r) = n - 1
      /\ \A i \in 1 .. n - 1 : r[i] = s[i + 1]
  BY <1>1
<1> HIDE DEF n, h, r
<1>3. \A i \in 1 .. n - 1 : i + 1 \in 1 .. n /\ 1 \in 1 .. n /\ 1 < i + 1
  BY <1>1
<1>4. Apart(r)
  <2> SUFFICES ASSUME NEW i \in 1 .. n - 1, NEW j \in 1 .. n - 1, i < j PROVE r[i][2] < r[j][1]
    BY <1>2 DEF Apart
  <2>1. i + 1 < j + 1
    OBVIOUS
  <2>2. QED
    BY <1>1, <1>2, <1>3, <2>1
<1>5. Covered(s) = Span(h) \cup Covered(r)
  <2>1. \A i : i \in 1 .. n <=> i = 1 \/ \E j \in 1 .. n - 1 : i = j + 1
    <3>1. ASSUME NEW i \in 1 .. n, i # 1 PROVE \E j \in 1 .. n - 1 : i = j + 1
      <4>1. i - 1 \in 1 .. n - 1 /\ i = (i - 1) + 1
        BY <1>1, <3>1
      <4>2. QED
        BY <4>1
    <3>2. 1 \in 1 .. n
      BY <1>1
    <3>3. QED
      BY <1>3, <3>1, <3>2
  <2>2. \A t \in Instants : (\E i \in 1 .. n : t \in Span(s[i])) <=> t \in Span(h) \/ \E j \in 1 .. n - 1 : t \in Span(r[j])
    BY <1>2, <2>1
  <2>3. \A t \in Span(h) : t \in Instants
    BY DEF Span
  <2>4. QED
    BY <1>2, <2>2, <2>3 DEF Covered, n
<1>6. ASSUME NEW t \in Covered(r) PROVE h[2] <= t
  <2>1. PICK j \in 1 .. n - 1 : t \in Instants /\ t \in Span(s[j + 1])
    BY <1>2 DEF Covered
  <2>2. s[1][2] < s[j + 1][1]
    BY <1>1, <1>3
  <2>3. s[1][2] \in Nat /\ s[j + 1][1] \in Nat /\ t \in Nat
    <3>1. s[1] \in Intervals /\ s[j + 1] \in Intervals
      BY <1>1, <1>3
    <3>2. QED
      BY <2>1, <3>1, IntervalType, IntervalsFinite
  <2>4. s[j + 1][1] <= t
    BY <2>1 DEF Span
  <2>5. QED
    BY <1>2, <2>2, <2>3, <2>4
<1>7. QED
  BY <1>2, <1>4, <1>5, <1>6 DEF h, r

(* A turn of the loop counts what the first intervals share, and what it     *)
(* passes shares nothing more.                                               *)
LEMMA TurnCounts ==
  ASSUME NEW s, Apart(s), s # <<>>, NEW u, Apart(u), u # <<>>, Head(s)[2] <= Head(u)[2]
  PROVE  Cardinality(Covered(s) \cap Covered(u))
           = Cardinality(Span(Head(s)) \cap Span(Head(u))) + Cardinality(Covered(Tail(s)) \cap Covered(u))
<1> DEFINE a == Head(s)
           b == Head(u)
           Both == Span(a) \cap Span(b)
           Rest == Covered(Tail(s)) \cap Covered(u)
<1>1. /\ a \in Intervals /\ Covered(s) = Span(a) \cup Covered(Tail(s))
      /\ \A t \in Covered(Tail(s)) : a[2] <= t
  BY Passed
<1>2. /\ b \in Intervals /\ Covered(u) = Span(b) \cup Covered(Tail(u))
      /\ \A t \in Covered(Tail(u)) : b[2] <= t
  BY Passed
<1>3. a[2] \in Nat /\ b[2] \in Nat /\ a[2] <= b[2]
  BY <1>1, <1>2, IntervalType
<1>4. \A t \in Span(a) : t \in Nat /\ t < a[2]
  BY IntervalsFinite DEF Span
<1> HIDE DEF a, b
<1>5. Span(a) \cap Covered(Tail(u)) = {}
  BY <1>2, <1>3, <1>4
<1>6. Covered(s) \cap Covered(u) = Both \cup Rest
  BY <1>1, <1>2, <1>5
<1>7. Both \cap Rest = {}
  <2>1. \A t \in Both : t \in Nat /\ t < a[2]
    BY <1>4
  <2>2. \A t \in Rest : a[2] <= t
    BY <1>1
  <2> HIDE DEF Both, Rest
  <2>3. QED
    BY <1>3, <2>1, <2>2
<1>8. IsFiniteSet(Both) /\ IsFiniteSet(Rest)
  <2>1. IsFiniteSet(Span(a)) /\ IsFiniteSet(Covered(Tail(s)))
    BY <1>1, SpanCount, CoveredFinite
  <2>2. QED
    BY <2>1, FS_Intersection
<1> HIDE DEF Both, Rest
<1>9. /\ Cardinality(Both \cup Rest) = Cardinality(Both) + Cardinality(Rest) - Cardinality({})
      /\ Cardinality({}) = 0 /\ Cardinality(Both) \in Nat /\ Cardinality(Rest) \in Nat
  <2>1. Cardinality(Both) \in Nat /\ Cardinality(Rest) \in Nat
    BY <1>8, FS_CardinalityType
  <2>2. Cardinality(Both \cup Rest) = Cardinality(Both) + Cardinality(Rest) - Cardinality(Both \cap Rest)
    BY <1>8, FS_Union
  <2>3. QED
    BY <1>7, <2>1, <2>2, FS_EmptySet
<1>10. Cardinality(Covered(s) \cap Covered(u)) = Cardinality(Both) + Cardinality(Rest)
  <2>1. Cardinality(Both \cup Rest) = Cardinality(Both) + Cardinality(Rest)
    BY <1>9
  <2>2. QED
    BY <1>6, <2>1
<1>11. QED
  BY <1>10 DEF Both, Rest, a, b

LEMMA BusyParts ==
  ASSUME NEW A, NEW B
  PROVE  /\ Busy(A) \in SUBSET Instants /\ IsFiniteSet(Busy(A)) /\ Cardinality(Busy(A)) \in Nat
         /\ Busy(A \cup B) = Busy(A) \cup Busy(B)
<1>1. Busy(A) \in SUBSET Instants
  BY DEF Busy, Instants
<1>2. IsFiniteSet(Busy(A)) /\ Cardinality(Busy(A)) \in Nat
  BY <1>1, IntervalsFinite, FS_Subset, FS_CardinalityType
<1>3. QED
  BY <1>1, <1>2 DEF Busy

(* The first and the last of some times.                                     *)
LEMMA OutermostTimes ==
  ASSUME NEW M \in SUBSET (0 .. Horizon), M # {}
  PROVE  /\ Min(M) \in M /\ \A t \in M : Min(M) <= t
         /\ Max(M) \in M /\ \A t \in M : t <= Max(M)
<1>1. Horizon \in Nat /\ M \in SUBSET Nat
  BY ReportAssumption
<1>2. \E m \in M : \A t \in M : m <= t
  BY <1>1, LeastElement
<1>3. Min(M) \in M /\ \A t \in M : Min(M) <= t
  BY <1>2 DEF Min
<1> DEFINE Left == {Horizon - t : t \in M}
<1>4. Left \in SUBSET Nat /\ Left # {}
  <2>1. \A t \in M : Horizon - t \in Nat
    BY <1>1
  <2>2. QED
    BY <2>1
<1>5. PICK d \in Left : \A x \in Left : d <= x
  BY <1>4, LeastElement
<1>6. PICK m \in M : d = Horizon - m
  BY <1>5
<1>7. \A t \in M : m >= t
  <2> TAKE t \in M
  <2>1. Horizon - m <= Horizon - t /\ m \in Nat /\ t \in Nat
    BY <1>1, <1>5, <1>6
  <2>2. QED
    BY <1>1, <2>1
<1>8. Max(M) \in M /\ \A t \in M : Max(M) >= t
  BY <1>7 DEF Max
<1>9. \A t \in M : Max(M) \in Nat /\ t \in Nat
  BY <1>1, <1>8
<1>10. QED
  BY <1>3, <1>8, <1>9

(* The figures of two sets of events, once the overlap is that of the        *)
(* instants both cover.                                                      *)
LEMMA FiguresExact ==
  ASSUME NEW A \in SUBSET Intervals, NEW B \in SUBSET Intervals, A \cup B # {}, NEW o,
         o = Cardinality(Busy(A) \cap Busy(B))
  PROVE  LET a == total_duration(merge_intervals(A))
             b == total_duration(merge_intervals(B))
             first == Min({e[1] : e \in A \cup B})
             last == Max({e[2] : e \in A \cup B})
         IN  /\ a = Cardinality(Busy(A)) /\ b = Cardinality(Busy(B))
             /\ (last - first) - a - b + o = Cardinality((first .. last - 1) \ Busy(A \cup B))
             /\ o <= Min({a, b})
<1> DEFINE a == total_duration(merge_intervals(A))
           b == total_duration(merge_intervals(B))
           Starts == {e[1] : e \in A \cup B}
           Ends == {e[2] : e \in A \cup B}
           first == Min(Starts)
           last == Max(Ends)
           All == Busy(A \cup B)
           Shared == Busy(A) \cap Busy(B)
<1>1. /\ a = Cardinality(Busy(A)) /\ b = Cardinality(Busy(B))
      /\ IsFiniteSet(Busy(A)) /\ IsFiniteSet(Busy(B)) /\ a \in Nat /\ b \in Nat
  <2>1. Apart(merge_intervals(A)) /\ Covered(merge_intervals(A)) = Busy(A)
    BY MergedIntervals
  <2>2. Apart(merge_intervals(B)) /\ Covered(merge_intervals(B)) = Busy(B)
    BY MergedIntervals
  <2>3. a = Cardinality(Busy(A)) /\ b = Cardinality(Busy(B))
    BY <2>1, <2>2, DurationsCount
  <2>4. QED
    BY <2>3, BusyParts
<1> HIDE DEF a, b
<1>2. o \in Nat /\ o <= a /\ o <= b
  <2>1. IsFiniteSet(Shared) /\ Cardinality(Shared) <= Cardinality(Busy(A)) /\ Cardinality(Shared) <= Cardinality(Busy(B))
    BY <1>1, FS_Intersection
  <2>2. Cardinality(Shared) \in Nat
    BY <2>1, FS_CardinalityType
  <2>3. QED
    BY <1>1, <2>1, <2>2
<1>3. IsFiniteSet(All) /\ Cardinality(All) = a + b - o
  <2>1. All = Busy(A) \cup Busy(B)
    BY BusyParts
  <2>2. /\ IsFiniteSet(Busy(A) \cup Busy(B))
        /\ Cardinality(Busy(A) \cup Busy(B)) = Cardinality(Busy(A)) + Cardinality(Busy(B)) - Cardinality(Shared)
    BY <1>1, FS_Union
  <2> HIDE DEF All
  <2>3. QED
    BY <1>1, <2>1, <2>2
<1>4. \A e \in A \cup B : /\ e[1] \in 0 .. Horizon /\ e[2] \in 0 .. Horizon
                         /\ e[1] \in Nat /\ e[2] \in Nat /\ e[1] <= e[2]
  BY DEF Intervals
<1>5. PICK x : x \in A \cup B
  OBVIOUS
<1>6. /\ first \in Starts /\ \A t \in Starts : first <= t
      /\ last \in Ends /\ \A t \in Ends : t <= last
  <2>1. Starts \in SUBSET (0 .. Horizon) /\ Ends \in SUBSET (0 .. Horizon) /\ Starts # {} /\ Ends # {}
    BY <1>4, <1>5
  <2> HIDE DEF Starts, Ends
  <2>2. QED
    BY <2>1, OutermostTimes
<1> HIDE DEF first, last
<1>7. first \in Nat /\ last \in Nat /\ first <= last
  <2>1. first \in Nat /\ last \in Nat
    BY <1>4, <1>6
  <2>2. first <= x[1] /\ x[2] <= last /\ x[1] \in Nat /\ x[2] \in Nat /\ x[1] <= x[2]
    BY <1>4, <1>5, <1>6
  <2>3. QED
    BY <2>1, <2>2
<1>8. All \in SUBSET (first .. last - 1)
  <2> SUFFICES ASSUME NEW t \in Instants, NEW e \in A \cup B, e[1] <= t, t < e[2] PROVE t \in first .. last - 1
    BY DEF Busy, Instants
  <2>1. t \in Nat
    BY IntervalsFinite
  <2>2. first <= e[1] /\ e[2] <= last /\ e[1] \in Nat /\ e[2] \in Nat
    BY <1>4, <1>6
  <2>3. QED
    BY <1>7, <2>1, <2>2
<1> DEFINE Wall == first .. last - 1
<1>9. IsFiniteSet(Wall) /\ Cardinality(Wall) = last - first
  <2>1. IsFiniteSet(Wall) /\ Cardinality(Wall) = IF first > last - 1 THEN 0 ELSE (last - 1) - first + 1
    BY <1>7, FS_Interval
  <2>2. QED
    BY <1>7, <2>1
<1> HIDE DEF Wall, All
<1>10. Cardinality(Wall \ All) = (last - first) - (a + b - o)
  <2>1. Wall \cap All = All
    BY <1>8 DEF Wall
  <2>2. Cardinality(Wall \ All) = Cardinality(Wall) - Cardinality(Wall \cap All)
    BY <1>9, FS_Difference
  <2>3. QED
    BY <1>3, <1>9, <2>1, <2>2
<1>11. (last - first) - a - b + o = Cardinality(Wall \ All)
  BY <1>1, <1>2, <1>7, <1>10
<1>12. o <= Min({a, b})
  <2>1. Min({a, b}) = IF a < b THEN a ELSE b
    BY <1>1, MaxOfTwo
  <2>2. QED
    BY <1>2, <2>1
<1>13. QED
  BY <1>1, <1>11, <1>12 DEF a, b, first, last, Starts, Ends, Wall, All

(* What is counted and what is left make the instants both cover.            *)
ReportInv ==
  /\ copy_events \in SUBSET Intervals /\ compute_events \in SUBSET Intervals
  /\ Apart(left_copy) /\ Apart(left_compute)
  /\ overlap \in Nat
  /\ overlap + Cardinality(Covered(left_copy) \cap Covered(left_compute))
       = Cardinality(Busy(copy_events) \cap Busy(compute_events))
  /\ report # <<>> => copy_events \cup compute_events # {}
  /\ OverlapExact

LEMMA ReportStart == ReportInit => ReportInv
<1> SUFFICES ASSUME ReportInit PROVE ReportInv
  OBVIOUS
<1>1. /\ copy_events = {} /\ compute_events = {}
      /\ left_copy = <<>> /\ left_compute = <<>> /\ overlap = 0 /\ report = <<>>
  BY DEF ReportInit
<1>2. Apart(<<>>) /\ Covered(<<>>) = {} /\ Busy({}) = {}
  BY DEF Apart, Covered, Busy
<1>3. Cardinality({}) = 0 /\ {} \cap {} = {}
  BY FS_EmptySet
<1>4. overlap + Cardinality(Covered(left_copy) \cap Covered(left_compute))
        = Cardinality(Busy(copy_events) \cap Busy(compute_events))
  <2>1. Covered(left_copy) \cap Covered(left_compute) = {} /\ Busy(copy_events) \cap Busy(compute_events) = {}
    BY <1>1, <1>2
  <2>2. Cardinality(Covered(left_copy) \cap Covered(left_compute)) = 0
    BY ONLY <1>3, <2>1
  <2>3. Cardinality(Busy(copy_events) \cap Busy(compute_events)) = 0
    BY ONLY <1>3, <2>1
  <2>4. overlap = 0
    BY <1>1
  <2>5. QED
    BY ONLY <2>2, <2>3, <2>4
<1>5. OverlapExact
  BY <1>1 DEF OverlapExact
<1>6. Apart(left_copy) /\ Apart(left_compute) /\ overlap \in Nat
  BY <1>1, <1>2
<1>7. QED
  BY <1>1, <1>4, <1>5, <1>6 DEF ReportInv

LEMMA SharedInstants ==
  ASSUME NEW s, NEW u
  PROVE  /\ Cardinality(Covered(s) \cap Covered(u)) \in Nat
         /\ Covered(s) \cap Covered(u) = Covered(u) \cap Covered(s)
<1>1. IsFiniteSet(Covered(s) \cap Covered(u))
  BY CoveredFinite, FS_Intersection
<1>2. QED
  BY <1>1, FS_CardinalityType

LEMMA ReportStays ==
  ASSUME ReportInv, [ReportNext]_reportVars
  PROVE  ReportInv'
<1> USE DEF ReportInv
<1>1. CASE ReadTrace
  <2>1. copy_events = {} /\ compute_events = {} /\ overlap' = overlap /\ report' = report
    BY <1>1 DEF ReadTrace
  <2>2. /\ copy_events' \in SUBSET Intervals /\ compute_events' \in SUBSET Intervals
        /\ left_copy' = merge_intervals(copy_events') /\ left_compute' = merge_intervals(compute_events')
    BY <1>1 DEF ReadTrace, kSubset
  <2>3. /\ Apart(left_copy') /\ Covered(left_copy') = Busy(copy_events')
        /\ Apart(left_compute') /\ Covered(left_compute') = Busy(compute_events')
    BY <2>2, MergedIntervals
  <2>4. overlap = 0
    <3>1. Busy({}) = {}
      BY DEF Busy
    <3>2. Cardinality(Busy(copy_events) \cap Busy(compute_events)) = 0
      BY <2>1, <3>1, FS_EmptySet
    <3>3. QED
      BY <3>2, SharedInstants
  <2>5. Cardinality(Covered(left_copy') \cap Covered(left_compute')) \in Nat
    BY SharedInstants
  <2>6. report' = <<>>
    BY <2>1
  <2>7. OverlapExact'
    BY <2>6 DEF OverlapExact
  <2>8. overlap' + Cardinality(Covered(left_copy') \cap Covered(left_compute'))
          = Cardinality(Busy(copy_events') \cap Busy(compute_events'))
    BY <2>1, <2>3, <2>4, <2>5
  <2>9. QED
    BY <2>1, <2>2, <2>3, <2>6, <2>7, <2>8
<1>2. CASE Intersect
  <2> DEFINE a == Head(left_copy)
             b == Head(left_compute)
             shared == Min({a[2], b[2]}) - Max({a[1], b[1]})
  <2>1. /\ left_copy # <<>> /\ left_compute # <<>>
        /\ overlap' = overlap + Max({shared, 0})
        /\ copy_events' = copy_events /\ compute_events' = compute_events /\ report' = report
        /\ IF a[2] < b[2]
           THEN left_copy' = Tail(left_copy) /\ left_compute' = left_compute
           ELSE left_compute' = Tail(left_compute) /\ left_copy' = left_copy
    BY <1>2 DEF Intersect
  <2>2. /\ a \in Intervals /\ b \in Intervals /\ Apart(Tail(left_copy)) /\ Apart(Tail(left_compute))
    BY <2>1, Passed
  <2>3. /\ Max({shared, 0}) = Cardinality(Span(a) \cap Span(b))
        /\ Cardinality(Span(a) \cap Span(b)) \in Nat
        /\ Span(a) \cap Span(b) = Span(b) \cap Span(a)
    <3>1. IsFiniteSet(Span(a) \cap Span(b))
      BY <2>2, SpanCount, FS_Intersection
    <3>2. QED
      BY <2>2, <3>1, SharedSpan, FS_CardinalityType
  <2>4. a[2] \in Nat /\ b[2] \in Nat
    BY <2>2, IntervalType
  <2>5. /\ Apart(left_copy') /\ Apart(left_compute')
        /\ Cardinality(Covered(left_copy) \cap Covered(left_compute))
             = Cardinality(Span(a) \cap Span(b)) + Cardinality(Covered(left_copy') \cap Covered(left_compute'))
    <3>1. CASE a[2] < b[2]
      <4>1. a[2] <= b[2]
        BY <2>4, <3>1
      <4>2. Cardinality(Covered(left_copy) \cap Covered(left_compute))
              = Cardinality(Span(a) \cap Span(b)) + Cardinality(Covered(Tail(left_copy)) \cap Covered(left_compute))
        BY <2>1, <4>1, TurnCounts
      <4>3. QED
        BY <2>1, <2>2, <3>1, <4>2
    <3>2. CASE ~ (a[2] < b[2])
      <4>1. b[2] <= a[2]
        BY <2>4, <3>2
      <4>2. Cardinality(Covered(left_compute) \cap Covered(left_copy))
              = Cardinality(Span(b) \cap Span(a)) + Cardinality(Covered(Tail(left_compute)) \cap Covered(left_copy))
        BY <2>1, <4>1, TurnCounts
      <4>3. /\ Covered(left_compute) \cap Covered(left_copy) = Covered(left_copy) \cap Covered(left_compute)
            /\ Covered(Tail(left_compute)) \cap Covered(left_copy) = Covered(left_copy) \cap Covered(Tail(left_compute))
        BY SharedInstants
      <4>4. QED
        BY <2>1, <2>2, <2>3, <3>2, <4>2, <4>3
    <3>3. QED
      BY <3>1, <3>2
  <2>6. Cardinality(Covered(left_copy') \cap Covered(left_compute')) \in Nat
    BY SharedInstants
  <2> HIDE DEF a, b, shared
  <2>7. overlap' \in Nat /\ overlap' = overlap + Cardinality(Span(a) \cap Span(b))
    BY <2>1, <2>3
  <2>8. overlap' + Cardinality(Covered(left_copy') \cap Covered(left_compute'))
          = Cardinality(Busy(copy_events') \cap Busy(compute_events'))
    BY <2>1, <2>3, <2>5, <2>6, <2>7
  <2>9. OverlapExact'
    BY <2>1 DEF OverlapExact, FirstStart, LastEnd
  <2>10. QED
    BY <2>1, <2>5, <2>7, <2>8, <2>9
<1>3. CASE Analyze
  <2>1. /\ copy_events \cup compute_events # {}
        /\ left_copy = <<>> \/ left_compute = <<>>
        /\ copy_events' = copy_events /\ compute_events' = compute_events
        /\ left_copy' = left_copy /\ left_compute' = left_compute /\ overlap' = overlap
    BY <1>3 DEF Analyze
  <2>2. overlap = Cardinality(Busy(copy_events) \cap Busy(compute_events))
    <3>1. Covered(<<>>) = {}
      BY DEF Covered
    <3>2. Cardinality(Covered(left_copy) \cap Covered(left_compute)) = 0
      BY <2>1, <3>1, FS_EmptySet
    <3>3. QED
      BY <3>2
  <2> DEFINE copy_busy == total_duration(merge_intervals(copy_events))
             compute_busy == total_duration(merge_intervals(compute_events))
             idle == (LastEnd - FirstStart) - copy_busy - compute_busy + overlap
             ideal == Min({copy_busy, compute_busy})
  <2>3. /\ copy_busy = Cardinality(Busy(copy_events)) /\ compute_busy = Cardinality(Busy(compute_events))
        /\ idle = Cardinality((FirstStart .. LastEnd - 1) \ Busy(copy_events \cup compute_events))
        /\ overlap <= ideal
    BY <2>1, <2>2, FiguresExact DEF FirstStart, LastEnd
  <2>4. report' = [copy_busy |-> copy_busy, compute_busy |-> compute_busy,
                   overlap |-> overlap, ideal |-> ideal, idle |-> idle]
    BY <1>3 DEF Analyze, FirstStart, LastEnd
  <2> HIDE DEF copy_busy, compute_busy, idle, ideal
  <2>5. /\ report'.copy_busy = copy_busy /\ report'.compute_busy = compute_busy
        /\ report'.overlap = overlap /\ report'.ideal = ideal /\ report'.idle = idle
    BY <2>4
  <2>6. FirstStart' = FirstStart /\ LastEnd' = LastEnd
    BY <2>1 DEF FirstStart, LastEnd
  <2>7. OverlapExact'
    BY <2>1, <2>2, <2>3, <2>5, <2>6 DEF OverlapExact
  <2>8. QED
    BY <2>1, <2>7
<1>4. CASE UNCHANGED reportVars
  BY <1>4 DEF reportVars, OverlapExact, FirstStart, LastEnd
<1>5. QED
  BY <1>1, <1>2, <1>3, <1>4 DEF ReportNext

(* The figures of every trace analysed count each instant once, however the  *)
(* events nest, touch or repeat: of copies, of kernels, of both at once and  *)
(* of neither.                                                               *)
THEOREM OverlapCountsOnce == Spec => []OverlapExact
<1>1. Init => ReportInv
  BY ReportStart DEF Init
<1>2. ReportInv /\ [Next]_vars => ReportInv'
  BY ReportStays, ScriptSteps
<1>3. ReportInv => OverlapExact
  BY DEF ReportInv
<1>4. QED
  BY <1>1, <1>2, <1>3, PTL DEF Spec
=============================================================================
