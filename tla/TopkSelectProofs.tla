--------------------------- MODULE TopkSelectProofs ---------------------------
(***************************************************************************)
(* Theorems about TopkSelect, for any number of warps, values and          *)
(* bisection steps.                                                        *)
(***************************************************************************)
EXTENDS TopkSelect, NumberLemmas, FunctionTheorems, SequenceTheorems

(* What Max and Min are, for bounded sets of integers. *)
LEMMA MaxOf ==
  ASSUME NEW b \in Nat, NEW S \in SUBSET (0 .. b), S # {}
  PROVE  Max(S) \in S /\ \A y \in S : Max(S) >= y
<1> DEFINE T == {b - x : x \in S}
<1>1. T \in SUBSET Nat /\ T # {}
  <2>1. \A x \in S : b - x \in Nat
    OBVIOUS
  <2>2. QED
    BY <2>1
<1>2. PICK m \in T : \A n \in T : m <= n
  BY <1>1, LeastElement
<1>3. PICK x \in S : m = b - x
  OBVIOUS
<1>4. \A y \in S : x >= y
  BY <1>2, <1>3
<1>5. QED
  BY <1>4 DEF Max

(* A member that is no smaller than any is the maximum.                      *)
LEMMA MaxIs ==
  ASSUME NEW S \in SUBSET Int, NEW x \in S, \A y \in S : x >= y
  PROVE  Max(S) = x
<1>1. Max(S) \in S /\ \A y \in S : Max(S) >= y
  BY DEF Max
<1>2. Max(S) \in Int /\ x \in Int /\ Max(S) >= x /\ x >= Max(S)
  BY <1>1
<1>3. QED
  BY <1>2

(* The minimum of two ordered numbers is the first.                          *)
LEMMA MinOfPair ==
  ASSUME NEW a \in Int, NEW b \in Int, a <= b
  PROVE  Min({a, b}) = a
<1>1. Min({a, b}) \in {a, b} /\ Min({a, b}) <= a /\ Min({a, b}) <= b
  BY DEF Min
<1>2. QED
  BY <1>1

-----------------------------------------------------------------------------
(* What a warp contributes, and what the block as a whole amounts to.        *)
AtLeast(v, t) == {i \in Indices : v[i] >= t}
Count(v, t) == Cardinality(AtLeast(v, t))
OwnCount(v, t, w) == Cardinality({i \in Own(w) : v[i] >= t})
OwnMax(v, w) == Max({0} \cup {v[i] : i \in Own(w)})
MaxIn(v) == Max({v[i] : i \in Indices})

(* The indices are finite, and each belongs to one warp.                     *)
LEMMA Partition ==
  /\ IsFiniteSet(Indices) /\ Cardinality(Indices) = N /\ Indices \subseteq Nat /\ Indices # {}
  /\ 0 \in Warps
  /\ \A i \in Indices : i % NumWarps \in Warps /\ i \in Own(i % NumWarps)
  /\ \A w \in Warps : \A i \in Own(w) : i \in Indices /\ i % NumWarps = w
<1>1. N \in Nat \ {0} /\ NumWarps \in Nat \ {0}
  BY TopkAssumption
<1>2. IsFiniteSet(Indices) /\ Cardinality(Indices) = N /\ Indices \subseteq Nat /\ Indices # {}
  <2>1. 0 \in Int /\ N - 1 \in Int /\ ~ (0 > N - 1) /\ N - 1 - 0 + 1 = N
    BY <1>1
  <2>2. IsFiniteSet(0 .. N - 1) /\ Cardinality(0 .. N - 1) = N
    BY <2>1, FS_Interval
  <2>3. 0 \in 0 .. N - 1
    BY <1>1
  <2>4. QED
    BY <2>2, <2>3 DEF Indices
<1>3. \A i \in Nat : i % NumWarps \in 0 .. NumWarps - 1
  BY <1>1
<1>4. \A i \in Indices : i % NumWarps \in Warps
  BY <1>2, <1>3 DEF Warps
<1>5. 0 \in Warps
  BY <1>1 DEF Warps
<1>6. QED
  BY <1>2, <1>4, <1>5 DEF Own

(* The counts of the warps add up to the count of the block. *)
LEMMA CountTotal ==
  ASSUME NEW v, NEW t, NEW cells,
         \A w \in Warps : cells[w] = OwnCount(v, t, w)
  PROVE  SumOf(cells) = Count(v, t)
<1> DEFINE Part(w) == {i \in Own(w) : v[i] >= t}
           U == UNION {{w} \X (1 .. cells[w]) : w \in Warps}
           e == [w \in Warps |-> CHOOSE f : f \in Bijection(1 .. cells[w], Part(w))]
           F == [u \in U |-> e[u[1]][u[2]]]
<1>1. ASSUME NEW w \in Warps
      PROVE  /\ e[w] \in [1 .. cells[w] -> Part(w)]
             /\ \A a, b \in 1 .. cells[w] : e[w][a] = e[w][b] => a = b
             /\ \A i \in Part(w) : \E a \in 1 .. cells[w] : e[w][a] = i
  <2>1. IsFiniteSet(Part(w))
    <3>1. Part(w) \in SUBSET Indices
      BY Partition
    <3>2. QED
      BY <3>1, Partition, FS_Subset
  <2>2. ExistsBijection(1 .. cells[w], Part(w))
    BY <2>1, FS_CardinalityType DEF OwnCount
  <2>3. \E f : f \in Bijection(1 .. cells[w], Part(w))
    BY <2>2 DEF ExistsBijection
  <2>4. e[w] \in Bijection(1 .. cells[w], Part(w))
    BY <2>3
  <2>5. \A S, T, f : f \in Bijection(S, T) =>
          /\ f \in [S -> T]
          /\ \A a, b \in S : f[a] = f[b] => a = b
          /\ \A i \in T : \E a \in S : f[a] = i
    <3> TAKE S, T, f
    <3> HAVE f \in Bijection(S, T)
    <3>1. QED
      BY Fun_BijectionProperties
  <2>6. PICK S, T, f : S = 1 .. cells[w] /\ T = Part(w) /\ f = e[w]
    OBVIOUS
  <2> HIDE DEF e, Part
  <2>7. f \in Bijection(S, T)
    BY <2>4, <2>6
  <2>8. /\ f \in [S -> T]
        /\ \A a, b \in S : f[a] = f[b] => a = b
        /\ \A i \in T : \E a \in S : f[a] = i
    BY <2>5, <2>7
  <2>9. QED
    BY <2>6, <2>8
<1> HIDE DEF e
<1>2. \A u : u \in U <=> \E w \in Warps : \E a \in 1 .. cells[w] : u = <<w, a>>
  OBVIOUS
<1> HIDE DEF U
<1>3. F \in [U -> AtLeast(v, t)]
  <2> SUFFICES ASSUME NEW u \in U PROVE e[u[1]][u[2]] \in AtLeast(v, t)
    OBVIOUS
  <2>1. PICK w \in Warps : \E a \in 1 .. cells[w] : u = <<w, a>>
    BY <1>2
  <2>2. PICK a \in 1 .. cells[w] : u = <<w, a>>
    BY <2>1
  <2>3. e[w][a] \in Part(w)
    BY <1>1
  <2>4. QED
    BY <2>2, <2>3, Partition DEF AtLeast
<1>4. ASSUME NEW x \in U, NEW y \in U, F[x] = F[y] PROVE x = y
  <2>1. PICK w \in Warps : \E a \in 1 .. cells[w] : x = <<w, a>>
    BY <1>2
  <2>2. PICK a \in 1 .. cells[w] : x = <<w, a>>
    BY <2>1
  <2>3. PICK z \in Warps : \E b \in 1 .. cells[z] : y = <<z, b>>
    BY <1>2
  <2>4. PICK b \in 1 .. cells[z] : y = <<z, b>>
    BY <2>3
  <2>5. e[w][a] = e[z][b] /\ e[w][a] \in Part(w) /\ e[z][b] \in Part(z)
    <3>1. F[x] = e[w][a] /\ F[y] = e[z][b]
      BY <2>2, <2>4
    <3>2. \A n \in Warps : \A c \in 1 .. cells[n] : e[n][c] \in Part(n)
      BY <1>1
    <3> HIDE DEF Part, F
    <3>3. e[w][a] \in Part(w) /\ e[z][b] \in Part(z)
      BY <3>2
    <3>4. QED
      BY <3>1, <3>3, <1>4
  <2>6. w = z
    BY <2>5, Partition
  <2>7. QED
    BY <2>2, <2>4, <2>5, <2>6, <1>1
<1>5. ASSUME NEW i \in AtLeast(v, t) PROVE \E u \in U : F[u] = i
  <2>1. PICK w \in Warps : i \in Part(w)
    BY Partition DEF AtLeast
  <2>2. PICK a \in 1 .. cells[w] : e[w][a] = i
    BY <2>1, <1>1
  <2>3. <<w, a>> \in U
    BY <1>2
  <2>4. QED
    BY <2>2, <2>3
<1> HIDE DEF F
<1>6. F \in Bijection(U, AtLeast(v, t))
  BY <1>3, <1>4, <1>5, Fun_IsBij
<1>7. ExistsBijection(AtLeast(v, t), U)
  BY <1>6, Fun_ExistsBijSymmetric DEF ExistsBijection
<1>8. IsFiniteSet(AtLeast(v, t))
  BY Partition, FS_Subset DEF AtLeast
<1>9. Cardinality(U) = Count(v, t)
  BY <1>7, <1>8, FS_Bijection DEF Count
<1>10. QED
  BY <1>9 DEF SumOf, U

(* How many values are no smaller than a threshold: it falls with the threshold.*)
LEMMA Counts ==
  ASSUME NEW v \in [Indices -> Nat]
  PROVE  /\ \A t \in Int : IsFiniteSet(AtLeast(v, t)) /\ Count(v, t) \in Nat
         /\ Count(v, 0) = N
         /\ \A t \in Int : (\A i \in Indices : v[i] < t) => Count(v, t) = 0
         /\ \A s, t \in Int : s <= t => Count(v, t) <= Count(v, s)
<1>1. \A t \in Int : IsFiniteSet(AtLeast(v, t)) /\ Count(v, t) \in Nat
  <2> TAKE t \in Int
  <2>1. AtLeast(v, t) \in SUBSET Indices
    BY DEF AtLeast
  <2>2. QED
    BY <2>1, Partition, FS_Subset, FS_CardinalityType DEF Count
<1>2. Count(v, 0) = N
  <2>1. AtLeast(v, 0) = Indices
    BY DEF AtLeast
  <2>2. QED
    BY <2>1, Partition DEF Count
<1>3. \A t \in Int : (\A i \in Indices : v[i] < t) => Count(v, t) = 0
  <2> SUFFICES ASSUME NEW t \in Int, \A i \in Indices : v[i] < t PROVE Count(v, t) = 0
    OBVIOUS
  <2>1. AtLeast(v, t) = {}
    BY DEF AtLeast
  <2>2. QED
    BY <2>1, FS_EmptySet DEF Count
<1>4. \A s, t \in Int : s <= t => Count(v, t) <= Count(v, s)
  <2> SUFFICES ASSUME NEW s \in Int, NEW t \in Int, s <= t PROVE Count(v, t) <= Count(v, s)
    OBVIOUS
  <2>1. AtLeast(v, t) \in SUBSET AtLeast(v, s)
    BY DEF AtLeast
  <2>2. QED
    BY <2>1, <1>1, FS_Subset DEF Count
<1>5. QED
  BY <1>1, <1>2, <1>3, <1>4

(* The maximum of the warps' maxima is that of the block. *)
LEMMA MaxTotal ==
  ASSUME NEW v \in [Indices -> 0 .. MaxVal], NEW cells,
         \A w \in Warps : cells[w] = OwnMax(v, w)
  PROVE  /\ Max({cells[w] : w \in Warps}) = MaxIn(v)
         /\ MaxIn(v) \in 0 .. MaxVal
         /\ \A i \in Indices : v[i] <= MaxIn(v)
<1>1. /\ MaxIn(v) \in {v[i] : i \in Indices}
      /\ \A i \in Indices : v[i] <= MaxIn(v)
  <2> DEFINE S == {v[i] : i \in Indices}
  <2>1. S \in SUBSET (0 .. MaxVal) /\ S # {} /\ \A i \in Indices : v[i] \in S
    <3>1. \A i \in Indices : v[i] \in 0 .. MaxVal
      OBVIOUS
    <3>2. \E i : i \in Indices
      BY Partition
    <3>3. QED
      BY <3>1, <3>2
  <2>2. MaxIn(v) = Max(S)
    BY DEF MaxIn
  <2> HIDE DEF S
  <2>3. Max(S) \in S /\ \A y \in S : Max(S) >= y
    BY <2>1, MaxOf, TopkAssumption
  <2>4. \A i \in Indices : v[i] <= Max(S)
    <3> TAKE i \in Indices
    <3>1. v[i] \in S /\ S \in SUBSET Int
      BY <2>1
    <3>2. v[i] \in Int /\ Max(S) \in Int /\ Max(S) >= v[i]
      BY <2>3, <3>1
    <3>3. QED
      BY <3>2
  <2>5. Max(S) \in {v[i] : i \in Indices}
    BY <2>3 DEF S
  <2>6. QED
    BY <2>2, <2>4, <2>5
<1>2. ASSUME NEW w \in Warps
      PROVE  /\ cells[w] \in {0} \cup {v[i] : i \in Own(w)}
             /\ \A i \in Own(w) : v[i] <= cells[w]
  <2> DEFINE S == {0} \cup {v[i] : i \in Own(w)}
  <2>1. S \in SUBSET (0 .. MaxVal) /\ S # {}
    <3>1. \A i \in Own(w) : v[i] \in 0 .. MaxVal
      BY Partition
    <3>2. 0 \in 0 .. MaxVal
      BY TopkAssumption
    <3>3. QED
      BY <3>1, <3>2
  <2>2. \A i \in Own(w) : v[i] \in S
    OBVIOUS
  <2>3. cells[w] = Max(S)
    BY DEF OwnMax
  <2> HIDE DEF S
  <2>4. Max(S) \in S /\ \A y \in S : Max(S) >= y
    BY <2>1, MaxOf, TopkAssumption
  <2>5. \A i \in Own(w) : v[i] <= Max(S)
    <3> TAKE i \in Own(w)
    <3>1. v[i] \in S /\ S \in SUBSET Int
      BY <2>1, <2>2
    <3>2. Max(S) \in Int /\ v[i] \in Int /\ Max(S) >= v[i]
      BY <2>4, <3>1
    <3>3. QED
      BY <3>2
  <2>6. Max(S) \in {0} \cup {v[i] : i \in Own(w)}
    BY <2>4 DEF S
  <2>7. QED
    BY <2>3, <2>5, <2>6
<1>3. \A w \in Warps : cells[w] \in 0 .. MaxVal /\ cells[w] <= MaxIn(v)
  <2> TAKE w \in Warps
  <2>1. CASE cells[w] = 0
    BY <2>1, <1>1, TopkAssumption
  <2>2. CASE cells[w] \in {v[i] : i \in Own(w)}
    BY <2>2, <1>1, Partition
  <2>3. QED
    BY <2>1, <2>2, <1>2
<1>4. \E w \in Warps : cells[w] = MaxIn(v)
  <2>1. PICK i \in Indices : v[i] = MaxIn(v)
    BY <1>1
  <2>2. i % NumWarps \in Warps /\ v[i] <= cells[i % NumWarps]
    BY Partition, <1>2
  <2>3. QED
    BY <2>1, <2>2, <1>1, <1>3
<1>5. Max({cells[w] : w \in Warps}) = MaxIn(v)
  <2>1. /\ {cells[w] : w \in Warps} \in SUBSET Int
        /\ MaxIn(v) \in {cells[w] : w \in Warps}
        /\ \A y \in {cells[w] : w \in Warps} : MaxIn(v) >= y
    BY <1>1, <1>3, <1>4
  <2>2. QED
    BY <2>1, MaxIs
<1>6. QED
  BY <1>1, <1>5

-----------------------------------------------------------------------------
(* The invariant.                                                          *)
Steps == {"max", "bounds", "mid", "load", "count", "total", "bisect", "scan", "done"}

Types ==
  /\ vals \in [Indices -> 0 .. MaxVal] /\ k \in 1 .. N /\ lift \in {0, Eps}
  /\ pc \in [Warps -> Steps] /\ waiting \in [Warps -> BOOLEAN]
  /\ iter \in [Warps -> Nat] /\ mid \in [Warps -> Int] /\ total \in Int
  /\ DOMAIN sdata = Warps
  /\ s_lo \in Int /\ s_hi \in Int /\ s_mid \in Int

(* The warps are between the same two barriers, in the same iteration; only  *)
(* the unsynchronized steps load and scan let one be a step ahead.           *)
Phase(s) == IF s = "load" THEN "count" ELSE IF s = "done" THEN "scan" ELSE s
Round(w) == IF pc[w] = "bisect" /\ waiting[w] THEN iter[w] - 1 ELSE iter[w]

Lockstep ==
  \A w \in Warps :
    /\ Phase(pc[w]) = Phase(pc[0]) /\ Round(w) = Round(0)
    /\ waiting[w] => pc[w] \in Synced
    /\ pc[w] \in {"max", "bounds"} => iter[w] = 0
    /\ pc[w] \in {"mid", "load", "count", "total", "bisect"} => Round(w) < Iters
    /\ pc[w] \in {"scan", "done"} => iter[w] = Iters

(* The bounds one thread alone would go through.                             *)
Bisected(v, kk, b) ==
  LET m == (b[1] + b[2]) \div 2
  IN  IF Count(v, m) >= kk THEN <<m, b[2]>> ELSE <<b[1], m>>

IsRun(v, kk, l, B) ==
  /\ B[0] = <<0, MaxIn(v) + l>>
  /\ \A i \in Nat : B[i + 1] = Bisected(v, kk, B[i])

Brackets(v, kk, l, lo, hi) ==
  /\ 0 <= lo /\ lo <= hi
  /\ Count(v, lo) >= kk
  /\ Count(v, hi) < kk \/ (l = 0 /\ hi = MaxIn(v))

Maxima ==
  \A w \in Warps : (pc[w] = "max" /\ waiting[w]) \/ pc[w] = "bounds" => sdata[w] = OwnMax(vals, w)

Known == ~ (pc[0] = "max" \/ At(0, "bounds"))
BoundsOK ==
  Known => /\ Brackets(vals, k, lift, s_lo, s_hi)
           /\ \A B : IsRun(vals, k, lift, B) => B[iter[0]] = <<s_lo, s_hi>>

Middle ==
  (pc[0] = "mid" /\ waiting[0]) \/ pc[0] \in {"load", "count", "total"} \/ At(0, "bisect")
    => s_mid = (s_lo + s_hi) \div 2

MidCopied == \A w \in Warps : pc[w] \in {"count", "total", "bisect"} => mid[w] = s_mid

Cells ==
  \A w \in Warps :
    (pc[w] = "count" /\ waiting[w]) \/ pc[w] = "total" => sdata[w] = OwnCount(vals, s_mid, w)

Summed == (pc[0] = "total" /\ waiting[0]) \/ pc[0] = "bisect" => total = Count(vals, s_mid)

FirstOf(kk, S) ==
  [p \in 1 .. Min({kk, Cardinality(S)}) |-> CHOOSE i \in S : Rank(S, i) = p - 1]
Written == pc[0] = "done" => out = FirstOf(k, AtLeast(vals, s_lo))

Data == Maxima /\ BoundsOK /\ Middle /\ MidCopied /\ Cells /\ Summed /\ Written

TInv == Types /\ Lockstep /\ Data

-----------------------------------------------------------------------------
(* What a step of warp w at s does to where the warps are.                   *)
Moves(w, s) ==
  /\ At(w, s) /\ vals' = vals /\ k' = k /\ lift' = lift
  /\ s # "bisect" => iter' = iter
  /\ s = "bisect" => iter' = [iter EXCEPT ![w] = @ + 1]
  /\ s \in Synced => pc' = pc /\ waiting' = [waiting EXCEPT ![w] = TRUE]
  /\ s \notin Synced => /\ waiting' = waiting
                        /\ pc' = [pc EXCEPT ![w] = IF s = "load" THEN "count" ELSE "done"]

(* Which phase each step of a warp belongs to.                               *)
LEMMA StepMoves ==
  ASSUME NEW w \in Warps
  PROVE  /\ LocalMax(w) => Moves(w, "max")
         /\ Bounds(w) => Moves(w, "bounds")
         /\ Mid(w) => Moves(w, "mid")
         /\ LoadMid(w) => Moves(w, "load")
         /\ LocalCount(w) => Moves(w, "count")
         /\ Total(w) => Moves(w, "total")
         /\ Bisect(w) => Moves(w, "bisect")
         /\ Scan(w) => Moves(w, "scan")
<1> USE DEF Moves, Leave, Synced, Follow, inputs, shared
<1>1. LocalMax(w) => Moves(w, "max")
  BY DEF LocalMax
<1>2. Bounds(w) => Moves(w, "bounds")
  BY DEF Bounds
<1>3. Mid(w) => Moves(w, "mid")
  BY DEF Mid
<1>4. LoadMid(w) => Moves(w, "load")
  BY DEF LoadMid
<1>5. LocalCount(w) => Moves(w, "count")
  BY DEF LocalCount
<1>6. Total(w) => Moves(w, "total")
  BY DEF Total
<1>7. Bisect(w) => Moves(w, "bisect")
  BY DEF Bisect, NextIter
<1>8. Scan(w) => Moves(w, "scan")
  BY DEF Scan
<1>9. QED
  BY <1>1, <1>2, <1>3, <1>4, <1>5, <1>6, <1>7, <1>8

(* A step of a warp keeps it in lockstep with the others.                    *)
LEMMA MovesKeepsLockstep ==
  ASSUME Types, Lockstep, NEW w \in Warps, NEW s \in Steps \ {"done"}, Moves(w, s)
  PROVE  Lockstep'
<1> SUFFICES ASSUME NEW u \in Warps
             PROVE  /\ Phase(pc'[u]) = Phase(pc'[0]) /\ Round(u)' = Round(0)'
                    /\ waiting'[u] => pc'[u] \in Synced
                    /\ pc'[u] \in {"max", "bounds"} => iter'[u] = 0
                    /\ pc'[u] \in {"mid", "load", "count", "total", "bisect"} => Round(u)' < Iters
                    /\ pc'[u] \in {"scan", "done"} => iter'[u] = Iters
  BY DEF Lockstep
<1>1. 0 \in Warps
  BY Partition
<1>2. \A z \in Warps : Phase(pc'[z]) = Phase(pc[z]) /\ Round(z)' = Round(z)
  <2> TAKE z \in Warps
  <2>1. CASE s \in Synced
    BY <2>1 DEF Types, Moves, At, Round
  <2>2. CASE s \notin Synced
    BY <2>2 DEF Types, Moves, At, Round, Phase, Steps, Synced
  <2>3. QED
    BY <2>1, <2>2
<1>3. Phase(pc'[u]) = Phase(pc'[0]) /\ Round(u)' = Round(0)'
  BY <1>1, <1>2 DEF Lockstep
<1>4. waiting'[u] => pc'[u] \in Synced
  BY DEF Lockstep, Types, Moves, At, Steps, Synced
<1>5. /\ pc'[u] \in {"max", "bounds"} => iter'[u] = 0
      /\ pc'[u] \in {"scan", "done"} => iter'[u] = Iters
  BY DEF Lockstep, Types, Moves, At, Steps, Synced
<1>6. pc'[u] \in {"mid", "load", "count", "total", "bisect"} => Round(u)' < Iters
  BY <1>2 DEF Lockstep, Types, Moves, At, Steps, Synced
<1>7. QED
  BY <1>3, <1>4, <1>5, <1>6

(* And keeps the types of what is told where warps are.                      *)
LEMMA MovesKeepsTypes ==
  ASSUME Types, NEW w \in Warps, NEW s \in Steps \ {"done"}, Moves(w, s)
  PROVE  /\ vals' \in [Indices -> 0 .. MaxVal] /\ k' \in 1 .. N /\ lift' \in {0, Eps}
         /\ pc' \in [Warps -> Steps] /\ waiting' \in [Warps -> BOOLEAN]
         /\ iter' \in [Warps -> Nat]
<1>1. vals' \in [Indices -> 0 .. MaxVal] /\ k' \in 1 .. N /\ lift' \in {0, Eps}
  BY DEF Types, Moves
<1>2. iter' \in [Warps -> Nat]
  BY DEF Types, Moves
<1>3. pc' \in [Warps -> Steps] /\ waiting' \in [Warps -> BOOLEAN]
  <2>1. CASE s \in Synced
    BY <2>1 DEF Types, Moves
  <2>2. CASE s \notin Synced
    BY <2>2 DEF Types, Moves, Steps
  <2>3. QED
    BY <2>1, <2>2
<1>4. QED
  BY <1>1, <1>2, <1>3

(* All warps leave a barrier together. *)
LEMMA BarrierKeeps ==
  ASSUME TInv, Barrier
  PROVE  TInv'
<1>1. 0 \in Warps
  BY Partition
<1>2. /\ vals' = vals /\ k' = k /\ lift' = lift /\ iter' = iter /\ mid' = mid /\ total' = total
      /\ sdata' = sdata /\ s_lo' = s_lo /\ s_hi' = s_hi /\ s_mid' = s_mid /\ out' = out
      /\ \A w \in Warps : waiting[w]
      /\ waiting' = [w \in Warps |-> FALSE]
      /\ pc' = [w \in Warps |-> Follow(pc[w], iter[w])]
  BY DEF Barrier, inputs, shared
<1>3. pc[0] \in Synced
  BY <1>1, <1>2 DEF TInv, Lockstep
<1>4. \A w \in Warps : pc[w] = pc[0] /\ iter[w] = iter[0]
  <2> TAKE w \in Warps
  <2>1. pc[w] \in Synced /\ Phase(pc[w]) = Phase(pc[0]) /\ Round(w) = Round(0)
    BY <1>2 DEF TInv, Lockstep
  <2>2. pc[w] = pc[0]
    BY <1>3, <2>1 DEF Phase, Synced
  <2>3. QED
    BY <1>1, <1>2, <2>1, <2>2 DEF TInv, Types, Round
<1>5. \A w \in Warps : pc'[w] = Follow(pc[0], iter[0]) /\ iter'[w] = iter[0] /\ ~ waiting'[w]
  BY <1>2, <1>4
<1>6. Follow(pc[0], iter[0]) \in Steps
  BY <1>3 DEF Follow, Synced, Steps
<1>7. Types'
  BY <1>2, <1>4, <1>6 DEF TInv, Types
<1>8. /\ pc[0] \in {"max", "bounds"} => iter[0] = 0
      /\ pc[0] \in {"mid", "load", "count", "total"} => iter[0] < Iters
      /\ pc[0] = "bisect" => iter[0] - 1 < Iters
      /\ iter[0] \in Nat
  BY <1>1, <1>2 DEF TInv, Lockstep, Types, Round
<1>9. Lockstep'
  <2>1. \A w \in Warps : Round(w)' = iter[0]
    BY <1>5 DEF Round
  <2>2. /\ Follow(pc[0], iter[0]) \in {"max", "bounds"} => iter[0] = 0
        /\ Follow(pc[0], iter[0]) \in {"mid", "load", "count", "total", "bisect"} => iter[0] < Iters
        /\ Follow(pc[0], iter[0]) \in {"scan", "done"} => iter[0] = Iters
    BY <1>3, <1>8, TopkAssumption DEF Follow, Synced
  <2>3. QED
    BY <1>1, <1>5, <2>1, <2>2 DEF Lockstep
<1>10. CASE pc[0] \in {"max", "bounds"}
  <2>1. pc'[0] = IF pc[0] = "max" THEN "bounds" ELSE "mid"
    BY <1>1, <1>5, <1>10 DEF Follow
  <2>2. QED
    BY <1>1, <1>2, <1>4, <1>5, <1>7, <1>9, <1>10, <2>1
    DEF TInv, Data, Maxima, BoundsOK, Known, At, Middle, MidCopied, Cells, Summed, Written
<1>11. CASE pc[0] \in {"mid", "count", "total"}
  <2>1. pc'[0] = IF pc[0] = "mid" THEN "load" ELSE IF pc[0] = "count" THEN "total" ELSE "bisect"
    BY <1>1, <1>5, <1>11 DEF Follow
  <2>2. QED
    BY <1>1, <1>2, <1>4, <1>5, <1>7, <1>9, <1>11, <2>1
    DEF TInv, Data, Maxima, BoundsOK, Known, At, Middle, MidCopied, Cells, Summed, Written
<1>12. CASE pc[0] = "bisect"
  <2>1. pc'[0] \in {"mid", "scan"}
    BY <1>1, <1>5, <1>12 DEF Follow
  <2>2. QED
    BY <1>1, <1>2, <1>4, <1>5, <1>7, <1>9, <1>12, <2>1
    DEF TInv, Data, Maxima, BoundsOK, Known, At, Middle, MidCopied, Cells, Summed, Written
<1>13. QED
  BY <1>3, <1>10, <1>11, <1>12 DEF Synced

(* The action LocalMax keeps the invariant.                                  *)
LEMMA LocalMaxKeeps ==
  ASSUME TInv, NEW w \in Warps, LocalMax(w)
  PROVE  TInv'
<1>1. 0 \in Warps
  BY Partition
<1>2. Moves(w, "max")
  BY StepMoves
<1>3. /\ mid' = mid /\ total' = total /\ s_lo' = s_lo /\ s_hi' = s_hi /\ s_mid' = s_mid
      /\ out' = out /\ sdata' = [sdata EXCEPT ![w] = OwnMax(vals, w)]
  BY DEF LocalMax, OwnMax
<1>4. Lockstep'
  BY <1>2, MovesKeepsLockstep DEF TInv, Steps
<1>5. Types'
  <2>1. vals' \in [Indices -> 0 .. MaxVal] /\ k' \in 1 .. N /\ lift' \in {0, Eps}
        /\ pc' \in [Warps -> Steps] /\ waiting' \in [Warps -> BOOLEAN] /\ iter' \in [Warps -> Nat]
    BY <1>2, MovesKeepsTypes DEF TInv, Steps
  <2>2. QED
    BY <2>1, <1>3 DEF TInv, Types
<1>9. Data'
  BY <1>1, <1>2, <1>3
  DEF TInv, Data, Maxima, BoundsOK, Known, At, Middle, MidCopied, Cells, Summed, Written, Moves,
      Lockstep, Phase, Synced, Types
<1>10. QED
  BY <1>4, <1>5, <1>9 DEF TInv

(* The action LoadMid keeps the invariant.                                   *)
LEMMA LoadMidKeeps ==
  ASSUME TInv, NEW w \in Warps, LoadMid(w)
  PROVE  TInv'
<1>1. 0 \in Warps
  BY Partition
<1>2. Moves(w, "load")
  BY StepMoves
<1>3. /\ mid' = [mid EXCEPT ![w] = s_mid] /\ total' = total /\ s_lo' = s_lo /\ s_hi' = s_hi
      /\ s_mid' = s_mid /\ out' = out /\ sdata' = sdata
  BY DEF LoadMid, shared
<1>4. Lockstep'
  BY <1>2, MovesKeepsLockstep DEF TInv, Steps
<1>5. Types'
  <2>1. vals' \in [Indices -> 0 .. MaxVal] /\ k' \in 1 .. N /\ lift' \in {0, Eps}
        /\ pc' \in [Warps -> Steps] /\ waiting' \in [Warps -> BOOLEAN] /\ iter' \in [Warps -> Nat]
    BY <1>2, MovesKeepsTypes DEF TInv, Steps
  <2>2. QED
    BY <2>1, <1>3 DEF TInv, Types
<1>9. Data'
  BY <1>1, <1>2, <1>3
  DEF TInv, Data, Maxima, BoundsOK, Known, At, Middle, MidCopied, Cells, Summed, Written, Moves,
      Lockstep, Phase, Synced, Types
<1>10. QED
  BY <1>4, <1>5, <1>9 DEF TInv

(* The action LocalCount keeps the invariant.                                *)
LEMMA LocalCountKeeps ==
  ASSUME TInv, NEW w \in Warps, LocalCount(w)
  PROVE  TInv'
<1>1. 0 \in Warps
  BY Partition
<1>2. Moves(w, "count")
  BY StepMoves
<1>3. /\ mid' = mid /\ total' = total /\ s_lo' = s_lo /\ s_hi' = s_hi /\ s_mid' = s_mid
      /\ out' = out /\ sdata' = [sdata EXCEPT ![w] = OwnCount(vals, mid[w], w)]
  BY DEF LocalCount, OwnCount
<1>4. Lockstep'
  BY <1>2, MovesKeepsLockstep DEF TInv, Steps
<1>5. Types'
  <2>1. vals' \in [Indices -> 0 .. MaxVal] /\ k' \in 1 .. N /\ lift' \in {0, Eps}
        /\ pc' \in [Warps -> Steps] /\ waiting' \in [Warps -> BOOLEAN] /\ iter' \in [Warps -> Nat]
    BY <1>2, MovesKeepsTypes DEF TInv, Steps
  <2>2. QED
    BY <2>1, <1>3 DEF TInv, Types
<1>9. Data'
  BY <1>1, <1>2, <1>3
  DEF TInv, Data, Maxima, BoundsOK, Known, At, Middle, MidCopied, Cells, Summed, Written, Moves,
      Lockstep, Phase, Synced, Types
<1>10. QED
  BY <1>4, <1>5, <1>9 DEF TInv

(* The action Mid keeps the invariant.                                       *)
LEMMA MidKeeps ==
  ASSUME TInv, NEW w \in Warps, Mid(w)
  PROVE  TInv'
<1>1. 0 \in Warps
  BY Partition
<1>2. Moves(w, "mid")
  BY StepMoves
<1>3. /\ mid' = mid /\ total' = total /\ s_lo' = s_lo /\ s_hi' = s_hi /\ out' = out
      /\ s_mid' = (IF w = 0 THEN (s_lo + s_hi) \div 2 ELSE s_mid) /\ sdata' = sdata
  BY DEF Mid
<1>4. Lockstep'
  BY <1>2, MovesKeepsLockstep DEF TInv, Steps
<1>5. Types'
  <2>1. vals' \in [Indices -> 0 .. MaxVal] /\ k' \in 1 .. N /\ lift' \in {0, Eps}
        /\ pc' \in [Warps -> Steps] /\ waiting' \in [Warps -> BOOLEAN] /\ iter' \in [Warps -> Nat]
    BY <1>2, MovesKeepsTypes DEF TInv, Steps
  <2>2. QED
    BY <2>1, <1>3 DEF TInv, Types
<1>9. Data'
  BY <1>1, <1>2, <1>3
  DEF TInv, Data, Maxima, BoundsOK, Known, At, Middle, MidCopied, Cells, Summed, Written, Moves,
      Lockstep, Phase, Synced, Types
<1>10. QED
  BY <1>4, <1>5, <1>9 DEF TInv

(* The action Scan keeps the invariant.                                      *)
LEMMA ScanKeeps ==
  ASSUME TInv, NEW w \in Warps, Scan(w)
  PROVE  TInv'
<1>1. 0 \in Warps
  BY Partition
<1>2. Moves(w, "scan")
  BY StepMoves
<1>3. /\ mid' = mid /\ total' = total /\ s_lo' = s_lo /\ s_hi' = s_hi /\ s_mid' = s_mid
      /\ sdata' = sdata /\ out' = IF w = 0 THEN FirstOf(k, AtLeast(vals, s_lo)) ELSE out
  BY DEF Scan, shared, FirstK, FirstOf, AtLeast
<1>4. Lockstep'
  BY <1>2, MovesKeepsLockstep DEF TInv, Steps
<1>5. Types'
  <2>1. vals' \in [Indices -> 0 .. MaxVal] /\ k' \in 1 .. N /\ lift' \in {0, Eps}
        /\ pc' \in [Warps -> Steps] /\ waiting' \in [Warps -> BOOLEAN] /\ iter' \in [Warps -> Nat]
    BY <1>2, MovesKeepsTypes DEF TInv, Steps
  <2>2. QED
    BY <2>1, <1>3 DEF TInv, Types
<1>9. Data'
  BY <1>1, <1>2, <1>3
  DEF TInv, Data, Maxima, BoundsOK, Known, At, Middle, MidCopied, Cells, Summed, Written, Moves,
      Lockstep, Phase, Synced, Types
<1>10. QED
  BY <1>4, <1>5, <1>9 DEF TInv

(* The action Total keeps the invariant.                                     *)
LEMMA TotalKeeps ==
  ASSUME TInv, NEW w \in Warps, Total(w)
  PROVE  TInv'
<1>1. 0 \in Warps
  BY Partition
<1>2. Moves(w, "total")
  BY StepMoves
<1>3. /\ mid' = mid /\ s_lo' = s_lo /\ s_hi' = s_hi /\ s_mid' = s_mid
      /\ sdata' = sdata /\ out' = out /\ total' = IF w = 0 THEN SumOf(sdata) ELSE total
  BY DEF Total, shared
<1>4. Lockstep'
  BY <1>2, MovesKeepsLockstep DEF TInv, Steps
<1>5. w = 0 => SumOf(sdata) = Count(vals, s_mid) /\ Count(vals, s_mid) \in Int
  <2> SUFFICES ASSUME w = 0
               PROVE  SumOf(sdata) = Count(vals, s_mid) /\ Count(vals, s_mid) \in Int
    OBVIOUS
  <2>1. \A u \in Warps : pc[u] = "total"
    BY <1>1, <1>2 DEF Moves, At, TInv, Types, Lockstep, Phase, Steps
  <2>2. \A u \in Warps : sdata[u] = OwnCount(vals, s_mid, u)
    BY <2>1 DEF TInv, Data, Cells
  <2>3. vals \in [Indices -> Nat] /\ s_mid \in Int
    BY DEF TInv, Types
  <2>4. SumOf(sdata) = Count(vals, s_mid)
    BY <2>2, CountTotal
  <2>5. Count(vals, s_mid) \in Nat
    BY <2>3, Counts
  <2>6. QED
    BY <2>4, <2>5
<1>6. Types'
  <2>1. vals' \in [Indices -> 0 .. MaxVal] /\ k' \in 1 .. N /\ lift' \in {0, Eps}
        /\ pc' \in [Warps -> Steps] /\ waiting' \in [Warps -> BOOLEAN] /\ iter' \in [Warps -> Nat]
    BY <1>2, MovesKeepsTypes DEF TInv, Steps
  <2>2. total' \in Int
    BY <1>3, <1>5 DEF TInv, Types
  <2>3. QED
    BY <2>1, <2>2, <1>3 DEF TInv, Types
<1>7. Data'
  BY <1>1, <1>2, <1>3, <1>5
  DEF TInv, Data, Maxima, BoundsOK, Known, At, Middle, MidCopied, Cells, Summed, Written, Moves,
      Lockstep, Phase, Synced, Types
<1>8. QED
  BY <1>4, <1>6, <1>7 DEF TInv

(* The first bounds are those of every run. *)
LEMMA BoundsKeeps ==
  ASSUME TInv, NEW w \in Warps, Bounds(w)
  PROVE  TInv'
<1>1. 0 \in Warps
  BY Partition
<1>2. Moves(w, "bounds")
  BY StepMoves
<1>3. /\ mid' = mid /\ total' = total /\ s_mid' = s_mid /\ sdata' = sdata /\ out' = out
      /\ w = 0 => s_lo' = 0 /\ s_hi' = Max({sdata[v] : v \in Warps}) + lift
      /\ w # 0 => s_lo' = s_lo /\ s_hi' = s_hi
  BY DEF Bounds
<1>4. Lockstep'
  BY <1>2, MovesKeepsLockstep DEF TInv, Steps
<1>5. w = 0 => /\ s_hi' = MaxIn(vals) + lift /\ MaxIn(vals) \in Nat
               /\ Brackets(vals, k, lift, s_lo', s_hi')
  <2> SUFFICES ASSUME w = 0
               PROVE  /\ s_hi' = MaxIn(vals) + lift /\ MaxIn(vals) \in Nat
                      /\ Brackets(vals, k, lift, s_lo', s_hi')
    OBVIOUS
  <2>1. \A u \in Warps : pc[u] = "bounds"
    BY <1>1, <1>2 DEF Moves, At, TInv, Types, Lockstep, Phase, Steps
  <2>2. \A u \in Warps : sdata[u] = OwnMax(vals, u)
    BY <2>1 DEF TInv, Data, Maxima
  <2>3. vals \in [Indices -> 0 .. MaxVal] /\ k \in 1 .. N /\ lift \in {0, Eps}
    BY DEF TInv, Types
  <2>4. /\ Max({sdata[v] : v \in Warps}) = MaxIn(vals) /\ MaxIn(vals) \in 0 .. MaxVal
        /\ \A i \in Indices : vals[i] <= MaxIn(vals)
    BY <2>2, <2>3, MaxTotal
  <2>5. /\ Count(vals, 0) = N
        /\ \A t \in Int : (\A i \in Indices : vals[i] < t) => Count(vals, t) = 0
    BY <2>3, Counts
  <2>6. CASE lift = 0
    BY <2>3, <2>4, <2>5, <2>6, <1>3, TopkAssumption DEF Brackets
  <2>7. CASE lift = Eps
    <3>1. MaxIn(vals) + Eps \in Int /\ \A i \in Indices : vals[i] < MaxIn(vals) + Eps
      BY <2>3, <2>4, TopkAssumption
    <3>2. Count(vals, MaxIn(vals) + Eps) = 0
      BY <2>5, <3>1
    <3>3. QED
      BY <2>3, <2>4, <2>5, <2>7, <3>2, <1>3, TopkAssumption DEF Brackets
  <2>8. QED
    BY <2>3, <2>6, <2>7
<1>6. Types'
  <2>1. vals' \in [Indices -> 0 .. MaxVal] /\ k' \in 1 .. N /\ lift' \in {0, Eps}
        /\ pc' \in [Warps -> Steps] /\ waiting' \in [Warps -> BOOLEAN] /\ iter' \in [Warps -> Nat]
    BY <1>2, MovesKeepsTypes DEF TInv, Steps
  <2>2. s_lo' \in Int /\ s_hi' \in Int
    BY <1>3, <1>5, TopkAssumption DEF TInv, Types
  <2>3. QED
    BY <2>1, <2>2, <1>3 DEF TInv, Types
<1>7. BoundsOK'
  <2>1. CASE w = 0
    <3>1. iter'[0] = 0
      BY <2>1, <1>1, <1>2 DEF Moves, At, TInv, Lockstep
    <3>2. \A B : IsRun(vals, k, lift, B) => B[iter'[0]] = <<s_lo', s_hi'>>
      BY <2>1, <3>1, <1>3, <1>5 DEF IsRun
    <3>3. vals' = vals /\ k' = k /\ lift' = lift
      BY <1>2 DEF Moves
    <3>4. QED
      BY <2>1, <3>2, <3>3, <1>5 DEF BoundsOK
  <2>2. CASE w # 0
    BY <2>2, <1>1, <1>2, <1>3 DEF TInv, Data, BoundsOK, Known, At, Moves, Synced, Types
  <2>3. QED
    BY <2>1, <2>2
<1>8. Maxima' /\ Middle' /\ MidCopied' /\ Cells' /\ Summed' /\ Written'
  BY <1>1, <1>2, <1>3
  DEF TInv, Data, Maxima, BoundsOK, Known, At, Middle, MidCopied, Cells, Summed, Written, Moves,
      Lockstep, Phase, Synced, Types
<1>9. QED
  BY <1>4, <1>6, <1>7, <1>8 DEF TInv, Data

(* A bisection step is that of every run, and keeps the brackets. *)
LEMMA BisectKeeps ==
  ASSUME TInv, NEW w \in Warps, Bisect(w)
  PROVE  TInv'
<1>1. 0 \in Warps
  BY Partition
<1>2. Moves(w, "bisect")
  BY StepMoves
<1>3. /\ mid' = mid /\ total' = total /\ s_mid' = s_mid /\ sdata' = sdata /\ out' = out
      /\ s_lo' = (IF w = 0 /\ total >= k THEN mid[w] ELSE s_lo)
      /\ s_hi' = (IF w = 0 /\ ~ (total >= k) THEN mid[w] ELSE s_hi)
  BY DEF Bisect, KeepsLo
<1>4. Lockstep'
  BY <1>2, MovesKeepsLockstep DEF TInv, Steps
<1>5. Types'
  <2>1. vals' \in [Indices -> 0 .. MaxVal] /\ k' \in 1 .. N /\ lift' \in {0, Eps}
        /\ pc' \in [Warps -> Steps] /\ waiting' \in [Warps -> BOOLEAN] /\ iter' \in [Warps -> Nat]
    BY <1>2, MovesKeepsTypes DEF TInv, Steps
  <2>2. s_lo' \in Int /\ s_hi' \in Int
    BY <1>3 DEF TInv, Types
  <2>3. QED
    BY <2>1, <2>2, <1>3 DEF TInv, Types
<1>6. BoundsOK'
  <2>1. vals' = vals /\ k' = k /\ lift' = lift /\ pc'[0] = pc[0]
    BY <1>2 DEF Moves, Synced
  <2>2. CASE w = 0
    <3> DEFINE m == (s_lo + s_hi) \div 2
    <3>1. /\ pc[0] = "bisect" /\ ~ waiting[0] /\ iter'[0] = iter[0] + 1 /\ iter[0] \in Nat
          /\ total = Count(vals, s_mid) /\ s_mid = m /\ mid[0] = m
          /\ s_lo \in Int /\ s_hi \in Int /\ k \in Int
      BY <2>2, <1>1, <1>2 DEF Moves, At, TInv, Types, Data, Summed, Middle, MidCopied
    <3>2. Brackets(vals, k, lift, s_lo, s_hi)
      BY <3>1 DEF TInv, Data, BoundsOK, Known, At
    <3>3. vals \in [Indices -> Nat]
      BY DEF TInv, Types
    <3>4. m \in Int /\ s_lo <= m /\ m <= s_hi
      BY <3>1, <3>2 DEF Brackets
    <3>5. Count(vals, m) \in Nat
      BY <3>3, <3>4, Counts
    <3>6. <<s_lo', s_hi'>> = IF Count(vals, m) >= k THEN <<m, s_hi>> ELSE <<s_lo, m>>
      BY <2>2, <3>1, <1>3
    <3>7. Brackets(vals, k, lift, s_lo', s_hi')
      BY <3>1, <3>2, <3>4, <3>5, <3>6 DEF Brackets
    <3>8. ASSUME NEW B, IsRun(vals, k, lift, B) PROVE B[iter'[0]] = <<s_lo', s_hi'>>
      <4>1. B[iter[0]] = <<s_lo, s_hi>>
        BY <3>1, <3>8 DEF TInv, Data, BoundsOK, Known, At
      <4>2. B[iter[0] + 1] = Bisected(vals, k, B[iter[0]])
        BY <3>1, <3>8 DEF IsRun
      <4>3. Bisected(vals, k, <<s_lo, s_hi>>) = IF Count(vals, m) >= k THEN <<m, s_hi>> ELSE <<s_lo, m>>
        BY DEF Bisected
      <4>4. QED
        BY <4>1, <4>2, <4>3, <3>1, <3>6
    <3>9. QED
      BY <2>1, <3>7, <3>8 DEF BoundsOK
  <2>3. CASE w # 0
    BY <2>1, <2>3, <1>1, <1>2, <1>3 DEF TInv, Data, BoundsOK, Known, At, Moves, Synced, Types
  <2>4. QED
    BY <2>2, <2>3
<1>7. Maxima' /\ Middle' /\ MidCopied' /\ Cells' /\ Summed' /\ Written'
  BY <1>1, <1>2, <1>3
  DEF TInv, Data, Maxima, BoundsOK, Known, At, Middle, MidCopied, Cells, Summed, Written, Moves,
      Lockstep, Phase, Synced, Types
<1>8. QED
  BY <1>4, <1>5, <1>6, <1>7 DEF TInv, Data

(* The invariant holds at the start.                                          *)
LEMMA TInvInit == Init => TInv
<1> SUFFICES ASSUME Init PROVE TInv
  OBVIOUS
<1>1. 0 \in Warps
  BY Partition
<1>2. Types
  BY TopkAssumption DEF Init, Types, Steps
<1>3. Lockstep
  BY <1>1 DEF Init, Lockstep, Round, Synced
<1>4. Data
  BY <1>1 DEF Init, Data, Maxima, BoundsOK, Known, At, Middle, MidCopied, Cells, Summed, Written
<1>5. QED
  BY <1>2, <1>3, <1>4 DEF TInv

(* Every step keeps the invariant.                                           *)
LEMMA TInvStep == TInv /\ [Next]_vars => TInv'
<1> SUFFICES ASSUME TInv, [Next]_vars PROVE TInv'
  OBVIOUS
<1>1. CASE Barrier
  BY <1>1, BarrierKeeps
<1>2. ASSUME NEW w \in Warps, WarpStep(w) PROVE TInv'
  BY <1>2, LocalMaxKeeps, BoundsKeeps, MidKeeps, LoadMidKeeps, LocalCountKeeps, TotalKeeps, BisectKeeps,
     ScanKeeps DEF WarpStep
<1>3. CASE UNCHANGED vars
  BY <1>3 DEF vars, inputs, shared, TInv, Types, Lockstep, Round, Data, Maxima, BoundsOK, Known, At,
              Middle, MidCopied, Cells, Summed, Written
<1>4. QED
  BY <1>1, <1>2, <1>3 DEF Next, Finished

(* The invariant holds of every behaviour.                                   *)
LEMMA TopkInvariance == Spec => []TInv
BY TInvInit, TInvStep, PTL DEF Spec

-----------------------------------------------------------------------------
(* There is a run of the bisection, and SequentialBounds is one.             *)
PartialRun(v, kk, b, n, g) ==
  /\ DOMAIN g = 0 .. n /\ g[0] = b
  /\ \A i \in 0 .. n - 1 : g[i + 1] = Bisected(v, kk, g[i])

(* The first n bounds of a sequential bisection exist,                       *)
LEMMA PartialRunExists ==
  ASSUME NEW v, NEW kk, NEW b, NEW n \in Nat
  PROVE  \E g : PartialRun(v, kk, b, n, g)
<1> DEFINE S == {m \in Nat : \E g : PartialRun(v, kk, b, m, g)}
<1>1. 0 \in S
  <2>1. PartialRun(v, kk, b, 0, [i \in 0 .. 0 |-> b])
    BY DEF PartialRun
  <2>2. QED
    BY <2>1
<1>2. ASSUME NEW m \in Nat, m \in S PROVE m + 1 \in S
  <2>1. PICK g : PartialRun(v, kk, b, m, g)
    BY <1>2
  <2> DEFINE h == [i \in 0 .. m + 1 |-> IF i <= m THEN g[i] ELSE Bisected(v, kk, g[m])]
  <2>2. DOMAIN h = 0 .. m + 1 /\ h[0] = b
    BY <2>1 DEF PartialRun
  <2>3. \A i \in 0 .. (m + 1) - 1 : h[i + 1] = Bisected(v, kk, h[i])
    <3> TAKE i \in 0 .. (m + 1) - 1
    <3>1. h[i] = g[i] /\ h[i + 1] = IF i + 1 <= m THEN g[i + 1] ELSE Bisected(v, kk, g[m])
      OBVIOUS
    <3>2. i + 1 <= m => g[i + 1] = Bisected(v, kk, g[i])
      BY <2>1 DEF PartialRun
    <3>3. ~ (i + 1 <= m) => i = m
      OBVIOUS
    <3> HIDE DEF h
    <3>4. QED
      BY <3>1, <3>2, <3>3
  <2> HIDE DEF h
  <2>4. PartialRun(v, kk, b, m + 1, h)
    BY <2>2, <2>3 DEF PartialRun
  <2>5. QED
    BY <2>4
<1> HIDE DEF S
<1>3. Nat \subseteq S
  BY <1>1, <1>2, SetInduction
<1>4. QED
  BY <1>3 DEF S

(* and are determined by where it starts.                                    *)
LEMMA PartialRunUnique ==
  ASSUME NEW v, NEW kk, NEW b, NEW n \in Nat, NEW m \in Nat, NEW g, NEW h,
         PartialRun(v, kk, b, n, g), PartialRun(v, kk, b, m, h)
  PROVE  \A i \in Nat : i <= n /\ i <= m => g[i] = h[i]
<1> DEFINE S == {i \in Nat : i <= n /\ i <= m => g[i] = h[i]}
<1>1. 0 \in S
  BY DEF PartialRun
<1>2. ASSUME NEW i \in Nat, i \in S PROVE i + 1 \in S
  <2> SUFFICES ASSUME i + 1 <= n, i + 1 <= m PROVE g[i + 1] = h[i + 1]
    OBVIOUS
  <2>1. g[i] = h[i] /\ i \in 0 .. n - 1 /\ i \in 0 .. m - 1
    BY <1>2
  <2>2. QED
    BY <2>1 DEF PartialRun
<1> HIDE DEF S
<1>3. Nat \subseteq S
  BY <1>1, <1>2, SetInduction
<1>4. QED
  BY <1>3 DEF S

(* So the whole run does.                                                    *)
LEMMA RunExists ==
  ASSUME NEW v, NEW kk, NEW b
  PROVE  \E B : B = [n \in Nat |-> IF n = 0 THEN b ELSE Bisected(v, kk, B[n - 1])]
<1> DEFINE G(n) == CHOOSE g : PartialRun(v, kk, b, n, g)
           B == [n \in Nat |-> G(n)[n]]
<1>1. \A n \in Nat : PartialRun(v, kk, b, n, G(n))
  BY PartialRunExists
<1> HIDE DEF G
<1>2. ASSUME NEW n \in Nat PROVE B[n] = IF n = 0 THEN b ELSE Bisected(v, kk, B[n - 1])
  <2>1. CASE n = 0
    BY <2>1, <1>1 DEF PartialRun
  <2>2. CASE n # 0
    <3>1. n - 1 \in Nat /\ n - 1 \in 0 .. n - 1 /\ (n - 1) + 1 = n
      BY <2>2
    <3>2. G(n)[n] = Bisected(v, kk, G(n)[n - 1])
      BY <3>1, <1>1 DEF PartialRun
    <3>3. G(n)[n - 1] = G(n - 1)[n - 1]
      BY <3>1, <1>1, PartialRunUnique
    <3>4. QED
      BY <2>2, <3>1, <3>2, <3>3
  <2>3. QED
    BY <2>1, <2>2
<1>3. B = [n \in Nat |-> B[n]]
  OBVIOUS
<1> HIDE DEF B
<1>4. B = [n \in Nat |-> IF n = 0 THEN b ELSE Bisected(v, kk, B[n - 1])]
  BY <1>2, <1>3
<1>5. QED
  BY <1>4

(* SequentialBounds is that run.                                             *)
LEMMA SequentialRun == IsRun(vals, k, lift, SequentialBounds)
<1> DEFINE b == <<0, MaxIn(vals) + lift>>
<1>1. SequentialBounds =
        CHOOSE B : B = [n \in Nat |-> IF n = 0 THEN b ELSE Bisected(vals, k, B[n - 1])]
  BY DEF SequentialBounds, Bisected, Count, AtLeast, CountAtLeast, MaxIn, Largest
<1>2. SequentialBounds = [n \in Nat |-> IF n = 0 THEN b ELSE Bisected(vals, k, SequentialBounds[n - 1])]
  BY <1>1, RunExists
<1>3. SequentialBounds[0] = b
  BY <1>2
<1>4. ASSUME NEW i \in Nat PROVE SequentialBounds[i + 1] = Bisected(vals, k, SequentialBounds[i])
  <2>1. i + 1 \in Nat /\ i + 1 # 0 /\ (i + 1) - 1 = i
    OBVIOUS
  <2>2. QED
    BY <2>1, <1>2
<1>5. QED
  BY <1>3, <1>4 DEF IsRun

-----------------------------------------------------------------------------
(* Ranks count from zero, without gaps.                                      *)
LEMMA Ranks ==
  ASSUME NEW S \in SUBSET Nat, IsFiniteSet(S)
  PROVE  /\ \A i \in S : Rank(S, i) \in 0 .. Cardinality(S) - 1
         /\ \A i, j \in S : i < j => Rank(S, i) < Rank(S, j)
         /\ \A r \in 0 .. Cardinality(S) - 1 : \E i \in S : Rank(S, i) = r
<1>1. \A i : Rank(S, i) = SmallerIn(S, i)
  BY DEF Rank, SmallerIn
<1>2. QED
  BY <1>1, Places

(* The first kk members, ascending; all of them where there are but kk.      *)
LEMMA FirstMembers ==
  ASSUME NEW S \in SUBSET Nat, IsFiniteSet(S), NEW kk \in Nat, kk <= Cardinality(S)
  PROVE  /\ FirstOf(kk, S) \in Seq(S) /\ Len(FirstOf(kk, S)) = kk
         /\ \A p, q \in 1 .. kk : p < q => FirstOf(kk, S)[p] < FirstOf(kk, S)[q]
         /\ kk = Cardinality(S) => {FirstOf(kk, S)[p] : p \in 1 .. kk} = S
<1>1. Cardinality(S) \in Nat
  BY FS_CardinalityType
<1>2. Min({kk, Cardinality(S)}) = kk
  BY <1>1, MinOfPair
<1>3. PICK F : F = FirstOf(kk, S)
  OBVIOUS
<1>4. F = [p \in 1 .. kk |-> CHOOSE i \in S : Rank(S, i) = p - 1]
  BY <1>2, <1>3 DEF FirstOf
<1>5. ASSUME NEW p \in 1 .. kk PROVE F[p] \in S /\ Rank(S, F[p]) = p - 1
  <2>1. p - 1 \in 0 .. Cardinality(S) - 1
    BY <1>1
  <2>2. \E i \in S : Rank(S, i) = p - 1
    BY <2>1, Ranks
  <2>3. QED
    BY <2>2, <1>4
<1>6. F \in Seq(S) /\ Len(F) = kk
  <2>1. F = [p \in 1 .. kk |-> F[p]]
    BY <1>4
  <2>2. QED
    BY <2>1, <1>5, IsASeq
<1>7. ASSUME NEW p \in 1 .. kk, NEW q \in 1 .. kk, p < q PROVE F[p] < F[q]
  <2>1. /\ F[p] \in S /\ F[q] \in S /\ F[p] \in Nat /\ F[q] \in Nat
        /\ Rank(S, F[p]) = p - 1 /\ Rank(S, F[q]) = q - 1
    BY <1>5
  <2>2. ~ (F[q] < F[p]) /\ F[q] # F[p]
    BY <2>1, <1>7, Ranks
  <2>3. QED
    BY <2>1, <2>2
<1>8. ASSUME kk = Cardinality(S), NEW i \in S PROVE \E p \in 1 .. kk : F[p] = i
  <2>1. Rank(S, i) \in 0 .. kk - 1
    BY <1>8, Ranks
  <2>2. Rank(S, i) + 1 \in 1 .. kk /\ (Rank(S, i) + 1) - 1 = Rank(S, i)
    BY <2>1
  <2>3. F[Rank(S, i) + 1] \in S /\ Rank(S, F[Rank(S, i) + 1]) = Rank(S, i)
    BY <2>2, <1>5
  <2>4. PICK j \in S : j = F[Rank(S, i) + 1] /\ Rank(S, j) = Rank(S, i)
    BY <2>3
  <2>5. ~ (i < j) /\ ~ (j < i)
    BY <2>1, <2>4, Ranks
  <2>6. i = j
    BY <2>5
  <2>7. QED
    BY <2>2, <2>4, <2>6
<1>9. kk = Cardinality(S) => {F[p] : p \in 1 .. kk} = S
  BY <1>5, <1>8
<1>10. QED
  BY <1>3, <1>6, <1>7, <1>9

-----------------------------------------------------------------------------
(* What is known when all warps are done.                                    *)
LEMMA AtTheEnd ==
  ASSUME TInv, Done
  PROVE  /\ out = FirstOf(k, AtLeast(vals, s_lo))
         /\ Brackets(vals, k, lift, s_lo, s_hi)
         /\ SequentialBounds[Iters] = <<s_lo, s_hi>>
         /\ AtLeast(vals, s_lo) \in SUBSET Nat /\ IsFiniteSet(AtLeast(vals, s_lo))
         /\ k \in Nat \ {0} /\ k <= Cardinality(AtLeast(vals, s_lo))
         /\ vals \in [Indices -> 0 .. MaxVal] /\ s_lo \in Int /\ s_hi \in Int
<1>1. pc[0] = "done" /\ iter[0] = Iters /\ Known
  BY Partition DEF Done, TInv, Lockstep, Known, At
<1>2. out = FirstOf(k, AtLeast(vals, s_lo)) /\ Brackets(vals, k, lift, s_lo, s_hi)
  BY <1>1 DEF TInv, Data, Written, BoundsOK
<1>3. SequentialBounds[Iters] = <<s_lo, s_hi>>
  BY <1>1, SequentialRun DEF TInv, Data, BoundsOK
<1>4. vals \in [Indices -> 0 .. MaxVal] /\ s_lo \in Int /\ s_hi \in Int /\ k \in 1 .. N
  BY DEF TInv, Types
<1>5. AtLeast(vals, s_lo) \in SUBSET Nat /\ IsFiniteSet(AtLeast(vals, s_lo))
  <2>1. AtLeast(vals, s_lo) \in SUBSET Indices
    BY DEF AtLeast
  <2>2. QED
    BY <2>1, Partition, FS_Subset
<1>6. k <= Cardinality(AtLeast(vals, s_lo))
  <2>1. Count(vals, s_lo) >= k /\ Count(vals, s_lo) \in Nat
    BY <1>2, <1>4, Counts, TopkAssumption DEF Brackets
  <2>2. QED
    BY <2>1, <1>4 DEF Count
<1>7. k \in Nat \ {0}
  BY <1>4, TopkAssumption
<1>8. QED
  BY <1>2, <1>3, <1>4, <1>5, <1>6, <1>7

(* The barriers order every access: for any number of warps, no shared cell  *)
(* is written by one warp while another reads or writes it                   *)
(* (topk_select.cu:28-60, reduce.cuh:20-63).                                 *)
THEOREM NoRace == Spec => []RaceFree
<1>1. TInv => RaceFree
  <2> SUFFICES ASSUME TInv, NEW v \in Warps, NEW w \in Warps, v # w
               PROVE  Writes(v) \cap (Reads(w) \cup Writes(w)) = {}
    BY DEF RaceFree
  <2>1. Phase(pc[v]) = Phase(pc[w]) /\ pc[v] \in Steps /\ pc[w] \in Steps
    BY DEF TInv, Types, Lockstep
  <2>2. CASE At(v, "max") \/ At(v, "count")
    <3>1. Writes(v) = {<<"sdata", v>>}
      <4>1. ~ ((At(v, "bounds") \/ At(v, "bisect")) /\ v = 0) /\ ~ (At(v, "mid") /\ v = 0)
        BY <2>2 DEF At
      <4>2. QED
        BY <2>2, <4>1 DEF Writes
    <3>2. <<"sdata", v>> \notin Writes(w)
      BY <2>1, <2>2 DEF Writes, At, Phase
    <3>3. <<"sdata", v>> \notin Reads(w)
      BY <2>1, <2>2 DEF Reads, At, Phase
    <3>4. QED
      BY <3>1, <3>2, <3>3
  <2>3. CASE v = 0 /\ (At(v, "bounds") \/ At(v, "bisect") \/ At(v, "mid"))
    <3>1. Writes(w) = {}
      BY <2>1, <2>3 DEF Writes, At, Phase
    <3>2. Reads(w) = {}
      BY <2>1, <2>3 DEF Reads, At, Phase
    <3>3. QED
      BY <3>1, <3>2
  <2>4. CASE ~ (At(v, "max") \/ At(v, "count"))
             /\ ~ (v = 0 /\ (At(v, "bounds") \/ At(v, "bisect") \/ At(v, "mid")))
    BY <2>4 DEF Writes
  <2>5. QED
    BY <2>2, <2>3, <2>4
<1>2. QED
  BY <1>1, TopkInvariance, PTL

(* The two bounds keep bracketing the k-th largest value for any input: the  *)
(* comment of topk_select.cu:30-31.                                          *)
THEOREM BoundsBracket == Spec => []Bracketed
<1>1. TInv => Bracketed
  BY DEF TInv, Data, BoundsOK, Known, Brackets, Bracketed, Count, AtLeast, CountAtLeast, MaxIn, Largest
<1>2. QED
  BY <1>1, TopkInvariance, PTL

(* k indices are returned, in ascending order, for any input (ops.py:151-158). *)
THEOREM AllSlotsWritten == Spec => []SelectionComplete
<1>1. TInv => SelectionComplete
  <2> SUFFICES ASSUME TInv, Done
               PROVE  Len(out) = k /\ \A p, q \in 1 .. k : p < q => out[p] < out[q]
    BY DEF SelectionComplete
  <2>1. QED
    BY AtTheEnd, FirstMembers
<1>2. QED
  BY <1>1, TopkInvariance, PTL

(* Whatever the interleaving of any number of warps, the output is that of   *)
(* one thread running the bisection alone (topk_select.cuh:17-19).           *)
THEOREM Deterministic == Spec => []ScheduleIndependent
<1>1. TInv => ScheduleIndependent
  <2> SUFFICES ASSUME TInv, Done
               PROVE  out = FirstK({i \in Indices : vals[i] >= SequentialBounds[Iters][1]})
    BY DEF ScheduleIndependent
  <2>1. SequentialBounds[Iters][1] = s_lo
    BY AtTheEnd
  <2>2. out = FirstOf(k, AtLeast(vals, s_lo))
    BY AtTheEnd
  <2>3. FirstK({i \in Indices : vals[i] >= s_lo}) = FirstOf(k, AtLeast(vals, s_lo))
    BY DEF FirstK, FirstOf, AtLeast
  <2>4. QED
    BY <2>1, <2>2, <2>3
<1>2. QED
  BY <1>1, TopkInvariance, PTL

(* With the bounds next to each other, a maximum that 1e-3f changes and no   *)
(* tie at the cut, the selection is the set of the k largest                 *)
(* (tests/test_m7_kernels.py:51-54).                                         *)
THEOREM SelectsTheLargest == Spec => []SelectsLargest
<1>1. TInv => SelectsLargest
  <2> SUFFICES ASSUME TInv, Done, s_hi - s_lo <= 1, lift > 0, CountAtLeast(Kth) = k
               PROVE  Selected = {i \in Indices : vals[i] >= Kth}
    BY DEF SelectsLargest
  <2>1. /\ 0 <= s_lo /\ Count(vals, s_lo) >= k /\ Count(vals, s_hi) < k
        /\ s_lo \in Int /\ s_hi \in Int /\ k \in Nat \ {0} /\ vals \in [Indices -> 0 .. MaxVal]
    BY AtTheEnd DEF Brackets
  <2>2. /\ \A t \in Int : Count(vals, t) \in Nat
        /\ \A t \in Int : (\A i \in Indices : vals[i] < t) => Count(vals, t) = 0
        /\ \A s, t \in Int : s <= t => Count(vals, t) <= Count(vals, s)
    BY <2>1, Counts, TopkAssumption
  <2>3. s_lo \in 0 .. MaxVal
    <3>1. CASE s_lo > MaxVal
      <4>1. \A i \in Indices : vals[i] < s_lo
        BY <2>1, <3>1, TopkAssumption
      <4>2. Count(vals, s_lo) = 0
        BY <4>1, <2>1, <2>2
      <4>3. QED
        BY <4>2, <2>1
    <3>2. QED
      BY <2>1, <3>1, TopkAssumption
  <2> DEFINE T == {t \in 0 .. MaxVal : Count(vals, t) >= k}
  <2>4. s_lo \in T
    BY <2>1, <2>3
  <2>5. \A t \in T : s_lo >= t
    <3> SUFFICES ASSUME NEW t \in 0 .. MaxVal, Count(vals, t) >= k, ~ (s_lo >= t) PROVE FALSE
      OBVIOUS
    <3>1. s_hi <= t
      BY <2>1
    <3>2. Count(vals, t) <= Count(vals, s_hi) /\ Count(vals, t) \in Nat /\ Count(vals, s_hi) \in Nat
      BY <2>1, <2>2, <3>1
    <3>3. QED
      BY <2>1, <3>2
  <2>6. Max(T) = s_lo
    BY <2>4, <2>5, MaxIs
  <2>7. Kth = s_lo
    BY <2>6 DEF Kth, CountAtLeast, Count, AtLeast
  <2>8. Cardinality(AtLeast(vals, s_lo)) = k
    BY <2>7 DEF CountAtLeast, AtLeast
  <2>9. {FirstOf(k, AtLeast(vals, s_lo))[p] : p \in 1 .. k} = AtLeast(vals, s_lo)
    BY <2>8, AtTheEnd, FirstMembers
  <2>10. DOMAIN out = 1 .. k /\ out = FirstOf(k, AtLeast(vals, s_lo))
    BY AtTheEnd, FirstMembers
  <2>11. Selected = AtLeast(vals, s_lo)
    BY <2>9, <2>10 DEF Selected
  <2>12. QED
    BY <2>7, <2>11 DEF AtLeast
<1>2. QED
  BY <1>1, TopkInvariance, PTL

-----------------------------------------------------------------------------
(* Multiplication by a natural number keeps the order.                       *)
LEMMA Scaled ==
  ASSUME NEW a \in Int, NEW b \in Int, NEW c \in Nat, a <= b
  PROVE  a * c <= b * c
OBVIOUS

(* Each step halves the distance of the bounds, up to rounding.              *)
LEMMA Narrowing ==
  ASSUME NEW v, NEW kk, NEW l \in Nat, NEW B, MaxIn(v) \in Nat, IsRun(v, kk, l, B), NEW n \in Nat
  PROVE  /\ B[n][1] \in Int /\ B[n][2] \in Int /\ B[n] = <<B[n][1], B[n][2]>>
         /\ (B[n][2] - B[n][1] - 1) * 2^n <= MaxIn(v) + l
<1> DEFINE Narrow(i) == /\ B[i][1] \in Int /\ B[i][2] \in Int /\ B[i] = <<B[i][1], B[i][2]>>
                        /\ (B[i][2] - B[i][1] - 1) * 2^i <= MaxIn(v) + l
           S == {i \in Nat : Narrow(i)}
<1>1. 0 \in S
  <2>1. B[0] = <<0, MaxIn(v) + l>>
    BY DEF IsRun
  <2>2. 2^0 = 1
    <3>1. Cardinality(SUBSET {}) = 2^0
      BY FS_SUBSET, FS_EmptySet
    <3>2. SUBSET {} = {{}}
      OBVIOUS
    <3>3. QED
      BY <3>1, <3>2, FS_Singleton
  <2>3. QED
    BY <2>1, <2>2
<1>2. ASSUME NEW i \in Nat, i \in S PROVE i + 1 \in S
  <2>1. PICK lo \in Int, hi \in Int : B[i] = <<lo, hi>> /\ (hi - lo - 1) * 2^i <= MaxIn(v) + l
    BY <1>2
  <2>2. B[i + 1] = Bisected(v, kk, <<lo, hi>>)
    BY <2>1 DEF IsRun
  <2>3. PICK m \in Int : m = (lo + hi) \div 2 /\ lo + hi - 1 <= 2 * m /\ 2 * m <= lo + hi
    OBVIOUS
  <2>4. PICK a \in Int, b \in Int : B[i + 1] = <<a, b>> /\ 2 * (b - a - 1) <= hi - lo - 1
    <3>1. B[i + 1] = <<m, hi>> \/ B[i + 1] = <<lo, m>>
      BY <2>2, <2>3 DEF Bisected
    <3>2. 2 * (hi - m - 1) <= hi - lo - 1 /\ 2 * (m - lo - 1) <= hi - lo - 1
      BY <2>3
    <3>3. QED
      BY <3>1, <3>2
  <2>5. PICK p \in Nat : p = 2^i /\ 2^(i + 1) = 2 * p
    BY Doubling
  <2>6. (2 * (b - a - 1)) * p <= (hi - lo - 1) * p
    <3>1. 2 * (b - a - 1) \in Int /\ hi - lo - 1 \in Int
      OBVIOUS
    <3>2. QED
      BY <3>1, <2>4, Scaled
  <2>7. (b - a - 1) * (2 * p) = (2 * (b - a - 1)) * p
    OBVIOUS
  <2>8. (b - a - 1) * 2^(i + 1) <= MaxIn(v) + l
    <3>1. /\ (b - a - 1) * (2 * p) \in Int /\ (hi - lo - 1) * p \in Int /\ MaxIn(v) + l \in Int
          /\ (hi - lo - 1) * p <= MaxIn(v) + l
      BY <2>1, <2>5
    <3>2. QED
      BY <3>1, <2>5, <2>6, <2>7
  <2>9. QED
    BY <2>4, <2>8
<1> HIDE DEF S
<1>3. Nat \subseteq S
  BY <1>1, <1>2, SetInduction
<1>4. QED
  BY <1>3 DEF S

(* Nothing selected is farther below the k-th largest value than the last    *)
(* interval of the bisection, also where the maximum swallows the 1e-3f      *)
(* (topk_select.cu:26, 37-60).                                               *)
THEOREM SelectionIsNear == Spec => []SelectedNearKth
<1>1. TInv => SelectedNearKth
  <2> SUFFICES ASSUME TInv, Done, NEW i \in Selected
               PROVE  (Kth - vals[i]) * 2^Iters <= Largest + lift + 2^Iters
    BY DEF SelectedNearKth
  <2>1. /\ Brackets(vals, k, lift, s_lo, s_hi) /\ SequentialBounds[Iters] = <<s_lo, s_hi>>
        /\ s_lo \in Int /\ s_hi \in Int /\ k \in Nat \ {0} /\ vals \in [Indices -> 0 .. MaxVal]
    BY AtTheEnd
  <2>2. k <= N /\ N \in Nat /\ lift \in Nat /\ Iters \in Nat /\ MaxVal \in Nat
    BY TopkAssumption DEF TInv, Types
  <2>3. /\ Largest = MaxIn(vals) /\ MaxIn(vals) \in 0 .. MaxVal
        /\ \A j \in Indices : vals[j] <= MaxIn(vals)
    <3>1. \A w \in Warps : [u \in Warps |-> OwnMax(vals, u)][w] = OwnMax(vals, w)
      OBVIOUS
    <3>2. QED
      BY <3>1, <2>1, MaxTotal DEF Largest, MaxIn
  <2>4. /\ \A t \in Int : Count(vals, t) \in Nat
        /\ Count(vals, 0) = N
        /\ \A t \in Int : (\A j \in Indices : vals[j] < t) => Count(vals, t) = 0
        /\ \A s, t \in Int : s <= t => Count(vals, t) <= Count(vals, s)
    BY <2>1, Counts, TopkAssumption
  <2> DEFINE T == {t \in 0 .. MaxVal : Count(vals, t) >= k}
  <2>5. Kth \in T
    <3>1. Kth = Max(T)
      BY DEF Kth, CountAtLeast, Count, AtLeast
    <3>2. T \in SUBSET (0 .. MaxVal) /\ 0 \in T
      BY <2>1, <2>2, <2>4
    <3> HIDE DEF T
    <3>3. QED
      BY <3>1, <3>2, <2>2, MaxOf
  <2>6. Kth \in Int /\ Kth <= s_hi
    <3>1. Kth \in Int /\ Count(vals, Kth) >= k
      BY <2>5
    <3>2. CASE Count(vals, s_hi) < k
      <4>1. s_hi <= Kth => Count(vals, Kth) <= Count(vals, s_hi)
        BY <2>1, <2>4, <3>1
      <4>2. Count(vals, Kth) \in Nat /\ Count(vals, s_hi) \in Nat
        BY <2>1, <2>4, <3>1
      <4>3. QED
        BY <2>1, <3>1, <3>2, <4>1, <4>2
    <3>3. CASE s_hi = MaxIn(vals)
      <4>1. Count(vals, Kth) # 0
        BY <2>1, <2>4, <3>1
      <4>2. PICK j \in Indices : ~ (vals[j] < Kth)
        BY <4>1, <2>4, <3>1
      <4>3. vals[j] \in Int /\ vals[j] <= MaxIn(vals)
        BY <2>1, <2>3
      <4>4. QED
        BY <2>1, <3>1, <3>3, <4>2, <4>3
    <3>4. QED
      BY <2>1, <3>2, <3>3 DEF Brackets
  <2>7. vals[i] \in Int /\ s_lo <= vals[i]
    <3>1. out \in Seq(AtLeast(vals, s_lo))
      BY AtTheEnd, FirstMembers
    <3>2. i \in AtLeast(vals, s_lo)
      BY <3>1 DEF Selected
    <3>3. QED
      BY <3>2, <2>1 DEF AtLeast
  <2>8. PICK p \in Nat : p = 2^Iters
    BY <2>2, Doubling
  <2>9. (s_hi - s_lo - 1) * p <= MaxIn(vals) + lift
    <3>1. (SequentialBounds[Iters][2] - SequentialBounds[Iters][1] - 1) * 2^Iters <= MaxIn(vals) + lift
      <4>1. IsRun(vals, k, lift, SequentialBounds)
        BY SequentialRun
      <4>2. MaxIn(vals) \in Nat
        BY <2>3
      <4> HIDE DEF T
      <4>3. QED
        BY <4>1, <4>2, <2>2, Narrowing
    <3>2. QED
      BY <3>1, <2>1, <2>8
  <2>10. (Kth - vals[i]) * p <= (s_hi - s_lo) * p
    <3>1. Kth - vals[i] \in Int /\ s_hi - s_lo \in Int /\ Kth - vals[i] <= s_hi - s_lo
      BY <2>1, <2>6, <2>7
    <3>2. QED
      BY <3>1, Scaled
  <2>11. (s_hi - s_lo) * p = (s_hi - s_lo - 1) * p + p
    BY <2>1
  <2>12. (Kth - vals[i]) * p <= MaxIn(vals) + lift + p
    <3>1. /\ (Kth - vals[i]) * p \in Int /\ (s_hi - s_lo) * p \in Int
          /\ (s_hi - s_lo - 1) * p \in Int /\ MaxIn(vals) + lift \in Int
      BY <2>1, <2>2, <2>3, <2>6, <2>7
    <3>2. QED
      BY <3>1, <2>9, <2>10, <2>11
  <2>13. QED
    BY <2>3, <2>8, <2>12
<1>2. QED
  BY <1>1, TopkInvariance, PTL

=============================================================================
