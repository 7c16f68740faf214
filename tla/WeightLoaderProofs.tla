--------------------------- MODULE WeightLoaderProofs ---------------------------
(***************************************************************************)
(* The arena keeps every registered row, for all shapes and any number of  *)
(* layers and matrices: the spans lie one behind the other up to           *)
(* write_offset, and a new one only touches what is behind it (LInv).      *)
(* And the two passes over the checkpoint fit each other (FInv): the names *)
(* are registered in the order of the load, each once, so write_offset is  *)
(* the sum of what they take, and the plan the sum of what they need.      *)
(***************************************************************************)
EXTENDS WeightLoader, NumberLemmas

(* At least one group holds at least one value.                              *)
LEMMA CeilIsPositive ==
  ASSUME NEW a \in Nat \ {0}, NEW b \in Nat \ {0}
  PROVE  CeilDiv(a, b) \in Nat \ {0}
BY DEF CeilDiv

-----------------------------------------------------------------------------
(* In a concatenation of N sequences of P members each, the i-th member of   *)
(* the l-th is at (l - 1) * P + i.                                           *)
Concatenated(S, m, P, seqs, s) ==
  /\ s \in Seq(S) /\ Len(s) = m * P
  /\ \A l \in 1 .. m, i \in 1 .. P : s[(l - 1) * P + i] = seqs[l][i]

LEMMA OneMore ==
  ASSUME NEW S, NEW m \in Nat, NEW P \in Nat \ {0}, NEW seqs,
         seqs[m + 1] \in Seq(S), Len(seqs[m + 1]) = P,
         NEW s, Concatenated(S, m, P, seqs, s)
  PROVE  Concatenated(S, m + 1, P, seqs, s \o seqs[m + 1])
<1> DEFINE t == seqs[m + 1]
<1>1. /\ s \in Seq(S) /\ Len(s) = m * P /\ t \in Seq(S) /\ Len(t) = P
      /\ \A l \in 1 .. m, i \in 1 .. P : s[(l - 1) * P + i] = seqs[l][i]
  BY DEF Concatenated
<1> HIDE DEF t
<1>2. m * P \in Nat /\ (m + 1) * P = m * P + P
  OBVIOUS
<1>3. s \o t \in Seq(S) /\ Len(s \o t) = (m + 1) * P
  <2>1. s \o t \in Seq(S) /\ Len(s \o t) = Len(s) + Len(t)
    BY <1>1, Together
  <2>2. QED
    BY <1>1, <1>2, <2>1
<1>4. /\ \A p \in 1 .. m * P : (s \o t)[p] = s[p]
      /\ \A i \in 1 .. P : (s \o t)[m * P + i] = t[i]
  <2> DEFINE n == m * P
  <2>1. n \in Nat /\ Len(s) = n
    BY <1>1, <1>2
  <2> HIDE DEF n
  <2>2. \A p \in 1 .. n + P : (s \o t)[p] = IF p <= n THEN s[p] ELSE t[p - n]
    BY <1>1, <2>1, Together
  <2>3. \A p \in 1 .. n : p \in 1 .. n + P /\ p <= n
    BY <2>1
  <2>4. \A i \in 1 .. P : n + i \in 1 .. n + P /\ ~ (n + i <= n) /\ (n + i) - n = i
    BY <2>1
  <2>5. \A p \in 1 .. n : (s \o t)[p] = s[p]
    BY <2>2, <2>3
  <2>6. \A i \in 1 .. P : (s \o t)[n + i] = t[i]
    <3> DEFINE u == s \o t
    <3>1. \A p \in 1 .. n + P : u[p] = IF p <= n THEN s[p] ELSE t[p - n]
      BY <2>2
    <3> HIDE DEF u
    <3>2. \A i \in 1 .. P : u[n + i] = t[i]
      BY <2>4, <3>1
    <3>3. QED
      BY <3>2 DEF u
  <2>7. QED
    BY <2>5, <2>6 DEF n
<1>5. ASSUME NEW l \in 1 .. m + 1, NEW i \in 1 .. P
      PROVE  (s \o t)[(l - 1) * P + i] = seqs[l][i]
  <2>1. CASE l = m + 1
    <3>1. (l - 1) * P + i = m * P + i
      BY <2>1
    <3>2. QED
      BY <1>4, <2>1, <3>1 DEF t
  <2>2. CASE l \in 1 .. m
    <3>1. (l - 1) * P + (i - 1) \in 0 .. m * P - 1
      <4>1. l - 1 \in 0 .. m - 1 /\ i - 1 \in 0 .. P - 1
        BY <2>2
      <4>2. QED
        BY <4>1, WithinSpan
    <3>2. (l - 1) * P + i \in 1 .. m * P
      <4>1. (l - 1) * P \in Int
        OBVIOUS
      <4>2. QED
        BY <1>2, <3>1, <4>1
    <3>3. QED
      BY <1>1, <1>4, <2>2, <3>2
  <2>3. l = m + 1 \/ l \in 1 .. m
    OBVIOUS
  <2>4. QED
    BY <2>1, <2>2, <2>3
<1>6. QED
  BY <1>3, <1>5 DEF Concatenated, t

LEMMA Flattened ==
  ASSUME NEW S, NEW N \in Nat \ {0}, NEW P \in Nat \ {0}, NEW seqs \in [1 .. N -> Seq(S)],
         \A l \in 1 .. N : Len(seqs[l]) = P
  PROVE  Concatenated(S, N, P, seqs, FlattenSeq(seqs))
<1> DEFINE Good(m, s) == Concatenated(S, m, P, seqs, s)
<1>1. \A m \in 1 .. N - 1 : \A s : Good(m, s) => Good(m + 1, s \o seqs[m + 1])
  <2> TAKE m \in 1 .. N - 1
  <2>1. m + 1 \in 1 .. N /\ m \in Nat
    OBVIOUS
  <2>2. seqs[m + 1] \in Seq(S) /\ Len(seqs[m + 1]) = P
    BY <2>1
  <2>3. ASSUME NEW s, Concatenated(S, m, P, seqs, s)
        PROVE  Concatenated(S, m + 1, P, seqs, s \o seqs[m + 1])
    <3> HIDE DEF Good
    <3>1. QED
      BY <2>1, <2>2, <2>3, OneMore
  <2>4. QED
    BY <2>3
<1>2. Good(1, seqs[1])
  <2>1. seqs[1] \in Seq(S) /\ Len(seqs[1]) = 1 * P
    OBVIOUS
  <2>2. \A l \in 1 .. 1, i \in 1 .. P : (l - 1) * P + i = i /\ l = 1
    OBVIOUS
  <2>3. QED
    BY <2>1, <2>2 DEF Concatenated
<1> HIDE DEF Good
<1> DEFINE g == CHOOSE f : Joins(seqs, N, f)
<1>3. Joins(seqs, N, g)
  <2>1. \E f : Joins(seqs, N, f)
    BY JoinExists
  <2>2. QED
    BY <2>1
<1> HIDE DEF g
<1>4. g[1] = seqs[1] /\ \A m \in 1 .. N - 1 : g[m + 1] = g[m] \o seqs[m + 1]
  <2>1. N \in Nat \ {0}
    OBVIOUS
  <2>2. \A f : Joins(seqs, N, f) =>
          f[1] = seqs[1] /\ \A m \in 1 .. N - 1 : f[m + 1] = f[m] \o seqs[m + 1]
    BY <2>1, JoinSteps
  <2>3. QED
    BY <1>3, <2>2
<1>5. N - 1 \in Nat /\ N - 1 < N /\ (N - 1) + 1 = N
  OBVIOUS
<1> DEFINE At(m) == m < N => Good(m + 1, g[m + 1])
           U == {m \in Nat : At(m)}
<1>6. At(0)
  <2>1. 0 + 1 = 1
    OBVIOUS
  <2>2. QED
    BY <1>2, <1>4, <2>1
<1>7. ASSUME NEW m \in Nat, At(m) PROVE At(m + 1)
  <2> SUFFICES ASSUME m + 1 < N PROVE Good((m + 1) + 1, g[(m + 1) + 1])
    OBVIOUS
  <2>1. m + 1 \in 1 .. N - 1 /\ m + 1 \in 1 .. N /\ (m + 1) + 1 \in 1 .. N /\ m < N
    OBVIOUS
  <2>2. g[(m + 1) + 1] = g[m + 1] \o seqs[(m + 1) + 1]
    BY <2>1, <1>4
  <2>3. Good(m + 1, g[m + 1])
    BY <2>1, <1>7
  <2>4. QED
    BY <1>1, <2>1, <2>2, <2>3
<1>8. Nat \subseteq U
  <2> HIDE DEF At
  <2>1. 0 \in U /\ \A m \in Nat : m \in U => m + 1 \in U
    BY <1>6, <1>7
  <2> HIDE DEF U
  <2>2. QED
    BY <2>1, SetInduction
<1>9. Good(N, g[N])
  <2>1. At(N - 1)
    <3> HIDE DEF At
    <3>1. QED
      BY <1>8, <1>5
  <2>2. QED
    BY <2>1, <1>5
<1>10. FlattenSeq(seqs) = g[N]
  <2>1. Len(seqs) = N
    OBVIOUS
  <2>2. FlattenSeq(seqs) = (CHOOSE f : Joins(seqs, N, f))[N]
    BY <2>1 DEF FlattenSeq, Joins
  <2>3. QED
    BY <2>2 DEF g
<1>11. QED
  BY <1>9, <1>10 DEF Good

-----------------------------------------------------------------------------
(* What the load registers: every place in its order holds the name of a     *)
(* matrix of the model, and there is at least one.                           *)
MatrixSuffixes == ToSet(LinearSuffixes) \cup {DownT}
Names == (1 .. NumLayers) \X MatrixSuffixes

(* The down projection is one of the linear matrices.                        *)
LEMMA DownIsLinear == Down \in ToSet(LinearSuffixes)
<1>1. LinearSuffixes \in Seq(STRING) /\ Len(LinearSuffixes) \in DOMAIN LinearSuffixes
  BY LoaderAssumption
<1>2. QED
  BY <1>1 DEF Down, Last, ToSet

(* The matrices of a layer, and of the model, as they are registered.        *)
LayerSuffixes == ToSet(LinearSuffixes) \cup IF include_down_proj_t THEN {DownT} ELSE {}
Loaded == (1 .. NumLayers) \X LayerSuffixes
InLayer == Len(LinearSuffixes) + IF include_down_proj_t THEN 1 ELSE 0
SuffixAt(i) == IF i <= Len(LinearSuffixes) THEN LinearSuffixes[i] ELSE DownT

LEMMA LayerOrders ==
  /\ InLayer \in Nat \ {0}
  /\ \A l \in 1 .. NumLayers : /\ LayerOrder(l) \in Seq(Names) /\ Len(LayerOrder(l)) = InLayer
                                /\ \A i \in 1 .. InLayer : LayerOrder(l)[i] = <<l, SuffixAt(i)>>
  /\ {SuffixAt(i) : i \in 1 .. InLayer} = LayerSuffixes
  /\ \A i, j \in 1 .. InLayer : SuffixAt(i) = SuffixAt(j) => i = j
<1> DEFINE K == Len(LinearSuffixes)
<1>1. /\ NumLayers \in Nat \ {0} /\ K \in Nat \ {0} /\ DOMAIN LinearSuffixes = 1 .. K
      /\ \A i, j \in 1 .. K : LinearSuffixes[i] = LinearSuffixes[j] => i = j
      /\ \A i \in 1 .. K : LinearSuffixes[i] # DownT /\ LinearSuffixes[i] \in MatrixSuffixes
      /\ ToSet(LinearSuffixes) = {LinearSuffixes[i] : i \in 1 .. K}
  BY LoaderAssumption DEF IsInjective, ToSet, MatrixSuffixes
<1> HIDE DEF K
<1>2. InLayer = K + (IF include_down_proj_t THEN 1 ELSE 0) /\ InLayer \in Nat \ {0}
  BY <1>1 DEF InLayer, K
<1>3. \A i \in 1 .. InLayer : SuffixAt(i) = IF i <= K THEN LinearSuffixes[i] ELSE DownT
  BY DEF SuffixAt, K
<1>4. ASSUME NEW l \in 1 .. NumLayers
      PROVE  /\ LayerOrder(l) \in Seq(Names) /\ Len(LayerOrder(l)) = InLayer
             /\ \A i \in 1 .. InLayer : LayerOrder(l)[i] = <<l, SuffixAt(i)>>
  <2> DEFINE linear == [i \in 1 .. K |-> <<l, LinearSuffixes[i]>>]
  <2>1. linear \in [1 .. K -> Names] /\ <<l, DownT>> \in Names
    BY <1>1 DEF Names, MatrixSuffixes
  <2>2. linear \in Seq(Names) /\ Len(linear) = K /\ \A i \in 1 .. K : linear[i] = <<l, LinearSuffixes[i]>>
    <3>1. \A i \in 1 .. K : linear[i] = <<l, LinearSuffixes[i]>>
      OBVIOUS
    <3> HIDE DEF linear
    <3>2. QED
      BY <1>1, <2>1, <3>1
  <2>3. LayerOrder(l) = linear \o IF include_down_proj_t THEN << <<l, DownT>> >> ELSE <<>>
    BY DEF LayerOrder, K
  <2> HIDE DEF linear
  <2>4. CASE include_down_proj_t
    <3> DEFINE last == << <<l, DownT>> >>
    <3>1. last \in Seq(Names) /\ Len(last) = 1 /\ last[1] = <<l, DownT>>
      BY <2>1
    <3>2. LayerOrder(l) = linear \o last
      BY <2>3, <2>4
    <3> HIDE DEF last
    <3>3. linear \o last \in Seq(Names) /\ Len(linear \o last) = K + 1
      <4>1. linear \o last \in Seq(Names) /\ Len(linear \o last) = Len(linear) + Len(last)
        BY <2>2, <3>1, Together
      <4>2. QED
        BY <2>2, <3>1, <4>1
    <3>4. \A i \in 1 .. K + 1 : (linear \o last)[i] = IF i <= K THEN linear[i] ELSE last[i - K]
      <4>1. \A i \in 1 .. Len(linear) + Len(last) :
              (linear \o last)[i] = IF i <= Len(linear) THEN linear[i] ELSE last[i - Len(linear)]
        BY <2>2, <3>1, Together
      <4>2. QED
        BY <2>2, <3>1, <4>1
    <3>5. \A i \in 1 .. K + 1 : ~ (i <= K) => i - K = 1
      <4>1. K \in Nat
        BY <1>1
      <4>2. QED
        BY <4>1
    <3>6. InLayer = K + 1
      BY <1>2, <2>4
    <3>7. QED
      BY <1>1, <1>3, <2>2, <3>1, <3>2, <3>3, <3>4, <3>5, <3>6
  <2>5. CASE ~ include_down_proj_t
    <3>1. linear \o <<>> = linear
      BY <2>2
    <3>2. LayerOrder(l) = linear /\ InLayer = K
      BY <1>1, <1>2, <2>3, <2>5, <3>1
    <3>3. QED
      BY <1>1, <1>3, <2>2, <3>2
  <2>6. QED
    BY <2>4, <2>5
<1>5. {SuffixAt(i) : i \in 1 .. InLayer} = LayerSuffixes
  <2>1. CASE include_down_proj_t
    <3>1. InLayer = K + 1 /\ K + 1 \in 1 .. K + 1 /\ ~ (K + 1 <= K)
      BY <1>1, <1>2, <2>1
    <3>2. \A i \in 1 .. K : i \in 1 .. K + 1 /\ i <= K
      BY <1>1
    <3>3. \A i \in 1 .. K + 1 : i <= K => i \in 1 .. K
      BY <1>1
    <3>4. QED
      BY <1>1, <1>3, <2>1, <3>1, <3>2, <3>3 DEF LayerSuffixes
  <2>2. CASE ~ include_down_proj_t
    <3>1. InLayer = K /\ \A i \in 1 .. K : i <= K
      BY <1>1, <1>2, <2>2
    <3>2. QED
      BY <1>1, <1>3, <2>2, <3>1 DEF LayerSuffixes
  <2>3. QED
    BY <2>1, <2>2
<1>6. \A i, j \in 1 .. InLayer : SuffixAt(i) = SuffixAt(j) => i = j
  <2> TAKE i, j \in 1 .. InLayer
  <2>1. i \in Int /\ j \in Int /\ (i \in 1 .. K \/ i = K + 1) /\ (j \in 1 .. K \/ j = K + 1)
    BY <1>1, <1>2
  <2>2. i \in 1 .. K <=> i <= K
    BY <1>1, <2>1
  <2>3. j \in 1 .. K <=> j <= K
    BY <1>1, <2>1
  <2>4. QED
    BY <1>1, <1>3, <2>1, <2>2, <2>3
<1>7. QED
  BY <1>2, <1>4, <1>5, <1>6

(* The order of the load holds each name of the model once.                  *)
LEMMA Order ==
  /\ LoadOrder \in Seq(Names) /\ Len(LoadOrder) > 0
  /\ ToSet(LoadOrder) = Loaded
  /\ \A p, q \in 1 .. Len(LoadOrder) : LoadOrder[p] = LoadOrder[q] => p = q
<1> DEFINE P == InLayer
           N == NumLayers
           seqs == [l \in 1 .. N |-> LayerOrder(l)]
<1>1. N \in Nat \ {0} /\ P \in Nat \ {0}
  BY LoaderAssumption, LayerOrders
<1>2. Concatenated(Names, N, P, seqs, LoadOrder)
  <2>1. seqs \in [1 .. N -> Seq(Names)] /\ \A l \in 1 .. N : Len(seqs[l]) = P
    BY LayerOrders
  <2>2. LoadOrder = FlattenSeq(seqs)
    BY DEF LoadOrder
  <2> HIDE DEF seqs, N, P
  <2>3. QED
    BY <1>1, <2>1, <2>2, Flattened
<1> HIDE DEF P
<1>3. /\ LoadOrder \in Seq(Names) /\ Len(LoadOrder) = N * P /\ DOMAIN LoadOrder = 1 .. N * P
      /\ \A l \in 1 .. N, i \in 1 .. P : LoadOrder[(l - 1) * P + i] = <<l, SuffixAt(i)>>
  BY <1>2, LayerOrders DEF Concatenated, P
<1> HIDE DEF seqs, N
<1>4. N * P > 0 /\ N * P \in Nat
  BY <1>1
<1>5. ASSUME NEW p \in 1 .. N * P
      PROVE  \E l \in 1 .. N, i \in 1 .. P : p = (l - 1) * P + i /\ LoadOrder[p] = <<l, SuffixAt(i)>>
  <2> DEFINE a == (p - 1) \div P
             b == (p - 1) % P
  <2>1. p - 1 \in Nat /\ p - 1 < N * P
    BY <1>4
  <2>2. a \in Nat /\ b \in 0 .. P - 1 /\ p - 1 = a * P + b
    BY <1>1, <2>1
  <2> HIDE DEF a, b
  <2>3. a < N
    <3> SUFFICES ASSUME a >= N PROVE FALSE
      BY <1>1, <2>2
    <3> DEFINE d == a - N
    <3>1. d \in Nat /\ a = N + d
      BY <1>1, <2>2
    <3> HIDE DEF d
    <3>2. a * P = N * P + d * P /\ d * P \in Nat
      BY <1>1, <3>1
    <3>3. QED
      BY <1>4, <2>1, <2>2, <3>2
  <2>4. a + 1 \in 1 .. N /\ b + 1 \in 1 .. P /\ (a + 1) - 1 = a /\ a * P \in Nat
    BY <1>1, <2>2, <2>3
  <2>5. p = ((a + 1) - 1) * P + (b + 1)
    BY <1>1, <2>2, <2>4
  <2>6. QED
    BY <1>3, <2>4, <2>5
<1>6. ToSet(LoadOrder) = Loaded
  <2>1. ASSUME NEW l \in 1 .. N, NEW i \in 1 .. P
        PROVE  (l - 1) * P + i \in 1 .. N * P
    <3>1. l - 1 \in 0 .. N - 1 /\ i - 1 \in 0 .. P - 1
      BY <1>1
    <3>2. (l - 1) * P + (i - 1) \in 0 .. N * P - 1 /\ (l - 1) * P \in Int
      BY <1>1, <3>1, WithinSpan
    <3>3. QED
      BY <1>4, <3>2
  <2>2. LayerSuffixes = {SuffixAt(i) : i \in 1 .. P}
    BY LayerOrders DEF P
  <2>3. \A x \in Loaded : \E p \in 1 .. N * P : LoadOrder[p] = x
    BY <1>3, <2>1, <2>2 DEF Loaded, N
  <2>4. ASSUME NEW p \in 1 .. N * P PROVE LoadOrder[p] \in Loaded
    <3>1. PICK l \in 1 .. N, i \in 1 .. P : LoadOrder[p] = <<l, SuffixAt(i)>>
      BY <1>5
    <3>2. QED
      BY <2>2, <3>1 DEF Loaded, N
  <2>5. QED
    BY <1>3, <2>3, <2>4 DEF ToSet
<1>7. ASSUME NEW p \in 1 .. N * P, NEW q \in 1 .. N * P, LoadOrder[p] = LoadOrder[q]
      PROVE  p = q
  <2>1. PICK l \in 1 .. N, i \in 1 .. P : p = (l - 1) * P + i /\ LoadOrder[p] = <<l, SuffixAt(i)>>
    BY <1>5
  <2>2. PICK m \in 1 .. N, j \in 1 .. P : q = (m - 1) * P + j /\ LoadOrder[q] = <<m, SuffixAt(j)>>
    BY <1>5
  <2>3. l = m /\ SuffixAt(i) = SuffixAt(j)
    BY <1>7, <2>1, <2>2
  <2>4. i = j
    BY <2>3, LayerOrders DEF P
  <2>5. QED
    BY <2>1, <2>2, <2>3, <2>4
<1>8. QED
  BY <1>3, <1>4, <1>6, <1>7

-----------------------------------------------------------------------------
(* The span of a handle ends before write_offset, and holds the rows of its  *)
(* matrix.                                                                   *)
SpanOK(h) ==
  /\ h.offset \in Nat /\ h.num_rows \in Nat /\ h.row_nbytes \in Nat \ {0}
  /\ h.offset + h.num_rows * h.row_nbytes <= write_offset
RowsOK(m, h) ==
  \A r \in 0 .. h.num_rows - 1 : \A j \in 0 .. h.row_nbytes - 1 :
    arena[h.offset + r * h.row_nbytes + j] = <<m, r, j>>

ArenaOK ==
  /\ write_offset \in Nat
  /\ \E size \in Nat : DOMAIN arena = 0 .. size - 1 /\ write_offset <= size
InputsOK ==
  /\ shape \in [ToSet(LinearSuffixes) -> Dims \X Dims]
  /\ group_size \in GroupSizes
(* The names registered are those of the matrices loaded; while the load     *)
(* streams there is a next one.                                              *)
ProgressOK ==
  /\ DOMAIN matrices = DOMAIN handles /\ IsFiniteSet(DOMAIN handles)
  /\ status = "planning" => handles = NoHandles /\ write_offset = 0
  /\ status = "streaming" => Cardinality(DOMAIN handles) < Len(LoadOrder)

LInv ==
  /\ InputsOK /\ ArenaOK /\ ProgressOK
  /\ \A m \in DOMAIN handles : SpanOK(handles[m]) /\ RowsOK(m, handles[m])

(* The arena has as many bytes as were pinned.                               *)
LEMMA SpanSize ==
  ASSUME NEW size \in Nat
  PROVE  Cardinality(0 .. size - 1) = size
<1>1. 0 \in Int /\ size - 1 \in Int /\ (IF 0 > size - 1 THEN 0 ELSE size - 1 - 0 + 1) = size
  OBVIOUS
<1>2. QED
  BY <1>1, FS_Interval

LEMMA ArenaSize ==
  ASSUME NEW size \in Nat, DOMAIN arena = 0 .. size - 1
  PROVE  bytes_total = size
BY SpanSize DEF bytes_total

(* What LInv says is what a reader of the arena wants.                       *)
LEMMA Intact == LInv => RowsIntact
<1> SUFFICES ASSUME LInv, NEW m \in DOMAIN handles
             PROVE  LET h == handles[m]
                    IN  /\ h.offset + h.num_rows * h.row_nbytes <= write_offset
                        /\ \A r \in 0 .. h.num_rows - 1 :
                             /\ row_view(h, r) = [j \in 0 .. h.row_nbytes - 1 |-> <<m, r, j>>]
                             /\ rows_view(h, <<r>>) = << row_view(h, r) >>
  BY DEF RowsIntact
<1> DEFINE h == handles[m]
<1>1. SpanOK(h) /\ RowsOK(m, h)
  BY DEF LInv
<1> HIDE DEF h
<1>2. ASSUME NEW r \in 0 .. h.num_rows - 1
      PROVE  row_view(h, r) = [j \in 0 .. h.row_nbytes - 1 |-> <<m, r, j>>]
  <2>1. \A j \in 0 .. h.row_nbytes - 1 : arena[h.offset + r * h.row_nbytes + j] = <<m, r, j>>
    BY <1>1 DEF RowsOK
  <2>2. QED
    BY <2>1 DEF row_view
<1>3. ASSUME NEW r \in 0 .. h.num_rows - 1 PROVE rows_view(h, <<r>>) = << row_view(h, r) >>
  <2>1. matrix_view(h)[r] = row_view(h, r)
    BY DEF matrix_view, row_view
  <2>2. DOMAIN <<r>> = 1 .. 1 /\ <<r>>[1] = r
    OBVIOUS
  <2>3. rows_view(h, <<r>>) = [i \in 1 .. 1 |-> row_view(h, r)]
    BY <2>1, <2>2 DEF rows_view
  <2>4. QED
    BY <2>3
<1>4. QED
  BY <1>1, <1>2, <1>3 DEF SpanOK, h

-----------------------------------------------------------------------------
(* Sizes are natural numbers.                                                *)
LEMMA Sizes ==
  /\ \A k \in Nat \ {0} : PackedRow(k) \in Nat \ {0}
  /\ InputsOK => \A x \in MatrixSuffixes : \A l :
       /\ ShapeOf(<<l, x>>)[1] \in Nat \ {0} /\ ShapeOf(<<l, x>>)[2] \in Nat \ {0}
<1>1. PackGroup \in Nat \ {0} /\ PackBytes \in Nat \ {0} /\ Dims \subseteq Nat \ {0}
  BY LoaderAssumption
<1>2. ASSUME NEW k \in Nat \ {0} PROVE PackedRow(k) \in Nat \ {0}
  <2>1. CeilDiv(k, PackGroup) \in Nat \ {0}
    BY <1>1, CeilIsPositive
  <2>2. \A a, b \in Nat \ {0} : a * b \in Nat \ {0}
    OBVIOUS
  <2>3. QED
    BY <1>1, <2>1, <2>2 DEF PackedRow
<1>3. ASSUME InputsOK, NEW x \in MatrixSuffixes, NEW l
      PROVE  ShapeOf(<<l, x>>)[1] \in Nat \ {0} /\ ShapeOf(<<l, x>>)[2] \in Nat \ {0}
  <2>1. \A y \in ToSet(LinearSuffixes) : shape[y] \in Dims \X Dims
    BY <1>3 DEF InputsOK
  <2>2. <<l, x>>[2] = x
    OBVIOUS
  <2>3. CASE x = DownT
    <3>1. shape[Down] \in Dims \X Dims
      BY <2>1, DownIsLinear
    <3>2. Transposed(shape[Down])[1] \in Dims /\ Transposed(shape[Down])[2] \in Dims
      BY <3>1 DEF Transposed
    <3>3. QED
      BY <1>1, <2>2, <2>3, <3>2 DEF ShapeOf
  <2>4. CASE x # DownT
    <3>1. shape[x] \in Dims \X Dims
      BY <2>1, <2>4 DEF MatrixSuffixes
    <3>2. QED
      BY <1>1, <2>2, <2>4, <3>1 DEF ShapeOf
  <2>5. QED
    BY <2>3, <2>4
<1>4. QED
  BY <1>2, <1>3

(* What is planned for, and what is taken by, a matrix of the model.         *)
Planned == [x \in Loaded |-> PackedBytes(ShapeOf(x))]
RowTaken(x) == PackedRow(Groups(ShapeOf(x)[2]) * group_size)
Taken == [x \in Loaded |-> ShapeOf(x)[1] * RowTaken(x)]

(* The names of the model are finitely many, and their sizes numbers.        *)
LEMMA LoadedSizes ==
  ASSUME InputsOK
  PROVE  /\ IsFiniteSet(LayerSuffixes) /\ IsFiniteSet(Loaded) /\ Loaded \subseteq Names
         /\ \A x \in Loaded : /\ Planned[x] \in Nat /\ Taken[x] \in Nat
                              /\ ShapeOf(x)[1] \in Nat \ {0} /\ ShapeOf(x)[2] \in Nat \ {0}
                              /\ RowTaken(x) \in Nat \ {0}
<1>1. IsFiniteSet(LayerSuffixes)
  <2>1. LayerSuffixes = {SuffixAt(i) : i \in 1 .. InLayer} /\ InLayer \in Nat
    BY LayerOrders
  <2> DEFINE f == [i \in 1 .. InLayer |-> SuffixAt(i)]
  <2>2. f \in Surjection(1 .. InLayer, LayerSuffixes)
    BY <2>1 DEF Surjection
  <2>3. IsFiniteSet(1 .. InLayer)
    BY <2>1, FS_Interval
  <2>4. QED
    BY <2>2, <2>3, FS_Surjection
<1>2. IsFiniteSet(Loaded)
  <2>1. IsFiniteSet(1 .. NumLayers)
    BY LoaderAssumption, FS_Interval
  <2>2. QED
    BY <1>1, <2>1, FS_Product DEF Loaded
<1>3. Loaded \subseteq Names
  BY DEF Loaded, Names, LayerSuffixes, MatrixSuffixes
<1>4. ASSUME NEW x \in Loaded
      PROVE  /\ Planned[x] \in Nat /\ Taken[x] \in Nat
             /\ ShapeOf(x)[1] \in Nat \ {0} /\ ShapeOf(x)[2] \in Nat \ {0}
             /\ RowTaken(x) \in Nat \ {0}
  <2>1. PICK l \in 1 .. NumLayers, y \in MatrixSuffixes : x = <<l, y>>
    BY <1>3 DEF Names
  <2>2. ShapeOf(x)[1] \in Nat \ {0} /\ ShapeOf(x)[2] \in Nat \ {0}
    BY <2>1, Sizes
  <2>3. group_size \in Nat \ {0}
    BY LoaderAssumption DEF InputsOK
  <2>4. Groups(ShapeOf(x)[2]) \in Nat \ {0}
    BY <2>2, <2>3, CeilIsPositive DEF Groups
  <2>5. \A a, b \in Nat \ {0} : a * b \in Nat \ {0}
    OBVIOUS
  <2>6. Groups(ShapeOf(x)[2]) * group_size \in Nat \ {0}
    BY <2>3, <2>4, <2>5
  <2>7. RowTaken(x) \in Nat \ {0}
    BY <2>6, Sizes DEF RowTaken
  <2>8. PackedRow(ShapeOf(x)[2]) \in Nat
    BY <2>2, Sizes
  <2>9. Planned[x] \in Nat /\ Taken[x] \in Nat
    BY <2>2, <2>5, <2>7, <2>8 DEF Planned, Taken, PackedBytes
  <2>10. QED
    BY <2>2, <2>7, <2>9
<1>5. QED
  BY <1>1, <1>2, <1>3, <1>4

(* The first pass sums up what is planned for all the names.                 *)
LEMMA PlanIsSum ==
  ASSUME InputsOK
  PROVE  plan_arena_bytes(shape, include_down_proj_t) = SumOver(Planned, Loaded)
<1> DEFINE L == ToSet(LinearSuffixes)
           f == [s \in L |-> PackedBytes(shape[s])]
           g == [s \in LayerSuffixes |-> PackedBytes(ShapeOf(<<1, s>>))]
           extra == IF include_down_proj_t THEN PackedBytes(Transposed(shape[Down])) ELSE 0
<1>1. \A s \in LayerSuffixes : g[s] \in Int /\ \A l \in 1 .. NumLayers : Planned[<<l, s>>] = g[s]
  <2> TAKE s \in LayerSuffixes
  <2>1. \A l \in 1 .. NumLayers : <<l, s>> \in Loaded /\ ShapeOf(<<l, s>>) = ShapeOf(<<1, s>>)
    BY DEF Loaded, ShapeOf
  <2>2. \A l \in 1 .. NumLayers : Planned[<<l, s>>] = g[s]
    BY <2>1 DEF Planned
  <2>3. 1 \in 1 .. NumLayers
    BY LoaderAssumption
  <2>4. Planned[<<1, s>>] \in Nat
    BY <2>1, <2>3, LoadedSizes
  <2>5. QED
    BY <2>2, <2>3, <2>4
<1>2. DownT \notin L /\ (include_down_proj_t => LayerSuffixes = L \cup {DownT})
      /\ (~ include_down_proj_t => LayerSuffixes = L)
  BY LoaderAssumption DEF LayerSuffixes
<1>3. /\ \A s \in L : g[s] = f[s]
      /\ include_down_proj_t => g[DownT] = extra
  <2>1. \A s : <<1, s>>[2] = s
    OBVIOUS
  <2>2. QED
    BY <1>2, <2>1 DEF ShapeOf
<1>4. LayerBytes(shape) = SumOver(f, L)
  BY DEF LayerBytes, SumFunction, SumFunctionOnSet, FoldFunctionOnSet, MapThenFoldSet,
         SumOver, IsSum, SumStep, Pick
<1>5. plan_arena_bytes(shape, include_down_proj_t) = NumLayers * (LayerBytes(shape) + extra)
  BY DEF plan_arena_bytes
<1>6. IsFiniteSet(LayerSuffixes) /\ IsFiniteSet(L)
  BY <1>2, LoadedSizes, FS_Subset
<1> HIDE DEF f, g, L
<1>7. SumOver(g, LayerSuffixes) = SumOver(f, L) + extra
  <2>1. SumOver(g, L) = SumOver(f, L)
    BY <1>3, <1>6, SumSame
  <2>2. CASE include_down_proj_t
    <3>1. DownT \in LayerSuffixes /\ LayerSuffixes \ {DownT} = L
      BY <1>2, <2>2
    <3>2. \A s \in LayerSuffixes : g[s] \in Int
      BY <1>1
    <3>3. SumOver(g, LayerSuffixes) = SumOver(g, LayerSuffixes \ {DownT}) + g[DownT]
      BY <1>6, <3>1, <3>2, SumAdd
    <3>4. QED
      BY <1>3, <2>1, <2>2, <3>1, <3>3
  <2>3. CASE ~ include_down_proj_t
    <3>1. \A s \in L : f[s] \in Int
      BY <1>1, <1>2, <1>3, <2>3
    <3>2. SumOver(f, L) \in Int
      BY <1>6, <3>1, SumAdd
    <3>3. QED
      BY <1>2, <2>1, <2>3, <3>2
  <2>4. QED
    BY <2>2, <2>3
<1> HIDE DEF extra
<1>8. SumOver(Planned, Loaded) = NumLayers * SumOver(g, LayerSuffixes)
  <2>1. NumLayers \in Nat
    BY LoaderAssumption
  <2>2. Layered(Planned, NumLayers, g, LayerSuffixes)
    BY <1>1 DEF Layered
  <2>3. SumOver(Planned, (1 .. NumLayers) \X LayerSuffixes) = NumLayers * SumOver(g, LayerSuffixes)
    BY <1>6, <2>1, <2>2, SumOfLayers
  <2>4. QED
    BY <2>3 DEF Loaded
<1>9. QED
  BY <1>4, <1>5, <1>7, <1>8

-----------------------------------------------------------------------------
(* The invariant holds at the start.                                          *)
LEMMA InitHolds == Init => LInv
<1> SUFFICES ASSUME Init PROVE LInv
  OBVIOUS
<1>1. handles = NoHandles /\ matrices = NoHandles /\ arena = NoHandles /\ write_offset = 0
  BY DEF Init, NoStore
<1>2. DOMAIN NoHandles = {} /\ IsFiniteSet({})
  BY FS_EmptySet DEF NoHandles
<1>3. ArenaOK
  <2>1. 0 .. 0 - 1 = {}
    OBVIOUS
  <2>2. QED
    BY <1>1, <1>2, <2>1 DEF ArenaOK
<1>4. ProgressOK
  BY <1>1, <1>2 DEF ProgressOK, Init
<1>5. QED
  BY <1>1, <1>2, <1>3, <1>4 DEF LInv, Init, InputsOK

(* What is behind the arena and the handles does not matter.                 *)
LEMMA OthersKeep ==
  ASSUME LInv, UNCHANGED <<storeVars, shape, group_size, include_down_proj_t, matrices>>,
         status' = status \/ status' \notin {"planning", "streaming"}
  PROVE  LInv'
<1>1. /\ arena' = arena /\ handles' = handles /\ write_offset' = write_offset
      /\ shape' = shape /\ group_size' = group_size /\ matrices' = matrices
      /\ include_down_proj_t' = include_down_proj_t
  BY DEF storeVars
<1>2. LoadOrder' = LoadOrder
  BY <1>1 DEF LoadOrder, LayerOrder
<1>3. InputsOK' /\ ArenaOK'
  BY <1>1 DEF LInv, InputsOK, ArenaOK
<1>4. ProgressOK'
  BY <1>1, <1>2 DEF LInv, ProgressOK
<1>5. \A m \in DOMAIN handles : SpanOK(handles[m])' /\ RowsOK(m, handles[m])'
  <2> TAKE m \in DOMAIN handles
  <2>1. SpanOK(handles[m]) /\ RowsOK(m, handles[m])
    BY DEF LInv
  <2>2. SpanOK(handles[m])'
    BY <1>1, <2>1 DEF SpanOK
  <2>3. RowsOK(m, handles[m])'
    BY <1>1, <2>1 DEF RowsOK
  <2>4. QED
    BY <2>2, <2>3
<1>6. QED
  BY <1>1, <1>3, <1>4, <1>5 DEF LInv

(* The size planned for is a natural number.                                 *)
LEMMA PlannedSize == InputsOK => plan_arena_bytes(shape, include_down_proj_t) \in Nat
<1> SUFFICES ASSUME InputsOK PROVE plan_arena_bytes(shape, include_down_proj_t) \in Nat
  OBVIOUS
<1>1. IsFiniteSet(Loaded) /\ \A x \in Loaded : Planned[x] \in Nat
  BY LoadedSizes
<1>2. SumOver(Planned, Loaded) \in Nat
  BY <1>1, SumIsNatural
<1>3. QED
  BY <1>2, PlanIsSum

(* The plan sizes an empty arena.                                            *)
LEMMA PlanKeeps == LInv /\ Plan => LInv'
<1> SUFFICES ASSUME LInv, Plan PROVE LInv'
  OBVIOUS
<1> DEFINE total == plan_arena_bytes(shape, include_down_proj_t)
<1>1. /\ status = "planning" /\ status' = "streaming" /\ Allocate(total)
      /\ shape' = shape /\ group_size' = group_size /\ matrices' = matrices
      /\ include_down_proj_t' = include_down_proj_t
  BY DEF Plan, inputs
<1> HIDE DEF total
<1>2. /\ handles' = handles /\ write_offset' = write_offset
      /\ total > 0 /\ DOMAIN arena' = 0 .. total - 1
  BY <1>1 DEF Allocate
<1>3. handles = NoHandles /\ write_offset = 0 /\ DOMAIN handles = {}
  BY <1>1 DEF LInv, ProgressOK, NoHandles
<1>4. LoadOrder' = LoadOrder
  BY <1>1 DEF LoadOrder, LayerOrder
<1>5. ArenaOK'
  <2>1. total \in Nat
    BY PlannedSize DEF LInv, total
  <2>2. QED
    BY <1>2, <1>3, <2>1 DEF ArenaOK
<1>6. ProgressOK'
  <2>1. Cardinality({}) = 0
    BY FS_EmptySet
  <2>2. Cardinality(DOMAIN handles) < Len(LoadOrder)
    BY <1>3, <2>1, Order
  <2>3. QED
    BY <1>1, <1>2, <1>4, <2>2 DEF LInv, ProgressOK
<1>7. InputsOK'
  BY <1>1 DEF LInv, InputsOK
<1>8. QED
  BY <1>2, <1>3, <1>5, <1>6, <1>7 DEF LInv

(* A registration writes behind the spans there are, and what it writes is   *)
(* laid out row by row.                                                      *)
LEMMA LoadKeeps == LInv /\ Load => LInv'
<1> SUFFICES ASSUME LInv, Load PROVE LInv'
  OBVIOUS
<1> DEFINE x == NextName
           n == ShapeOf(x)[1]
           w == PackedRow(Groups(ShapeOf(x)[2]) * group_size)
           done == Cardinality(DOMAIN matrices)
           h == [offset |-> write_offset, num_rows |-> n, row_nbytes |-> w]
<1>1. /\ status = "streaming" /\ register(x, n, w)
      /\ DOMAIN matrices' = DOMAIN matrices \cup {x}
      /\ status' = IF Len(LoadOrder) - done - 1 = 0 THEN "resident" ELSE "streaming"
      /\ shape' = shape /\ group_size' = group_size
      /\ include_down_proj_t' = include_down_proj_t
  BY DEF Load, inputs, quantize_and_pack, Put
<1>2. DOMAIN matrices = DOMAIN handles /\ IsFiniteSet(DOMAIN handles) /\ done < Len(LoadOrder)
  BY <1>1 DEF LInv, ProgressOK
<1>3. done \in Nat /\ Len(LoadOrder) \in Nat
  BY <1>2, Order, FS_CardinalityType
<1>4. n \in Nat \ {0} /\ w \in Nat \ {0}
  <2>1. x \in Names
    <3>1. done + 1 \in 1 .. Len(LoadOrder)
      BY <1>2, <1>3
    <3>2. QED
      BY <3>1, Order DEF NextName
  <2>2. PICK l \in 1 .. NumLayers, y \in MatrixSuffixes : x = <<l, y>>
    BY <2>1 DEF Names
  <2>3. n \in Nat \ {0} /\ ShapeOf(x)[2] \in Nat \ {0}
    BY <2>2, Sizes DEF LInv
  <2>4. group_size \in Nat \ {0}
    BY LoaderAssumption DEF LInv, InputsOK
  <2>5. Groups(ShapeOf(x)[2]) \in Nat \ {0}
    BY <2>3, <2>4, CeilIsPositive DEF Groups
  <2>6. \A a, b \in Nat \ {0} : a * b \in Nat \ {0}
    OBVIOUS
  <2>7. Groups(ShapeOf(x)[2]) * group_size \in Nat \ {0}
    BY <2>4, <2>5, <2>6
  <2>8. QED
    BY <2>3, <2>7, Sizes
<1> HIDE DEF n, w, x, done
<1>5. /\ x \notin DOMAIN handles /\ write_offset + n * w <= bytes_total
      /\ arena' = [b \in DOMAIN arena |->
                     IF b \in write_offset .. write_offset + n * w - 1
                     THEN <<x, (b - write_offset) \div w, (b - write_offset) % w>>
                     ELSE arena[b]]
      /\ handles' = Put(handles, x, h)
      /\ write_offset' = write_offset + n * w
  BY <1>1 DEF register, CanRegister, EndOffset
<1>6. PICK size \in Nat : DOMAIN arena = 0 .. size - 1 /\ write_offset <= size
  BY DEF LInv, ArenaOK
<1>7. /\ write_offset \in Nat /\ n * w \in Nat /\ write_offset + n * w <= size
      /\ DOMAIN arena' = 0 .. size - 1
  <2>1. bytes_total = size
    BY <1>6, ArenaSize
  <2>2. write_offset \in Nat
    BY DEF LInv, ArenaOK
  <2>3. n * w \in Nat
    BY <1>4
  <2>4. DOMAIN arena' = DOMAIN arena
    BY <1>5
  <2>5. QED
    BY <1>5, <1>6, <2>1, <2>2, <2>3, <2>4
<1>8. /\ DOMAIN handles' = DOMAIN handles \cup {x} /\ handles'[x] = h
      /\ \A m \in DOMAIN handles : m # x /\ handles'[m] = handles[m]
  BY <1>5 DEF Put
<1>9. ArenaOK'
  <2>1. write_offset' \in Nat /\ write_offset' <= size
    BY <1>5, <1>7
  <2>2. QED
    BY <1>7, <2>1 DEF ArenaOK
<1>10. ProgressOK'
  <2>1. LoadOrder' = LoadOrder
    BY <1>1 DEF LoadOrder, LayerOrder
  <2>2. IsFiniteSet(DOMAIN handles') /\ Cardinality(DOMAIN handles') = done + 1
    BY <1>2, <1>5, <1>8, FS_AddElement DEF done
  <2>3. status' # "planning"
    BY <1>1
  <2>4. status' = "streaming" => done + 1 < Len(LoadOrder)
    BY <1>1, <1>2, <1>3
  <2>5. QED
    BY <1>1, <1>2, <1>8, <2>1, <2>2, <2>3, <2>4 DEF ProgressOK
<1>11. InputsOK'
  BY <1>1 DEF LInv, InputsOK
<1>12. ASSUME NEW m \in DOMAIN handles PROVE SpanOK(handles[m])' /\ RowsOK(m, handles[m])'
  <2> DEFINE g == handles[m]
  <2>1. SpanOK(g) /\ RowsOK(m, g) /\ handles'[m] = g
    BY <1>8 DEF LInv
  <2> HIDE DEF g
  <2>2. SpanOK(g)'
    BY <1>5, <1>7, <1>8, <2>1 DEF SpanOK, g
  <2>3. ASSUME NEW r \in 0 .. g.num_rows - 1, NEW j \in 0 .. g.row_nbytes - 1
        PROVE  arena'[g.offset + r * g.row_nbytes + j] = <<m, r, j>>
    <3> DEFINE i == r * g.row_nbytes + j
    <3>1. i \in 0 .. g.num_rows * g.row_nbytes - 1
      BY <2>1, WithinSpan DEF SpanOK
    <3>2. /\ g.offset \in Nat /\ g.num_rows * g.row_nbytes \in Nat
          /\ g.offset + g.num_rows * g.row_nbytes <= write_offset
      BY <2>1 DEF SpanOK
    <3>3. g.offset + r * g.row_nbytes + j = g.offset + i
      BY <2>1, <3>2 DEF SpanOK
    <3> HIDE DEF i
    <3>4. g.offset + i \in DOMAIN arena /\ g.offset + i < write_offset /\ g.offset + i \in Nat
      BY <1>6, <1>7, <3>1, <3>2
    <3>5. arena'[g.offset + i] = arena[g.offset + i]
      BY <1>5, <1>7, <3>4
    <3>6. QED
      BY <2>1, <3>3, <3>5 DEF RowsOK
  <2>4. g' = g
    BY <2>1 DEF g
  <2>5. RowsOK(m, g)'
    BY <2>3, <2>4 DEF RowsOK
  <2>6. QED
    BY <2>2, <2>5 DEF g
<1>13. PICK y, g : y = x /\ g = h
  OBVIOUS
<1>14. g.offset = write_offset /\ g.num_rows = n /\ g.row_nbytes = w
  BY <1>13
<1>15. SpanOK(g)'
  BY <1>4, <1>5, <1>7, <1>14 DEF SpanOK
<1>16. RowsOK(y, g)'
  <2>1. ASSUME NEW r \in 0 .. n - 1, NEW j \in 0 .. w - 1
        PROVE  arena'[write_offset + r * w + j] = <<x, r, j>>
    <3> DEFINE i == r * w + j
    <3>1. i \in 0 .. n * w - 1 /\ i \div w = r /\ i % w = j
      BY <1>4, WithinSpan, RowOf
    <3>2. write_offset + r * w + j = write_offset + i
      BY <1>4, <1>7
    <3> HIDE DEF i
    <3>3. /\ write_offset + i \in DOMAIN arena
          /\ write_offset + i \in write_offset .. write_offset + n * w - 1
          /\ (write_offset + i) - write_offset = i
      BY <1>6, <1>7, <3>1
    <3>4. QED
      BY <1>5, <3>1, <3>2, <3>3
  <2>2. QED
    BY <1>13, <1>14, <2>1 DEF RowsOK
<1>17. \A m \in DOMAIN handles' : SpanOK(handles[m])' /\ RowsOK(m, handles[m])'
  <2> TAKE m \in DOMAIN handles'
  <2>1. CASE m \in DOMAIN handles
    BY <1>12, <2>1
  <2>2. CASE m = y
    <3>1. handles'[m] = g
      BY <1>8, <1>13, <2>2
    <3>2. QED
      BY <1>15, <1>16, <2>2, <3>1 DEF SpanOK, RowsOK
  <2>3. QED
    BY <1>8, <1>13, <2>1, <2>2
<1>18. QED
  BY <1>9, <1>10, <1>11, <1>17 DEF LInv

-----------------------------------------------------------------------------
(* No step breaks the invariant.                                             *)
LEMMA LNext == LInv /\ [Next]_vars => LInv'
<1>1. ASSUME LInv, [Next]_vars PROVE LInv'
  <2>1. CASE Plan
    BY <1>1, <2>1, PlanKeeps
  <2>2. CASE Load
    BY <1>1, <2>2, LoadKeeps
  <2>3. ASSUME PlanRaises \/ RegisterRaises \/ SmallRaises PROVE LInv'
    <3>1. Raise
      BY <2>3 DEF PlanRaises, RegisterRaises, SmallRaises
    <3>2. QED
      BY <1>1, <3>1, OthersKeep DEF Raise, inputs
  <2>4. CASE load_small_to_gpu
    BY <1>1, <2>4, OthersKeep DEF load_small_to_gpu, inputs
  <2>5. CASE StreamingModel
    BY <1>1, <2>5, OthersKeep DEF StreamingModel, inputs
  <2>6. CASE UNCHANGED vars
    BY <1>1, <2>6, OthersKeep DEF vars, inputs
  <2>7. QED
    BY <1>1, <2>1, <2>2, <2>3, <2>4, <2>5, <2>6 DEF Next
<1>2. QED
  BY <1>1

(* Every row of every registered matrix reads back as it was copied in, for  *)
(* all shapes, group sizes and numbers of layers and matrices, whatever is   *)
(* registered later and wherever the load ends (weight_store.py:56-109).     *)
THEOREM RowsStayIntact == Spec => []RowsIntact
BY InitHolds, LNext, Intact, PTL DEF Spec

-----------------------------------------------------------------------------
(* The arithmetic of padded rows.                                            *)
LEMMA CeilOfMultiple ==
  ASSUME NEW a \in Nat, NEW b \in Nat \ {0}
  PROVE  CeilDiv(a * b, b) = a
<1>1. b - 1 \in 0 .. b - 1 /\ a * b \in Nat
  OBVIOUS
<1>2. (a * b + (b - 1)) \div b = a
  BY <1>1, RowOf
<1>3. a * b + b - 1 = a * b + (b - 1)
  BY <1>1
<1>4. QED
  BY <1>2, <1>3 DEF CeilDiv

LEMMA CeilCovers ==
  ASSUME NEW a \in Nat \ {0}, NEW b \in Nat \ {0}
  PROVE  CeilDiv(a, b) \in Nat /\ CeilDiv(a, b) * b \in Nat /\ a <= CeilDiv(a, b) * b
<1> DEFINE t == a + b - 1
           q == t \div b
           r == t % b
<1>1. t \in Nat
  OBVIOUS
<1>2. q \in Nat /\ r \in 0 .. b - 1 /\ t = q * b + r
  <2> HIDE DEF t
  <2>1. QED
    BY <1>1
<1>3. q * b \in Nat
  <2> HIDE DEF q
  <2>1. QED
    BY <1>2
<1>4. a <= q * b
  <2> DEFINE p == q * b
  <2>1. p \in Nat /\ t = p + r /\ r \in 0 .. b - 1
    BY <1>2, <1>3
  <2> HIDE DEF p, r, q
  <2>2. a <= p
    BY <2>1
  <2>3. QED
    BY <2>2 DEF p
<1>5. QED
  BY <1>2, <1>3, <1>4 DEF CeilDiv

LEMMA WholeParts ==
  ASSUME NEW k \in Nat, NEW u \in Nat \ {0}, k % u = 0
  PROVE  \E a \in Nat : k = a * u
<1>1. k \div u \in Nat /\ k = ((k \div u) * u) + (k % u)
  OBVIOUS
<1>2. (k \div u) * u \in Nat
  BY <1>1
<1>3. QED
  BY <1>1, <1>2

LEMMA SameFactor ==
  ASSUME NEW a \in Nat, NEW b \in Nat, NEW c \in Nat \ {0}
  PROVE  /\ a <= b => a * c <= b * c
         /\ a * c <= b * c => a <= b
         /\ a * c = b * c => a = b
<1>1. ASSUME NEW x \in Nat, NEW y \in Nat, x < y PROVE x * c < y * c
  <2> DEFINE d == y - x
  <2>1. d \in Nat \ {0} /\ y = x + d
    BY <1>1
  <2> HIDE DEF d
  <2>2. y * c = x * c + d * c /\ x * c \in Nat
    BY <2>1
  <2>3. d * c \in Nat \ {0}
    BY <2>1
  <2>4. QED
    BY <2>2, <2>3
<1>2. a * c \in Nat /\ b * c \in Nat
  OBVIOUS
<1>3. a < b \/ a = b \/ b < a
  OBVIOUS
<1>4. (a < b => a * c < b * c) /\ (b < a => b * c < a * c) /\ (a = b => a * c = b * c)
  BY <1>1
<1> DEFINE p == a * c
           q == b * c
<1>5. /\ p \in Nat /\ q \in Nat
      /\ (a < b => p < q) /\ (b < a => q < p) /\ (a = b => p = q)
  BY <1>2, <1>4
<1> HIDE DEF p, q
<1>6. (a <= b => p <= q) /\ (p <= q => a <= b) /\ (p = q => a = b)
  BY <1>5
<1>7. QED
  BY <1>6 DEF p, q

(* A row of whole groups is not padded.                                      *)
LEMMA WholeGroupsUnpadded ==
  ASSUME InputsOK, NEW x \in Loaded, ShapeOf(x)[2] % group_size = 0
  PROVE  Taken[x] = Planned[x]
<1> DEFINE k == ShapeOf(x)[2]
<1>1. k \in Nat /\ group_size \in Nat \ {0}
  BY LoadedSizes, LoaderAssumption DEF InputsOK
<1>2. PICK a \in Nat : k = a * group_size
  BY <1>1, WholeParts
<1>3. Groups(k) = a
  BY <1>1, <1>2, CeilOfMultiple DEF Groups
<1>4. RowTaken(x) = PackedRow(ShapeOf(x)[2])
  BY <1>2, <1>3 DEF RowTaken
<1>5. QED
  BY <1>4 DEF Taken, Planned, PackedBytes

(* A row of whole words takes no less than was planned for it, and takes     *)
(* just that only when it is not padded.                                     *)
LEMMA WholeWordsPadded ==
  ASSUME InputsOK, NEW x \in Loaded, ShapeOf(x)[2] % PackGroup = 0
  PROVE  /\ Planned[x] <= Taken[x]
         /\ Planned[x] = Taken[x] => Groups(ShapeOf(x)[2]) * group_size = ShapeOf(x)[2]
<1> DEFINE n == ShapeOf(x)[1]
           k == ShapeOf(x)[2]
           G == Groups(k)
           U == PackGroup
<1>1. /\ n \in Nat \ {0} /\ k \in Nat \ {0} /\ group_size \in Nat \ {0}
      /\ U \in Nat \ {0} /\ PackBytes \in Nat \ {0} /\ group_size % U = 0
  BY LoadedSizes, LoaderAssumption DEF InputsOK
<1>2. G \in Nat /\ k <= G * group_size
  BY <1>1, CeilCovers DEF Groups
<1>3. PICK a \in Nat : k = a * U
  BY <1>1, WholeParts
<1>4. PICK c \in Nat : group_size = c * U
  BY <1>1, WholeParts
<1> DEFINE b == G * c
<1>5. Planned[x] = n * (CeilDiv(k, U) * PackBytes)
      /\ Taken[x] = n * (CeilDiv(G * group_size, U) * PackBytes)
  BY DEF Planned, Taken, PackedBytes, PackedRow, RowTaken
<1> HIDE DEF n, k, G, U
<1>6. b \in Nat /\ G * group_size = b * U
  BY <1>1, <1>2, <1>4
<1> HIDE DEF b
<1>7. CeilDiv(k, U) = a /\ CeilDiv(G * group_size, U) = b
  BY <1>1, <1>3, <1>6, CeilOfMultiple
<1>8. a <= b
  BY <1>1, <1>2, <1>3, <1>6, SameFactor
<1> DEFINE p == a * PackBytes
           q == b * PackBytes
<1>9. p \in Nat /\ q \in Nat /\ p <= q /\ (p = q => a = b)
  BY <1>1, <1>6, <1>8, SameFactor
<1>10. Planned[x] = n * p /\ Taken[x] = n * q
  BY <1>5, <1>7
<1> HIDE DEF p, q
<1>11. n * p = p * n /\ n * q = q * n
  BY <1>1, <1>9
<1>12. Planned[x] <= Taken[x] /\ (Planned[x] = Taken[x] => p = q)
  BY <1>1, <1>9, <1>10, <1>11, SameFactor
<1>13. a = b => G * group_size = k
  BY <1>3, <1>6
<1>14. QED
  BY <1>9, <1>12, <1>13 DEF G, k

(* The tensors that go to the GPU are a sequence.                            *)
SmallSuffixes == {"embed_tokens", "lm_head", "norm"} \cup ToSet(norm_names)

LEMMA SmallIsSeq == SmallOrder \in Seq(Nat \X SmallSuffixes)
<1> DEFINE S == Nat \X SmallSuffixes
           t == <<"embed_tokens", "lm_head", "norm">>
           first == [i \in 1 .. 3 |-> <<0, t[i]>>]
           norms(l) == [i \in DOMAIN norm_names |-> <<l, norm_names[i]>>]
           seqs == [l \in 1 .. NumLayers |-> norms(l)]
<1>1. first \in Seq(S)
  <2>1. t[1] \in SmallSuffixes /\ t[2] \in SmallSuffixes /\ t[3] \in SmallSuffixes
    BY DEF SmallSuffixes
  <2>2. \A i \in 1 .. 3 : t[i] \in SmallSuffixes
    <3> HIDE DEF t
    <3>1. \A i \in 1 .. 3 : i = 1 \/ i = 2 \/ i = 3
      OBVIOUS
    <3>2. QED
      BY <2>1, <3>1
  <2> HIDE DEF t
  <2>3. first \in [1 .. 3 -> S]
    BY <2>2
  <2> HIDE DEF first, S
  <2>4. QED
    BY <2>3, Tabulated
<1>2. NumLayers \in Nat \ {0}
  BY LoaderAssumption
<1>3. ASSUME NEW l \in 1 .. NumLayers PROVE norms(l) \in Seq(S) /\ Len(norms(l)) = 4
  <2>1. DOMAIN norm_names = 1 .. 4
    BY DEF norm_names
  <2>2. \A i \in 1 .. 4 : norm_names[i] \in SmallSuffixes
    BY <2>1 DEF SmallSuffixes, ToSet
  <2>3. l \in Nat
    BY <1>2
  <2>4. norms(l) \in [1 .. 4 -> S]
    BY <2>1, <2>2, <2>3
  <2> HIDE DEF norms, S
  <2>5. QED
    BY <2>4, Tabulated
<1>4. seqs \in [1 .. NumLayers -> Seq(S)] /\ \A l \in 1 .. NumLayers : Len(seqs[l]) = 4
  <2> HIDE DEF norms, S
  <2>1. QED
    BY <1>3
<1>5. SmallOrder = first \o FlattenSeq(seqs)
  BY DEF SmallOrder
<1> HIDE DEF S, first, seqs
<1>6. FlattenSeq(seqs) \in Seq(S)
  <2>1. Concatenated(S, NumLayers, 4, seqs, FlattenSeq(seqs))
    <3>1. 4 \in Nat \ {0}
      OBVIOUS
    <3>2. QED
      BY <1>2, <1>4, <3>1, Flattened
  <2>2. QED
    BY <2>1 DEF Concatenated
<1>7. SmallOrder \in Seq(S)
  BY <1>1, <1>5, <1>6, Together
<1>8. QED
  BY <1>7 DEF S

-----------------------------------------------------------------------------
(* How far the load got: matrices holds the first names of its order, and    *)
(* write_offset is what they took.                                           *)
Done == Cardinality(DOMAIN matrices)
MatrixOK(x) ==
  /\ matrices[x] = quantize_and_pack(ShapeOf(x))
  /\ handles[x].num_rows = ShapeOf(x)[1] /\ handles[x].row_nbytes = RowTaken(x)
PlacedOK ==
  /\ Done \in 0 .. Len(LoadOrder) /\ DOMAIN matrices = {LoadOrder[i] : i \in 1 .. Done}
  /\ status \in {"resident", "loaded"} => Done = Len(LoadOrder)
  /\ write_offset = SumOver(Taken, DOMAIN matrices)
  /\ \A x \in DOMAIN matrices : MatrixOK(x)

(* The arena is as the first pass sized it, if there is one.                 *)
Sized == plan_arena_bytes(shape, include_down_proj_t)
SizedOK ==
  /\ status \in {"planning", "streaming", "resident", "loaded", "failed"}
  /\ status = "planning" => arena = NoHandles
  /\ status \in {"streaming", "resident", "loaded"} =>
       absent \notin LinearNames /\ bytes_total = Sized
  /\ absent \in LinearNames => arena = NoHandles
  /\ absent \in {None} \cup LinearNames \cup ToSet(SmallOrder)

(* The tensors on the GPU are the first ones of their order, none of them is *)
(* the absent one, and only a complete load makes a model.                   *)
SmallOK ==
  /\ resident \in Seq(Nat \X SmallSuffixes) /\ Len(resident) <= Len(SmallOrder)
  /\ \A i \in 1 .. Len(resident) : resident[i] = SmallOrder[i] /\ SmallOrder[i] # absent
  /\ status = "loaded" => Len(resident) = Len(SmallOrder)
  /\ model # None => status = "loaded" /\ model.group_size = group_size

(* With whole groups, a complete checkpoint loads.                           *)
NeverFails == RowsAreWhole(group_size) /\ absent = None => status # "failed"

FInv == PlacedOK /\ SizedOK /\ SmallOK /\ NeverFails

(* What depends on the inputs alone is the same after a step.                *)
LEMMA SameInputs ==
  ASSUME UNCHANGED <<shape, group_size, include_down_proj_t>>
  PROVE  /\ LoadOrder' = LoadOrder /\ Taken' = Taken /\ Sized' = Sized
         /\ \A x : /\ ShapeOf(x)' = ShapeOf(x) /\ RowTaken(x)' = RowTaken(x)
                   /\ quantize_and_pack(ShapeOf(x))' = quantize_and_pack(ShapeOf(x))
         /\ RowsAreWhole(group_size)' <=> RowsAreWhole(group_size)
<1>1. LoadOrder' = LoadOrder /\ Loaded' = Loaded
  BY DEF LoadOrder, LayerOrder, Loaded, LayerSuffixes
<1>2. \A x : ShapeOf(x)' = ShapeOf(x)
  BY DEF ShapeOf
<1>3. \A k : Groups(k)' = Groups(k)
  BY DEF Groups
<1>4. \A x : RowTaken(x)' = RowTaken(x)
  BY <1>2, <1>3 DEF RowTaken
<1>5. \A x : quantize_and_pack(ShapeOf(x))' = quantize_and_pack(ShapeOf(x))
  BY <1>2, <1>3 DEF quantize_and_pack
<1>6. Taken' = Taken
  BY <1>1, <1>2, <1>4 DEF Taken
<1>7. Sized' = Sized
  BY DEF Sized
<1>8. RowsAreWhole(group_size)' <=> RowsAreWhole(group_size)
  BY <1>1, <1>2 DEF RowsAreWhole
<1>9. QED
  BY <1>1, <1>2, <1>4, <1>5, <1>6, <1>7, <1>8

(* The first m names of the order are m names of the model.                  *)
LEMMA FirstNames ==
  ASSUME NEW m \in 0 .. Len(LoadOrder)
  PROVE  /\ {LoadOrder[i] : i \in 1 .. m} \subseteq Loaded
         /\ m < Len(LoadOrder) =>
              /\ LoadOrder[m + 1] \in Loaded
              /\ LoadOrder[m + 1] \notin {LoadOrder[i] : i \in 1 .. m}
              /\ {LoadOrder[i] : i \in 1 .. m + 1} = {LoadOrder[i] : i \in 1 .. m} \cup {LoadOrder[m + 1]}
         /\ m = Len(LoadOrder) => {LoadOrder[i] : i \in 1 .. m} = Loaded
<1> DEFINE n == Len(LoadOrder)
<1>1. /\ n \in Nat /\ Loaded = {LoadOrder[i] : i \in 1 .. n}
      /\ \A p, q \in 1 .. n : LoadOrder[p] = LoadOrder[q] => p = q
  BY Order DEF ToSet
<1> HIDE DEF n
<1>2. m \in 0 .. n /\ \A i \in 1 .. m : i \in 1 .. n
  BY <1>1 DEF n
<1>3. ASSUME m < n
      PROVE  /\ LoadOrder[m + 1] \in Loaded
             /\ LoadOrder[m + 1] \notin {LoadOrder[i] : i \in 1 .. m}
             /\ {LoadOrder[i] : i \in 1 .. m + 1} = {LoadOrder[i] : i \in 1 .. m} \cup {LoadOrder[m + 1]}
  <2>1. m + 1 \in 1 .. n /\ \A i \in 1 .. m : i # m + 1
    BY <1>1, <1>2, <1>3
  <2>2. 1 .. m + 1 = (1 .. m) \cup {m + 1}
    BY <1>2
  <2>3. QED
    BY <1>1, <1>2, <2>1, <2>2
<1>4. QED
  BY <1>1, <1>2, <1>3 DEF n

LEMMA FInitHolds == Init => FInv
<1> SUFFICES ASSUME Init PROVE FInv
  OBVIOUS
<1>1. /\ handles = NoHandles /\ matrices = NoHandles /\ arena = NoHandles /\ write_offset = 0
      /\ resident = <<>> /\ model = None /\ status = "planning"
      /\ absent \in {None} \cup LinearNames \cup ToSet(SmallOrder)
  BY DEF Init, NoStore
<1>2. DOMAIN matrices = {} /\ Done = 0
  BY <1>1, FS_EmptySet DEF NoHandles, Done
<1>3. PlacedOK
  <2>1. Len(LoadOrder) \in Nat /\ 0 \in 0 .. Len(LoadOrder) /\ 1 .. 0 = {}
    BY Order
  <2>2. SumOver(Taken, {}) = 0
    BY FS_EmptySet, SumAdd
  <2>3. QED
    BY <1>1, <1>2, <2>1, <2>2 DEF PlacedOK
<1>4. SizedOK
  BY <1>1 DEF SizedOK
<1>5. SmallOK
  <2>1. Len(SmallOrder) \in Nat
    BY SmallIsSeq
  <2>2. resident \in Seq(Nat \X SmallSuffixes) /\ Len(resident) = 0
    BY <1>1
  <2>3. QED
    BY <1>1, <2>1, <2>2 DEF SmallOK
<1>6. NeverFails
  BY <1>1 DEF NeverFails
<1>7. QED
  BY <1>3, <1>4, <1>5, <1>6 DEF FInv

(* What leaves the handles and the matrices alone keeps their invariants.    *)
LEMMA OthersPlaced ==
  ASSUME PlacedOK, UNCHANGED <<handles, write_offset, inputs, matrices>>,
         status' \in {"resident", "loaded"} => status \in {"resident", "loaded"}
  PROVE  PlacedOK'
<1>1. /\ handles' = handles /\ write_offset' = write_offset /\ matrices' = matrices
      /\ UNCHANGED <<shape, group_size, include_down_proj_t>>
  BY DEF inputs
<1>2. Done' = Done
  BY <1>1 DEF Done
<1>3. /\ LoadOrder' = LoadOrder /\ Taken' = Taken
      /\ \A x : /\ ShapeOf(x)' = ShapeOf(x) /\ RowTaken(x)' = RowTaken(x)
                /\ quantize_and_pack(ShapeOf(x))' = quantize_and_pack(ShapeOf(x))
  BY <1>1, SameInputs
<1>4. \A x : MatrixOK(x)' <=> MatrixOK(x)
  BY <1>1, <1>3 DEF MatrixOK
<1>5. QED
  BY <1>1, <1>2, <1>3, <1>4 DEF PlacedOK

LEMMA OthersSized ==
  ASSUME SizedOK, UNCHANGED <<storeVars, inputs>>,
         \/ status' = status \/ status' = "failed"
         \/ status = "resident" /\ status' = "loaded"
  PROVE  SizedOK'
<1>1. arena' = arena /\ absent' = absent /\ UNCHANGED <<shape, group_size, include_down_proj_t>>
  BY DEF storeVars, inputs
<1>2. bytes_total' = bytes_total /\ Sized' = Sized
  BY <1>1, SameInputs DEF bytes_total
<1>3. QED
  BY <1>1, <1>2 DEF SizedOK

LEMMA OthersSmall ==
  ASSUME SmallOK, UNCHANGED <<inputs, resident, model>>,
         \/ status' = status
         \/ status # "loaded" /\ status' # "loaded"
  PROVE  SmallOK'
<1>1. resident' = resident /\ model' = model /\ absent' = absent /\ group_size' = group_size
  BY DEF inputs
<1>2. QED
  BY <1>1 DEF SmallOK

LEMMA OthersSucceed ==
  ASSUME NeverFails, UNCHANGED inputs,
         status' = status \/ status' # "failed"
  PROVE  NeverFails'
<1>1. absent' = absent /\ UNCHANGED <<shape, group_size, include_down_proj_t>>
  BY DEF inputs
<1>2. RowsAreWhole(group_size)' <=> RowsAreWhole(group_size)
  BY <1>1, SameInputs
<1>3. QED
  BY <1>1, <1>2 DEF NeverFails

(* The next name is not registered yet, and adds what it takes.              *)
LEMMA NextAdds ==
  ASSUME LInv, PlacedOK, status = "streaming"
  PROVE  /\ Done < Len(LoadOrder) /\ Done \in Nat /\ Len(LoadOrder) \in Nat
         /\ DOMAIN matrices \subseteq Loaded /\ DOMAIN handles = DOMAIN matrices
         /\ IsFiniteSet(DOMAIN matrices)
         /\ NextName \in Loaded /\ NextName \notin DOMAIN matrices
         /\ DOMAIN matrices \cup {NextName} = {LoadOrder[i] : i \in 1 .. Done + 1}
         /\ SumOver(Taken, DOMAIN matrices \cup {NextName})
              = write_offset + ShapeOf(NextName)[1] * RowTaken(NextName)
         /\ write_offset + ShapeOf(NextName)[1] * RowTaken(NextName) <= SumOver(Taken, Loaded)
<1> DEFINE D == DOMAIN matrices
           x == NextName
<1>1. Done < Len(LoadOrder) /\ DOMAIN handles = D /\ IsFiniteSet(D)
  BY DEF LInv, ProgressOK, Done
<1>2. Done \in 0 .. Len(LoadOrder) /\ Len(LoadOrder) \in Nat /\ Done \in Nat
  BY Order DEF PlacedOK
<1>3. D = {LoadOrder[i] : i \in 1 .. Done} /\ x = LoadOrder[Done + 1]
  BY DEF PlacedOK, NextName, Done
<1>4. /\ D \subseteq Loaded /\ x \in Loaded /\ x \notin D
      /\ D \cup {x} = {LoadOrder[i] : i \in 1 .. Done + 1}
  BY <1>1, <1>2, <1>3, FirstNames
<1>5. write_offset = SumOver(Taken, D)
  BY DEF PlacedOK
<1>6. IsFiniteSet(Loaded) /\ \A y \in Loaded : Taken[y] \in Nat
  BY LoadedSizes DEF LInv
<1>7. Taken[x] = ShapeOf(x)[1] * RowTaken(x)
  BY <1>4 DEF Taken
<1> HIDE DEF D, x
<1>8. SumOver(Taken, D \cup {x}) = SumOver(Taken, D) + Taken[x]
  <2>1. IsFiniteSet(D \cup {x})
    BY <1>1, FS_AddElement
  <2>2. \A y \in D \cup {x} : Taken[y] \in Int
    BY <1>4, <1>6
  <2>3. x \in D \cup {x} /\ (D \cup {x}) \ {x} = D
    BY <1>4
  <2>4. QED
    BY <2>1, <2>2, <2>3, SumAdd
<1>9. SumOver(Taken, D \cup {x}) <= SumOver(Taken, Loaded)
  <2>1. D \cup {x} \in SUBSET Loaded
    BY <1>4
  <2>2. QED
    BY <1>6, <2>1, SumOfSubset
<1>10. QED
  BY <1>1, <1>2, <1>4, <1>5, <1>7, <1>8, <1>9 DEF D, x

(* The plan leaves room for rows of whole groups.                            *)
LEMMA WholeGroupsFit ==
  ASSUME InputsOK, RowsAreWhole(group_size)
  PROVE  SumOver(Taken, Loaded) = Sized
<1>1. \A x \in Loaded : ShapeOf(x)[2] % group_size = 0
  BY Order DEF RowsAreWhole
<1>2. \A x \in Loaded : Taken[x] = Planned[x]
  BY <1>1, WholeGroupsUnpadded
<1>3. IsFiniteSet(Loaded)
  BY LoadedSizes
<1>4. SumOver(Taken, Loaded) = SumOver(Planned, Loaded)
  BY <1>2, <1>3, SumSame
<1>5. QED
  BY <1>4, PlanIsSum DEF Sized

(* So no registration of such rows is turned down.                           *)
LEMMA NextFits ==
  ASSUME LInv, FInv, status = "streaming", RowsAreWhole(group_size)
  PROVE  LET m == quantize_and_pack(ShapeOf(NextName))
         IN  CanRegister(NextName, m.n, PackedRow(m.packed_k))
<1>1. PlacedOK /\ InputsOK /\ bytes_total = Sized
  BY DEF FInv, LInv, SizedOK
<1>2. /\ NextName \notin DOMAIN handles
      /\ write_offset + ShapeOf(NextName)[1] * RowTaken(NextName) <= bytes_total
  BY <1>1, NextAdds, WholeGroupsFit
<1>3. QED
  BY <1>2 DEF CanRegister, quantize_and_pack, RowTaken

LEMMA PlanPlaces == LInv /\ FInv /\ Plan => FInv'
<1> SUFFICES ASSUME LInv, FInv, Plan PROVE FInv'
  OBVIOUS
<1>1. /\ PlacedOK /\ SizedOK /\ SmallOK /\ NeverFails /\ InputsOK
      /\ status = "planning" /\ status' = "streaming" /\ absent \notin LinearNames
      /\ Allocate(Sized) /\ UNCHANGED <<inputs, matrices, resident, model>>
  BY DEF FInv, Plan, LInv, Sized
<1>2. /\ UNCHANGED <<handles, write_offset>> /\ absent' = absent
      /\ UNCHANGED <<shape, group_size, include_down_proj_t>>
      /\ DOMAIN arena' = 0 .. Sized - 1
  BY <1>1 DEF Allocate, inputs
<1>3. PlacedOK' /\ SmallOK' /\ NeverFails'
  BY <1>1, <1>2, OthersPlaced, OthersSmall, OthersSucceed
<1>4. SizedOK'
  <2>1. Sized \in Nat /\ Sized' = Sized
    BY <1>1, <1>2, PlannedSize, SameInputs DEF Sized
  <2>2. bytes_total' = Sized
    BY <1>2, <2>1, SpanSize DEF bytes_total
  <2>3. QED
    BY <1>1, <1>2, <2>1, <2>2 DEF SizedOK
<1>5. QED
  BY <1>3, <1>4 DEF FInv

LEMMA LoadPlaces == LInv /\ FInv /\ Load => FInv'
<1> SUFFICES ASSUME LInv, FInv, Load PROVE FInv'
  OBVIOUS
<1> DEFINE x == NextName
           D == DOMAIN matrices
           n == ShapeOf(x)[1]
           w == RowTaken(x)
           m == quantize_and_pack(ShapeOf(x))
           h == [offset |-> write_offset, num_rows |-> n, row_nbytes |-> w]
<1>1. /\ PlacedOK /\ SizedOK /\ SmallOK /\ NeverFails
      /\ status = "streaming" /\ UNCHANGED <<inputs, resident, model>>
      /\ matrices' = Put(matrices, x, m)
      /\ status' = IF Len(LoadOrder) - Done - 1 = 0 THEN "resident" ELSE "streaming"
  BY DEF FInv, Load, Done
<1>2. /\ handles' = Put(handles, x, h) /\ write_offset' = write_offset + n * w
      /\ DOMAIN arena' = DOMAIN arena
  BY DEF Load, register, EndOffset, quantize_and_pack, RowTaken
<1>3. /\ absent' = absent /\ UNCHANGED <<shape, group_size, include_down_proj_t>>
  BY <1>1 DEF inputs
<1>4. /\ Done < Len(LoadOrder) /\ Done \in Nat /\ Len(LoadOrder) \in Nat
      /\ D \subseteq Loaded /\ DOMAIN handles = D /\ IsFiniteSet(D)
      /\ x \in Loaded /\ x \notin D
      /\ D \cup {x} = {LoadOrder[i] : i \in 1 .. Done + 1}
      /\ SumOver(Taken, D \cup {x}) = write_offset + n * w
  BY <1>1, NextAdds
<1>5. /\ LoadOrder' = LoadOrder /\ Taken' = Taken /\ Sized' = Sized
      /\ \A y : /\ ShapeOf(y)' = ShapeOf(y) /\ RowTaken(y)' = RowTaken(y)
                /\ quantize_and_pack(ShapeOf(y))' = quantize_and_pack(ShapeOf(y))
  BY <1>3, SameInputs
<1>6. SizedOK' /\ SmallOK' /\ NeverFails'
  <2>1. bytes_total' = bytes_total
    BY <1>2 DEF bytes_total
  <2>2. SizedOK'
    BY <1>1, <1>3, <1>5, <2>1 DEF SizedOK
  <2>3. status' # "failed" /\ status' # "loaded"
    BY <1>1
  <2>4. QED
    BY <1>1, <2>2, <2>3, OthersSmall, OthersSucceed
<1>7. DOMAIN matrices' = D \cup {x} /\ Done' = Done + 1
  <2>1. DOMAIN matrices' = D \cup {x}
    BY <1>1 DEF Put
  <2>2. Cardinality(D \cup {x}) = Cardinality(D) + 1
    BY <1>4, FS_AddElement
  <2>3. QED
    BY <2>1, <2>2 DEF Done
<1>8. \A y \in D \cup {x} : MatrixOK(y)'
  <2> TAKE y \in D \cup {x}
  <2>1. CASE y = x
    <3>1. matrices'[x] = m /\ handles'[x] = h
      BY <1>1, <1>2 DEF Put
    <3>2. QED
      BY <1>5, <2>1, <3>1 DEF MatrixOK
  <2>2. CASE y # x
    <3>1. y \in D /\ matrices'[y] = matrices[y] /\ handles'[y] = handles[y]
      BY <1>1, <1>2, <1>4, <2>2 DEF Put
    <3>2. MatrixOK(y)
      BY <1>1, <3>1 DEF PlacedOK
    <3>3. QED
      BY <1>5, <3>1, <3>2 DEF MatrixOK
  <2>3. QED
    BY <2>1, <2>2
<1>9. PlacedOK'
  <2> HIDE DEF x, D, n, w, m, h
  <2>1. Done + 1 \in 0 .. Len(LoadOrder)
    BY <1>4
  <2>2. status' \in {"resident", "loaded"} => Done + 1 = Len(LoadOrder)
    BY <1>1, <1>4
  <2>3. QED
    BY <1>2, <1>4, <1>5, <1>7, <1>8, <2>1, <2>2 DEF PlacedOK
<1>10. QED
  BY <1>6, <1>9 DEF FInv

(* Only an incomplete checkpoint, or rows that are padded, end a load.       *)
LEMMA RaisePlaces == LInv /\ FInv /\ (PlanRaises \/ RegisterRaises \/ SmallRaises) => FInv'
<1> SUFFICES ASSUME LInv, FInv, PlanRaises \/ RegisterRaises \/ SmallRaises PROVE FInv'
  OBVIOUS
<1>1. /\ PlacedOK /\ SizedOK /\ SmallOK /\ NeverFails
      /\ status' = "failed" /\ UNCHANGED <<storeVars, inputs, matrices, resident, model>>
      /\ status # "loaded"
  BY DEF FInv, PlanRaises, RegisterRaises, SmallRaises, Raise
<1>2. UNCHANGED <<handles, write_offset>> /\ UNCHANGED <<shape, group_size, include_down_proj_t>>
      /\ absent' = absent
  BY <1>1 DEF storeVars, inputs
<1>3. PlacedOK' /\ SizedOK' /\ SmallOK'
  BY <1>1, <1>2, OthersPlaced, OthersSized, OthersSmall
<1>4. ~ (RowsAreWhole(group_size) /\ absent = None)
  <2> SUFFICES ASSUME RowsAreWhole(group_size), absent = None PROVE FALSE
    OBVIOUS
  <2>1. CASE PlanRaises
    BY <2>1, NoneAssumption DEF PlanRaises
  <2>2. CASE RegisterRaises
    BY <2>2, NextFits DEF RegisterRaises
  <2>3. CASE SmallRaises
    <3>1. /\ SmallOrder \in Seq(Nat \X SmallSuffixes) /\ resident \in Seq(Nat \X SmallSuffixes)
          /\ Len(resident) < Len(SmallOrder) /\ SmallOrder[Len(resident) + 1] = None
      BY <1>1, <2>3, SmallIsSeq DEF SmallRaises, NextSmall, SmallOK
    <3>2. Len(resident) + 1 \in DOMAIN SmallOrder
      BY <3>1
    <3>3. QED
      BY <3>1, <3>2, NoneAssumption DEF ToSet
  <2>4. QED
    BY <2>1, <2>2, <2>3
<1>5. NeverFails'
  BY <1>2, <1>4, SameInputs DEF NeverFails
<1>6. QED
  BY <1>3, <1>5 DEF FInv

(* The tensors that go to the GPU, and the model they complete.              *)
LEMMA SmallPlaces == FInv /\ load_small_to_gpu => FInv'
<1> SUFFICES ASSUME FInv, load_small_to_gpu PROVE FInv'
  OBVIOUS
<1> DEFINE S == Nat \X SmallSuffixes
           n == Len(resident)
<1>1. /\ PlacedOK /\ SizedOK /\ SmallOK /\ NeverFails
      /\ status = "resident" /\ status' = status /\ n < Len(SmallOrder)
      /\ SmallOrder[n + 1] # absent /\ resident' = Append(resident, SmallOrder[n + 1])
      /\ UNCHANGED <<storeVars, inputs, matrices, model>>
  BY DEF FInv, load_small_to_gpu, NextSmall
<1>2. UNCHANGED <<handles, write_offset>> /\ absent' = absent /\ group_size' = group_size /\ model' = model
  BY <1>1 DEF storeVars, inputs
<1>3. PlacedOK' /\ SizedOK' /\ NeverFails'
  BY <1>1, <1>2, OthersPlaced, OthersSized, OthersSucceed
<1>4. resident \in Seq(S) /\ SmallOrder \in Seq(S) /\ n \in Nat /\ Len(SmallOrder) \in Nat
  BY <1>1, SmallIsSeq DEF SmallOK
<1>5. SmallOrder[n + 1] \in S
  BY <1>1, <1>4
<1> DEFINE v == SmallOrder[n + 1]
<1>6. /\ Append(resident, v) \in Seq(S) /\ Len(Append(resident, v)) = n + 1
      /\ \A i \in 1 .. n : Append(resident, v)[i] = resident[i]
      /\ Append(resident, v)[n + 1] = v
  <2> HIDE DEF S, v
  <2>1. resident \in Seq(S) /\ v \in S
    BY <1>4, <1>5 DEF v
  <2>2. QED
    BY <2>1
<1>7. ASSUME NEW i \in 1 .. n + 1
      PROVE  resident'[i] = SmallOrder[i] /\ SmallOrder[i] # absent
  <2>1. i \in 1 .. n \/ i = n + 1
    BY <1>4
  <2>2. QED
    BY <1>1, <1>6, <2>1 DEF SmallOK
<1>8. SmallOK'
  <2>1. resident' \in Seq(S) /\ Len(resident') = n + 1 /\ n + 1 <= Len(SmallOrder)
    BY <1>1, <1>4, <1>6
  <2>2. \A i \in 1 .. Len(resident') : resident'[i] = SmallOrder[i] /\ SmallOrder[i] # absent
    BY <1>7, <2>1
  <2>3. model = None
    BY <1>1 DEF SmallOK
  <2>4. QED
    BY <1>1, <1>2, <2>1, <2>2, <2>3 DEF SmallOK
<1>9. QED
  BY <1>3, <1>8 DEF FInv

LEMMA ModelPlaces == FInv /\ StreamingModel => FInv'
<1> SUFFICES ASSUME FInv, StreamingModel PROVE FInv'
  OBVIOUS
<1>1. /\ PlacedOK /\ SizedOK /\ SmallOK /\ NeverFails
      /\ status = "resident" /\ status' = "loaded" /\ Len(resident) = Len(SmallOrder)
      /\ model'.group_size = group_size
      /\ UNCHANGED <<storeVars, inputs, matrices, resident>>
  BY DEF FInv, StreamingModel, ModelGroupSize
<1>2. /\ UNCHANGED <<handles, write_offset>> /\ absent' = absent
      /\ group_size' = group_size /\ resident' = resident
  BY <1>1 DEF storeVars, inputs
<1>3. PlacedOK' /\ SizedOK' /\ NeverFails'
  BY <1>1, <1>2, OthersPlaced, OthersSized, OthersSucceed
<1>4. SmallOK'
  BY <1>1, <1>2 DEF SmallOK
<1>5. QED
  BY <1>3, <1>4 DEF FInv

LEMMA FNext == LInv /\ FInv /\ [Next]_vars => FInv'
<1> SUFFICES ASSUME LInv, FInv, [Next]_vars PROVE FInv'
  OBVIOUS
<1>1. CASE Plan
  BY <1>1, PlanPlaces
<1>2. CASE Load
  BY <1>2, LoadPlaces
<1>3. CASE PlanRaises \/ RegisterRaises \/ SmallRaises
  BY <1>3, RaisePlaces
<1>4. CASE load_small_to_gpu
  BY <1>4, SmallPlaces
<1>5. CASE StreamingModel
  BY <1>5, ModelPlaces
<1>6. CASE UNCHANGED vars
  <2>1. /\ PlacedOK /\ SizedOK /\ SmallOK /\ NeverFails
        /\ UNCHANGED <<storeVars, inputs, matrices, resident, model, status>>
    BY <1>6 DEF FInv, vars
  <2>2. UNCHANGED <<handles, write_offset>>
    BY <2>1 DEF storeVars
  <2>3. UNCHANGED <<storeVars, inputs>> /\ UNCHANGED <<inputs, resident, model>>
        /\ UNCHANGED inputs /\ status' = status
        /\ UNCHANGED <<handles, write_offset, inputs, matrices>>
    BY <2>1, <2>2
  <2>4. PlacedOK'
    BY <2>1, <2>3, OthersPlaced
  <2>5. SizedOK'
    BY <2>1, <2>3, OthersSized
  <2>6. SmallOK'
    <3>1. /\ resident' = resident /\ model' = model /\ absent' = absent
          /\ group_size' = group_size /\ status' = status
      BY <2>1 DEF inputs
    <3>2. QED
      BY <2>1, <3>1 DEF SmallOK
  <2>7. NeverFails'
    BY <2>1, <2>3, OthersSucceed
  <2>8. QED
    BY <2>4, <2>5, <2>6, <2>7 DEF FInv
<1>7. QED
  BY <1>1, <1>2, <1>3, <1>4, <1>5, <1>6 DEF Next

LEMMA LoadInvariant == Spec => [](LInv /\ FInv)
<1>1. Init => LInv /\ FInv
  BY InitHolds, FInitHolds
<1>2. LInv /\ FInv /\ [Next]_vars => (LInv /\ FInv)'
  BY LNext, FNext
<1>3. QED
  BY <1>1, <1>2, PTL DEF Spec

(* When the load is through, every name of the model took its span.          *)
LEMMA AllTaken ==
  ASSUME LInv, FInv, status \in {"resident", "loaded"}
  PROVE  /\ DOMAIN matrices = Loaded /\ DOMAIN handles = Loaded
         /\ write_offset = SumOver(Taken, Loaded)
         /\ bytes_total = SumOver(Planned, Loaded) /\ write_offset <= bytes_total
         /\ absent \notin LinearNames
<1>1. PlacedOK /\ SizedOK /\ InputsOK /\ Done = Len(LoadOrder) /\ Done \in 0 .. Len(LoadOrder)
  BY DEF FInv, LInv, PlacedOK
<1>2. DOMAIN matrices = Loaded
  BY <1>1, FirstNames DEF PlacedOK
<1>3. DOMAIN handles = DOMAIN matrices
  BY DEF LInv, ProgressOK
<1>4. bytes_total = SumOver(Planned, Loaded) /\ absent \notin LinearNames
  BY <1>1, PlanIsSum DEF SizedOK, Sized
<1>5. write_offset <= bytes_total
  <2>1. PICK size \in Nat : DOMAIN arena = 0 .. size - 1 /\ write_offset <= size
    BY DEF LInv, ArenaOK
  <2>2. QED
    BY <2>1, ArenaSize
<1>6. QED
  BY <1>1, <1>2, <1>3, <1>4, <1>5 DEF PlacedOK

LEMMA PlanIsFull == LInv /\ FInv => PlanFitsWholeGroups
<1> SUFFICES ASSUME LInv, FInv PROVE PlanFitsWholeGroups
  OBVIOUS
<1>1. /\ PlacedOK /\ SizedOK /\ NeverFails /\ InputsOK
  BY DEF FInv, LInv
<1>2. ASSUME RowsAreWhole(group_size), status \in {"resident", "loaded"}
      PROVE  write_offset = bytes_total
  <2>1. write_offset = SumOver(Taken, Loaded) /\ bytes_total = SumOver(Planned, Loaded)
    BY <1>2, AllTaken
  <2>2. SumOver(Taken, Loaded) = SumOver(Planned, Loaded)
    BY <1>1, <1>2, WholeGroupsFit, PlanIsSum DEF Sized
  <2>3. QED
    BY <2>1, <2>2
<1>3. ASSUME absent \in LinearNames PROVE bytes_total = 0
  <2>1. DOMAIN arena = {}
    BY <1>1, <1>3 DEF SizedOK, NoHandles
  <2>2. QED
    BY <2>1, FS_EmptySet DEF bytes_total
<1>4. QED
  BY <1>1, <1>2, <1>3 DEF PlanFitsWholeGroups, NeverFails

LEMMA Serves == LInv /\ FInv => LoadedModelServes
<1> SUFFICES ASSUME LInv, FInv, model # None
             PROVE  /\ absent = None
                    /\ DOMAIN handles = ToSet(LoadOrder) /\ resident = SmallOrder
                    /\ \A x \in DOMAIN matrices :
                         LET m == matrices[x]
                         IN  /\ handles[x].num_rows = m.n
                             /\ handles[x].row_nbytes = PackedRow(m.packed_k)
                             /\ CeilDiv(m.packed_k, model.group_size) = m.num_groups
                             /\ RowsAreWhole(PackGroup) => m.packed_k = m.k
  BY DEF LoadedModelServes
<1>1. /\ PlacedOK /\ SizedOK /\ SmallOK /\ InputsOK
      /\ status = "loaded" /\ model.group_size = group_size
  BY DEF FInv, LInv, SmallOK
<1>2. /\ DOMAIN matrices = Loaded /\ DOMAIN handles = Loaded /\ ToSet(LoadOrder) = Loaded
      /\ write_offset = SumOver(Taken, Loaded) /\ bytes_total = SumOver(Planned, Loaded)
      /\ write_offset <= bytes_total /\ absent \notin LinearNames
  BY <1>1, AllTaken, Order
<1>3. /\ resident \in Seq(Nat \X SmallSuffixes) /\ SmallOrder \in Seq(Nat \X SmallSuffixes)
      /\ Len(resident) = Len(SmallOrder)
      /\ \A i \in 1 .. Len(SmallOrder) : resident[i] = SmallOrder[i] /\ SmallOrder[i] # absent
  BY <1>1, SmallIsSeq DEF SmallOK
<1>4. resident = SmallOrder
  BY <1>3
<1>5. absent = None
  <2>1. DOMAIN SmallOrder = 1 .. Len(SmallOrder)
    BY <1>3
  <2>2. absent \notin ToSet(SmallOrder)
    BY <1>3, <2>1 DEF ToSet
  <2>3. QED
    BY <1>1, <1>2, <2>2 DEF SizedOK
<1>6. ASSUME NEW x \in Loaded
      PROVE  LET m == matrices[x]
             IN  /\ handles[x].num_rows = m.n
                 /\ handles[x].row_nbytes = PackedRow(m.packed_k)
                 /\ CeilDiv(m.packed_k, model.group_size) = m.num_groups
                 /\ RowsAreWhole(PackGroup) => m.packed_k = m.k
  <2> DEFINE k == ShapeOf(x)[2]
  <2>1. /\ matrices[x].n = ShapeOf(x)[1] /\ matrices[x].k = k
        /\ matrices[x].packed_k = Groups(k) * group_size /\ matrices[x].num_groups = Groups(k)
        /\ handles[x].num_rows = ShapeOf(x)[1] /\ handles[x].row_nbytes = RowTaken(x)
    <3>1. MatrixOK(x)
      BY <1>1, <1>2 DEF PlacedOK
    <3>2. matrices[x] = quantize_and_pack(ShapeOf(x))
      BY <3>1 DEF MatrixOK
    <3>3. /\ quantize_and_pack(ShapeOf(x)).n = ShapeOf(x)[1]
          /\ quantize_and_pack(ShapeOf(x)).k = k
          /\ quantize_and_pack(ShapeOf(x)).packed_k = Groups(k) * group_size
          /\ quantize_and_pack(ShapeOf(x)).num_groups = Groups(k)
      BY DEF quantize_and_pack
    <3>4. QED
      BY <3>1, <3>2, <3>3 DEF MatrixOK
  <2>2. k \in Nat \ {0} /\ group_size \in Nat \ {0}
    BY <1>1, LoadedSizes, LoaderAssumption DEF InputsOK
  <2>3. Groups(k) \in Nat
    BY <2>2, CeilCovers DEF Groups
  <2>4. CeilDiv(Groups(k) * group_size, group_size) = Groups(k)
    BY <2>2, <2>3, CeilOfMultiple
  <2>5. ASSUME RowsAreWhole(PackGroup) PROVE Groups(k) * group_size = k
    <3>1. \A y \in Loaded : ShapeOf(y)[2] % PackGroup = 0
      BY <1>2, <2>5 DEF RowsAreWhole
    <3>2. \A y \in Loaded : /\ Planned[y] \in Int /\ Taken[y] \in Int /\ Planned[y] <= Taken[y]
      BY <1>1, <3>1, WholeWordsPadded, LoadedSizes
    <3>3. SumOver(Taken, Loaded) <= SumOver(Planned, Loaded) /\ IsFiniteSet(Loaded)
      BY <1>1, <1>2, LoadedSizes
    <3>4. \A y \in Loaded : Planned[y] = Taken[y]
      BY <3>2, <3>3, SumTight
    <3>5. QED
      BY <1>1, <3>1, <3>4, WholeWordsPadded
  <2>6. QED
    BY <1>1, <2>1, <2>4, <2>5 DEF RowTaken
<1>7. QED
  BY <1>2, <1>4, <1>5, <1>6

(* A complete checkpoint of whole quantization groups loads without an       *)
(* exception and fills the arena to the last byte, for all shapes, group     *)
(* sizes and numbers of layers and matrices; one that lacks a matrix is      *)
(* turned down before anything is pinned (load_hf_checkpoint.py:63-148).     *)
THEOREM PlanFits == Spec => []PlanFitsWholeGroups
BY LoadInvariant, PlanIsFull, PTL

(* A model that is handed out has all its tensors, group sizes that find the *)
(* scales, and, if its rows are whole words, no padded row: the arena that   *)
(* was planned from the shapes has room for nothing else                     *)
(* (generate.py:34-43 and 127, loader.py).                                   *)
THEOREM ModelServes == Spec => []LoadedModelServes
BY LoadInvariant, Serves, PTL

================================================================================
