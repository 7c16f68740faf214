------------------------------ MODULE KernelProofs ------------------------------
(***************************************************************************)
(* Theorems about two kernels.  QuantGemv: packing and unpacking are       *)
(* inverse, word by word, for every length; only a ragged INT8 matrix is   *)
(* read at an address a word is not aligned to; and whatever the number of *)
(* lanes and chunks, each code of a row is multiplied with its own scale   *)
(* and added once, if the row has a scale for each of its groups.          *)
(* DecodeAttention, for any number of warps and rows and any               *)
(* contributions: the barriers of decode_attention.cu exclude every race,  *)
(* and each warp's slice of the output is the softmax over all rows.       *)
(***************************************************************************)
EXTENDS QuantGemv, DecodeAttention, NumberLemmas

-----------------------------------------------------------------------------
(* A sequence lists the members of M, each once.                             *)
Lists(s, M) ==
  /\ s \in Seq(M) /\ \A x \in M : \E k \in 1 .. Len(s) : s[k] = x
  /\ \A j, k \in 1 .. Len(s) : s[j] = s[k] => j = k

LEMMA ListsTogether ==
  ASSUME NEW A, NEW B, A \cap B = {}, NEW s, NEW f, Lists(s, A), Lists(f, B)
  PROVE  Lists(s \o f, A \cup B)
<1> DEFINE S == A \cup B
           d == Len(s)
           n == Len(f)
           u == s \o f
<1>1. /\ s \in Seq(S) /\ f \in Seq(S) /\ d \in Nat /\ n \in Nat
      /\ \A k \in 1 .. d : s[k] \in A
      /\ \A k \in 1 .. n : f[k] \in B
  BY DEF Lists
<1>2. /\ u \in Seq(S) /\ Len(u) = d + n
      /\ \A k \in 1 .. d + n : u[k] = IF k <= d THEN s[k] ELSE f[k - d]
  <2> HIDE DEF S
  <2>1. QED
    BY <1>1, Together
<1>3. /\ \A x \in A : \E k \in 1 .. d : s[k] = x
      /\ \A x \in B : \E k \in 1 .. n : f[k] = x
      /\ \A j, k \in 1 .. d : s[j] = s[k] => j = k
      /\ \A j, k \in 1 .. n : f[j] = f[k] => j = k
  BY DEF Lists
<1> HIDE DEF d, n, u
<1>4. ASSUME NEW x \in S PROVE \E k \in 1 .. d + n : u[k] = x
  <2>1. CASE x \in A
    <3>1. PICK k \in 1 .. d : s[k] = x
      BY <1>3, <2>1
    <3>2. k \in 1 .. d + n /\ k <= d
      BY <1>1
    <3>3. QED
      BY <1>2, <3>1, <3>2
  <2>2. CASE x \in B
    <3>1. PICK k \in 1 .. n : f[k] = x
      BY <1>3, <2>2
    <3>2. d + k \in 1 .. d + n /\ ~ (d + k <= d) /\ (d + k) - d = k
      BY <1>1
    <3>3. u[d + k] = IF d + k <= d THEN s[d + k] ELSE f[(d + k) - d]
      BY <1>2, <3>2
    <3>4. QED
      BY <3>1, <3>2, <3>3
  <2>3. QED
    BY <2>1, <2>2
<1>5. ASSUME NEW j \in 1 .. d + n, NEW k \in 1 .. d + n, u[j] = u[k] PROVE j = k
  <2>1. \A q \in 1 .. d + n : \/ q \in 1 .. d /\ u[q] = s[q] /\ u[q] \in A
                              \/ q - d \in 1 .. n /\ u[q] = f[q - d] /\ u[q] \in B
    <3> TAKE q \in 1 .. d + n
    <3>1. CASE q <= d
      <4>1. q \in 1 .. d
        BY <1>1, <3>1
      <4>2. QED
        BY <1>1, <1>2, <3>1, <4>1
    <3>2. CASE ~ (q <= d)
      <4>1. q - d \in 1 .. n
        BY <1>1, <3>2
      <4>2. QED
        BY <1>1, <1>2, <3>2, <4>1
    <3>3. QED
      BY <3>1, <3>2
  <2>2. CASE u[j] \in A
    <3>1. u[j] \notin B /\ u[k] \notin B
      BY <1>5, <2>2
    <3>2. j \in 1 .. d /\ k \in 1 .. d /\ s[j] = s[k]
      BY <1>5, <2>1, <3>1
    <3>3. QED
      BY <1>3, <3>2
  <2>3. CASE u[j] \in B
    <3>1. u[j] \notin A /\ u[k] \notin A
      BY <1>5, <2>3
    <3>2. j - d \in 1 .. n /\ k - d \in 1 .. n /\ f[j - d] = f[k - d]
      BY <1>5, <2>1, <3>1
    <3>3. j - d = k - d
      BY <1>3, <3>2
    <3>4. j \in Int /\ k \in Int
      OBVIOUS
    <3>5. QED
      BY <1>1, <3>3, <3>4
  <2>4. QED
    BY <2>1, <2>2, <2>3
<1>6. QED
  BY <1>2, <1>4, <1>5 DEF Lists, u

(* What n disjoint lists make together.                                      *)
LEMMA JoinLists ==
  ASSUME NEW n \in Nat \ {0}, NEW seqs, NEW M, Len(seqs) = n,
         \A z \in 1 .. n : Lists(seqs[z], M[z]),
         \A z, d \in 1 .. n : z # d => M[z] \cap M[d] = {}
  PROVE  Lists(FlattenSeq(seqs), UNION {M[z] : z \in 1 .. n})
<1> DEFINE U(d) == UNION {M[z] : z \in 1 .. d}
<1> DEFINE g == CHOOSE f : Joins(seqs, n, f)
<1>1. FlattenSeq(seqs) = g[n]
  BY DEF FlattenSeq, Joins
<1>2. Joins(seqs, n, g)
  <2>1. \E f : Joins(seqs, n, f)
    BY JoinExists
  <2>2. QED
    BY <2>1
<1> HIDE DEF g
<1>3. g[1] = seqs[1] /\ \A k \in 1 .. n - 1 : g[k + 1] = g[k] \o seqs[k + 1]
  <2>1. \A f : Joins(seqs, n, f) =>
          f[1] = seqs[1] /\ \A k \in 1 .. n - 1 : f[k + 1] = f[k] \o seqs[k + 1]
    BY JoinSteps
  <2>2. QED
    BY <1>2, <2>1
<1> DEFINE Holds(d) == d < n => Lists(g[d + 1], U(d + 1))
           T == {d \in Nat : Holds(d)}
<1>4. Holds(0)
  <2>1. 1 \in 1 .. n /\ 0 + 1 = 1
    OBVIOUS
  <2>2. U(1) = M[1]
    OBVIOUS
  <2> HIDE DEF U
  <2>3. Lists(g[1], U(1))
    BY <1>3, <2>1, <2>2
  <2>4. QED
    BY <2>1, <2>3
<1>5. ASSUME NEW d \in Nat, Holds(d) PROVE Holds(d + 1)
  <2> SUFFICES ASSUME d + 1 < n PROVE Lists(g[(d + 1) + 1], U((d + 1) + 1))
    OBVIOUS
  <2> DEFINE p == d + 1
  <2>1. p \in 1 .. n - 1 /\ p + 1 \in 1 .. n /\ d < n /\ \A z \in 1 .. p : z \in 1 .. n /\ z # p + 1
    OBVIOUS
  <2>2. Lists(g[p], U(p))
    BY <1>5, <2>1
  <2> HIDE DEF p
  <2>3. Lists(seqs[p + 1], M[p + 1]) /\ g[p + 1] = g[p] \o seqs[p + 1]
    BY <1>3, <2>1
  <2>4. U(p) \cap M[p + 1] = {}
    BY <2>1
  <2>5. U(p + 1) = U(p) \cup M[p + 1]
    <3>1. 1 .. p + 1 = (1 .. p) \cup {p + 1}
      BY <2>1
    <3>2. QED
      BY <3>1
  <2> HIDE DEF U
  <2>6. Lists(g[p + 1], U(p + 1))
    BY <2>2, <2>3, <2>4, <2>5, ListsTogether
  <2>7. QED
    BY <2>6 DEF p
<1>6. Nat \subseteq T
  <2> HIDE DEF Holds
  <2>1. 0 \in T /\ \A d \in Nat : d \in T => d + 1 \in T
    BY <1>4, <1>5
  <2> HIDE DEF T
  <2>2. QED
    BY <2>1, SetInduction
<1>7. n - 1 \in Nat /\ n - 1 < n /\ (n - 1) + 1 = n
  OBVIOUS
<1>8. Holds(n - 1)
  <2> HIDE DEF Holds
  <2>1. QED
    BY <1>6, <1>7
<1>9. Lists(g[n], U(n))
  <2> HIDE DEF U
  <2>1. QED
    BY <1>7, <1>8
<1>10. QED
  BY <1>1, <1>9

-----------------------------------------------------------------------------
(* The inputs, which no step changes.                                        *)
CodeValues == -8 .. 7

Inputs ==
  /\ N \in Nat \ {0} /\ K \in Nat \ {0} /\ kernel \in Kernels
  /\ group_size \in Nat \ {0} /\ num_groups \in Nat \ {0}
  /\ Accepted
  /\ codes \in [Rows -> [0 .. K - 1 -> CodeValues]]

(* The row of elements, or of bytes, a place of the array belongs to.        *)
Layout ==
  IF kernel \in Int4Kernels
  THEN [b \in 0 .. 4 * N * words_per_row - 1 |->
          pack_int4(codes[b \div (4 * words_per_row)])[b % (4 * words_per_row)]]
  ELSE [e \in 0 .. N * K - 1 |-> codes[e \div K][e % K]]

(* The words lane z of chunk c takes in its first n turns, and the positions *)
(* of the row they hold.                                                     *)
Turns(c, z, n) == {Begin(c) + z + Cardinality(Lanes) * f : f \in 0 .. n - 1}
Covered(c, z, n) == {k \in 0 .. K - 1 : k \div Width \in Turns(c, z, n) /\ k \div Width < End(c)}

(* The positions of the tail, which are lane 0's.                            *)
TailOf(z) == {k \in 0 .. K - 1 : kernel = "w8a16" /\ z = 0 /\ k >= 4 * (K \div 4)}

(* The product of position k of row r.                                       *)
Exact(r, k) == <<k, ExactScale(r, k), codes[r][k]>>
Products(r, P) == {Exact(r, k) : k \in P}

(* What the accumulator of lane z holds for row r and chunk c.               *)
Held(r, c, z) == Products(r, Covered(c, z, i) \cup IF stage = "done" THEN TailOf(z) ELSE {})
Listed(r, c, z) == Lists(accs[<<r, c, z>>], Held(r, c, z))

LanesListed ==
  stage \in {"running", "done"} /\ kernel # "sparse" /\ ~ TooFewScales =>
    /\ DOMAIN accs = Rows \X Chunks \X Lanes
    /\ \A r \in Rows, c \in Chunks, z \in Lanes :
         Listed(r, c, z)

(* The product of row r with column c, of which a thread adds one a turn.    *)
ColumnProduct(r, c) == <<r, ExactScale(r, c), codes[r][c]>>
Column(c) == [n \in 1 .. i |-> ColumnProduct(n - 1, c)]

ColumnsListed ==
  stage \in {"running", "done"} /\ kernel = "sparse" =>
    i <= N /\ accs = [c \in 0 .. K - 1 |-> Column(c)]

(* Holds the end the loops have run through.                                    *)
Ended ==
  stage = "done" =>
    IF kernel = "sparse" THEN i = N
    ELSE \A c \in Chunks : End(c) <= Begin(c) + Cardinality(Lanes) * i

QInv ==
  /\ Inputs
  /\ stage \in {"quantized", "running", "fault", "done"} /\ i \in Nat
  /\ (stage = "quantized" => i = 0)
  /\ (stage # "quantized" => packed = Layout)
  /\ LoadsAligned
  /\ LanesListed /\ ColumnsListed /\ Ended

-----------------------------------------------------------------------------
(* Words of w places, as many as a row needs: they hold every place.         *)
LEMMA CeilIsPositive ==
  ASSUME NEW a \in Nat \ {0}, NEW b \in Nat \ {0}
  PROVE  CeilDiv(a, b) \in Nat \ {0}
BY DEF CeilDiv

LEMMA CeilCovers ==
  ASSUME NEW a \in Nat \ {0}, NEW b \in Nat \ {0}
  PROVE  a <= CeilDiv(a, b) * b
<1> DEFINE c == CeilDiv(a, b)
<1>1. c = (a + b - 1) \div b /\ a + b - 1 \in Nat
  BY DEF CeilDiv
<1>2. a + b - 1 = c * b + ((a + b - 1) % b) /\ (a + b - 1) % b \in 0 .. b - 1
  BY <1>1
<1>3. c * b \in Int
  BY CeilIsPositive
<1>4. QED
  BY <1>2, <1>3, CeilIsPositive

(* Places below c * b are in the first c words.                              *)
LEMMA PlaceInWords ==
  ASSUME NEW k \in Nat, NEW b \in Nat \ {0}, NEW c \in Nat, k < c * b
  PROVE  k \div b \in 0 .. c - 1
<1> DEFINE q == k \div b
<1>1. q \in Nat /\ q * b <= k
  OBVIOUS
<1> HIDE DEF q
<1>2. q < c
  <2> SUFFICES ASSUME ~ (q < c) PROVE FALSE
    OBVIOUS
  <2>1. PICK d \in Nat : q = c + d
    <3>1. q - c \in Nat /\ q = c + (q - c)
      BY <1>1
    <3>2. QED
      BY <3>1
  <2>2. q * b = c * b + d * b /\ d * b \in Nat /\ c * b \in Nat
    BY <2>1
  <2>3. QED
    BY <1>1, <2>2
<1>3. QED
  BY <1>1, <1>2 DEF q

LEMMA CeilHolds ==
  ASSUME NEW a \in Nat \ {0}, NEW b \in Nat \ {0}, NEW k \in 0 .. a - 1
  PROVE  k \div b \in 0 .. CeilDiv(a, b) - 1
<1> DEFINE c == CeilDiv(a, b)
<1>1. c \in Nat /\ a <= c * b /\ c * b \in Int
  BY CeilCovers, CeilIsPositive
<1> HIDE DEF c
<1>2. k \in Nat /\ k < c * b
  BY <1>1
<1>3. QED
  BY <1>1, <1>2, PlaceInWords DEF c

(* A place that is a multiple of u, in groups of a multiple of u: the places *)
(* of its word are in its group.                                             *)
LEMMA SameGroup ==
  ASSUME NEW u \in {4, 8}, NEW g \in Nat \ {0}, g % u = 0, NEW w \in Nat, NEW j \in 0 .. u - 1
  PROVE  (u * w + j) \div g = (u * w) \div g
<1> DEFINE a == (u * w) \div g
           q == g \div u
           b == (u * w) % g
<1>1. g = u * q /\ q \in Nat
  OBVIOUS
<1>2. u * w = a * g + b /\ b \in 0 .. g - 1 /\ a \in Nat
  OBVIOUS
<1>3. a * g = u * (a * q) /\ a * q \in Nat
  BY <1>1, <1>2
<1> DEFINE p == a * q
<1> HIDE DEF a, b, q, p
<1>4. b = u * (w - p) /\ b < u * q /\ p \in Nat
  BY <1>1, <1>2, <1>3 DEF p
<1>5. b + j \in 0 .. g - 1
  BY <1>1, <1>2, <1>4
<1>6. u * w + j = a * g + (b + j)
  <2>1. a * g \in Int
    BY <1>2
  <2>2. QED
    BY <1>2, <2>1
<1>7. (a * g + (b + j)) \div g = a
  BY <1>2, <1>5, RowOf
<1>8. QED
  BY <1>6, <1>7 DEF a

(* A nibble of a byte made of two.                                           *)
LEMMA TwoNibbles ==
  ASSUME NEW low \in 0 .. 15, NEW high \in 0 .. 15, NEW n \in Nat
  PROVE  NibbleAt(low + 16 * high, n) = IF n % 2 = 0 THEN low ELSE high
BY DEF NibbleAt

(* Sign extension undoes the mask, for the values a nibble can hold.         *)
LEMMA SignExtends ==
  ASSUME NEW v \in CodeValues
  PROVE  Nibble(v) \in 0 .. 15 /\ SignExtend(Nibble(v)) = v /\ ((Nibble(v) + 8) % 16) - 8 = v
BY DEF CodeValues, Nibble, SignExtend

(* The two lists of shifts, against the order of the nibbles.                *)
LEMMA Orders ==
  ASSUME NEW v \in 0 .. 7
  PROVE  /\ AWQ_ORDER[v + 1] \in 0 .. 7
         /\ ScalarNibble[v + 1] \in 0 .. 7 /\ AWQ_ORDER[ScalarNibble[v + 1] + 1] = v
         /\ INV_AWQ_ORDER(v) \in 0 .. 7 /\ AWQ_ORDER[INV_AWQ_ORDER(v) + 1] = v
<1>1. /\ AWQ_ORDER[1] = 0 /\ AWQ_ORDER[2] = 2 /\ AWQ_ORDER[3] = 4 /\ AWQ_ORDER[4] = 6
      /\ AWQ_ORDER[5] = 1 /\ AWQ_ORDER[6] = 3 /\ AWQ_ORDER[7] = 5 /\ AWQ_ORDER[8] = 7
  BY DEF AWQ_ORDER
<1>2. /\ ScalarNibble[1] = 0 /\ ScalarNibble[2] = 4 /\ ScalarNibble[3] = 1 /\ ScalarNibble[4] = 5
      /\ ScalarNibble[5] = 2 /\ ScalarNibble[6] = 6 /\ ScalarNibble[7] = 3 /\ ScalarNibble[8] = 7
  BY DEF ScalarNibble
<1>3. v \in {0, 1, 2, 3, 4, 5, 6, 7}
  OBVIOUS
<1>4. AWQ_ORDER[v + 1] \in 0 .. 7
  BY <1>1, <1>3
<1>5. ScalarNibble[v + 1] \in 0 .. 7 /\ AWQ_ORDER[ScalarNibble[v + 1] + 1] = v
  BY <1>1, <1>2, <1>3
<1>6. INV_AWQ_ORDER(v) \in 0 .. 7 /\ AWQ_ORDER[INV_AWQ_ORDER(v) + 1] = v
  <2>1. \E n \in 1 .. 8 : AWQ_ORDER[n] = v
    <3>1. ScalarNibble[v + 1] + 1 \in 1 .. 8
      BY <1>5
    <3>2. QED
      BY <1>5, <3>1
  <2>2. PICK n \in 1 .. 8 : AWQ_ORDER[n] = v /\ INV_AWQ_ORDER(v) = n - 1
    BY <2>1 DEF INV_AWQ_ORDER
  <2>3. n - 1 \in 0 .. 7 /\ (n - 1) + 1 = n
    OBVIOUS
  <2>4. QED
    BY <2>2, <2>3
<1>7. QED
  BY <1>4, <1>5, <1>6

-----------------------------------------------------------------------------
(* The words of the INT4 kernels.                                            *)
Code(r, k) == IF k < K THEN codes[r][k] ELSE 0

LEMMA CodeType ==
  ASSUME Inputs, NEW r \in Rows, NEW k \in Nat
  PROVE  Code(r, k) \in CodeValues
BY DEF Inputs, Code, CodeValues

(* A nibble of the array is the masked code AWQ_ORDER puts there.            *)
LEMMA PackedNibble ==
  ASSUME Inputs, kernel \in Int4Kernels, packed = Layout,
         NEW r \in Rows, NEW w \in 0 .. words_per_row - 1, NEW n \in 0 .. 7
  PROVE  NibbleAt(packed[4 * (r * words_per_row + w) + n \div 2], n)
           = Nibble(Code(r, 8 * w + AWQ_ORDER[n + 1]))
<1> DEFINE W == words_per_row
           R == 4 * W
           h == n \div 2
           j == w * 4 + h
           b == r * R + j
           Holds(d) == Nibble(Code(r, 8 * w + AWQ_ORDER[d + 1]))
<1>1. N \in Nat \ {0} /\ K \in Nat \ {0} /\ W \in Nat \ {0} /\ r \in 0 .. N - 1 /\ w \in Nat
  <2>1. CeilDiv(K, 8) \in Nat \ {0}
    BY CeilIsPositive DEF Inputs
  <2>2. QED
    BY <2>1 DEF Inputs, Rows, words_per_row
<1>2. R \in Nat \ {0} /\ h \in 0 .. 3
  <2> HIDE DEF W
  <2>1. QED
    BY <1>1
<1>3. j \in 0 .. R - 1
  <2>1. j \in 0 .. W * 4 - 1
    <3> HIDE DEF W, h
    <3>1. w \in 0 .. W - 1
      BY DEF W
    <3>2. QED
      BY <1>1, <1>2, <3>1, WithinSpan
  <2>2. W * 4 = R
    <3> HIDE DEF W
    <3>1. QED
      BY <1>1
  <2>3. QED
    BY <2>1, <2>2
<1>4. j \div 4 = w /\ j % 4 = h
  <2> HIDE DEF h
  <2>1. QED
    BY <1>1, <1>2, RowOf
<1>5. 4 * (r * words_per_row + w) + n \div 2 = b
  <2>1. r * (4 * W) = 4 * (r * W) /\ r * W \in Int
    <3> HIDE DEF W
    <3>1. QED
      BY <1>1
  <2> DEFINE p == r * W
  <2> HIDE DEF p, h
  <2>2. 4 * (p + w) + h = 4 * p + (w * 4 + h) /\ p \in Int
    BY <1>1, <1>2, <2>1 DEF p
  <2>3. QED
    BY <2>1, <2>2 DEF p, h
<1>6. b \in 0 .. 4 * N * W - 1
  <2>1. b \in 0 .. N * R - 1
    <3> HIDE DEF R, j
    <3>1. QED
      BY <1>1, <1>2, <1>3, WithinSpan
  <2>2. N * R = 4 * N * W
    <3> HIDE DEF W
    <3>1. QED
      BY <1>1
  <2>3. QED
    BY <2>1, <2>2
<1>7. b \div R = r /\ b % R = j
  <2> HIDE DEF R, j
  <2>1. QED
    BY <1>1, <1>2, <1>3, RowOf
<1>8. packed[b] = pack_int4(codes[r])[j]
  <2>1. packed[b] = pack_int4(codes[b \div R])[b % R]
    <3> HIDE DEF b, j
    <3>1. packed[b] = pack_int4(codes[b \div (4 * words_per_row)])[b % (4 * words_per_row)]
      BY <1>6 DEF Layout
    <3>2. QED
      BY <3>1
  <2> HIDE DEF b, R, j
  <2>2. QED
    BY <1>7, <2>1
<1>9. pack_int4(codes[r])[j] = Holds(2 * h) + 16 * Holds(2 * h + 1)
  <2>1. pack_int4(codes[r])[j] =
          Nibble(Code(r, 8 * (j \div 4) + AWQ_ORDER[2 * (j % 4) + 1]))
            + 16 * Nibble(Code(r, 8 * (j \div 4) + AWQ_ORDER[(2 * (j % 4) + 1) + 1]))
    <3> HIDE DEF j
    <3>1. j \in 0 .. 4 * CeilDiv(K, 8) - 1
      BY <1>3 DEF words_per_row
    <3>2. QED
      BY <3>1 DEF pack_int4, Code
  <2>2. QED
    BY <1>4, <2>1
<1>10. Holds(2 * h) \in 0 .. 15 /\ Holds(2 * h + 1) \in 0 .. 15
  <2>1. ASSUME NEW d \in 0 .. 7 PROVE Holds(d) \in 0 .. 15
    <3>1. 8 * w + AWQ_ORDER[d + 1] \in Nat
      BY <1>1, Orders
    <3>2. QED
      BY <3>1, CodeType, SignExtends
  <2>2. 2 * h \in 0 .. 7 /\ 2 * h + 1 \in 0 .. 7
    <3> HIDE DEF h
    <3>1. QED
      BY <1>2
  <2> HIDE DEF h, Holds
  <2>3. QED
    BY <2>1, <2>2
<1>11. n = IF n % 2 = 0 THEN 2 * h ELSE 2 * h + 1
  OBVIOUS
<1> HIDE DEF Holds, h
<1>12. NibbleAt(Holds(2 * h) + 16 * Holds(2 * h + 1), n) = Holds(n)
  <2>1. NibbleAt(Holds(2 * h) + 16 * Holds(2 * h + 1), n) = IF n % 2 = 0 THEN Holds(2 * h) ELSE Holds(2 * h + 1)
    BY <1>10, TwoNibbles
  <2>2. QED
    BY <1>11, <2>1
<1> HIDE DEF b, j
<1>13. QED
  BY <1>5, <1>8, <1>9, <1>12 DEF Holds

(* Both ways of the kernels to take a word apart give its codes in order.    *)
LEMMA WordCodes ==
  ASSUME Inputs, kernel \in Int4Kernels, packed = Layout,
         NEW r \in Rows, NEW w \in 0 .. words_per_row - 1, NEW v \in 0 .. 7
  PROVE  /\ dequant_scalar(row_words(r, w))[v] = Code(r, 8 * w + v)
         /\ dequant_int4x8_awq(row_words(r, w))[v] = Code(r, 8 * w + v)
<1> DEFINE word == row_words(r, w)
           Holds(k) == Code(r, 8 * w + k)
<1>1. ASSUME NEW n \in 0 .. 7 PROVE word[n] = Nibble(Holds(AWQ_ORDER[n + 1]))
  BY <1>1, PackedNibble DEF row_words
<1>2. ASSUME NEW k \in 0 .. 7
      PROVE  /\ Nibble(Holds(k)) \in 0 .. 15 /\ SignExtend(Nibble(Holds(k))) = Holds(k)
             /\ Holds(k) \in Int /\ ((Nibble(Holds(k)) + 8) % 16) - 8 = Holds(k)
  <2>1. 8 * w + k \in Nat /\ Holds(k) \in CodeValues
    <3>1. 8 * w + k \in Nat
      OBVIOUS
    <3>2. QED
      BY <3>1, CodeType
  <2> HIDE DEF Holds
  <2>2. QED
    BY <2>1, SignExtends DEF CodeValues
<1> HIDE DEF Holds, word
<1>3. dequant_scalar(word)[v] = Holds(v)
  <2>1. ScalarNibble[v + 1] \in 0 .. 7 /\ AWQ_ORDER[ScalarNibble[v + 1] + 1] = v
    BY Orders
  <2>2. word[ScalarNibble[v + 1]] = Nibble(Holds(v))
    BY <1>1, <2>1
  <2>3. QED
    BY <1>2, <2>2 DEF dequant_scalar
<1>4. /\ word[0] = Nibble(Holds(0)) /\ word[1] = Nibble(Holds(2)) /\ word[2] = Nibble(Holds(4))
      /\ word[3] = Nibble(Holds(6)) /\ word[4] = Nibble(Holds(1)) /\ word[5] = Nibble(Holds(3))
      /\ word[6] = Nibble(Holds(5)) /\ word[7] = Nibble(Holds(7))
  <2>1. /\ AWQ_ORDER[0 + 1] = 0 /\ AWQ_ORDER[1 + 1] = 2 /\ AWQ_ORDER[2 + 1] = 4 /\ AWQ_ORDER[3 + 1] = 6
        /\ AWQ_ORDER[4 + 1] = 1 /\ AWQ_ORDER[5 + 1] = 3 /\ AWQ_ORDER[6 + 1] = 5 /\ AWQ_ORDER[7 + 1] = 7
    BY DEF AWQ_ORDER
  <2>2. \A n \in 0 .. 7 : word[n] = Nibble(Holds(AWQ_ORDER[n + 1]))
    BY <1>1
  <2>3. {0, 1, 2, 3, 4, 5, 6, 7} \subseteq 0 .. 7
    OBVIOUS
  <2>4. QED
    BY <2>1, <2>2, <2>3
<1> DEFINE x == FlipSigns(word)
           top == [n \in 0 .. 7 |-> IF n + 2 <= 7 THEN x[n + 2] ELSE 0]
           Bottom(f, half) == (1024 + f[4 * half]) - 1024
           Top(f, half) == ((1024 + 16 * f[4 * half + 1]) \div 16) - 64
           g(j, half) == CASE j = 0 -> Bottom(x, half)   [] j = 1 -> Top(x, half)
                           [] j = 2 -> Bottom(top, half) [] j = 3 -> Top(top, half)
<1>5. dequant_int4x8_awq(word)[v] = g(v \div 2, v % 2) - 8
  BY DEF dequant_int4x8_awq
<1>6. \A n \in 0 .. 7 : x[n] = (word[n] + 8) % 16
  BY DEF FlipSigns
<1> HIDE DEF x
<1>7. /\ x[0] \in 0 .. 15 /\ x[0] - 8 = Holds(0) /\ x[1] \in 0 .. 15 /\ x[1] - 8 = Holds(2)
      /\ x[2] \in 0 .. 15 /\ x[2] - 8 = Holds(4) /\ x[3] \in 0 .. 15 /\ x[3] - 8 = Holds(6)
      /\ x[4] \in 0 .. 15 /\ x[4] - 8 = Holds(1) /\ x[5] \in 0 .. 15 /\ x[5] - 8 = Holds(3)
      /\ x[6] \in 0 .. 15 /\ x[6] - 8 = Holds(5) /\ x[7] \in 0 .. 15 /\ x[7] - 8 = Holds(7)
  <2>1. ASSUME NEW n \in 0 .. 7, NEW k \in 0 .. 7, word[n] = Nibble(Holds(k))
        PROVE  x[n] \in 0 .. 15 /\ x[n] - 8 = Holds(k)
    BY <1>2, <1>6, <2>1
  <2>2. {0, 1, 2, 3, 4, 5, 6, 7} \subseteq 0 .. 7
    OBVIOUS
  <2>3. QED
    BY <1>4, <2>1, <2>2
<1>8. top[0] = x[2] /\ top[1] = x[3] /\ top[4] = x[6] /\ top[5] = x[7]
  OBVIOUS
<1> HIDE DEF top
<1>9. g(v \div 2, v % 2) - 8 = Holds(v)
  <2>1. v \in {0, 1, 2, 3, 4, 5, 6, 7}
    OBVIOUS
  <2>2. CASE v \in {0, 1}
    <3>1. v \div 2 = 0 /\ v % 2 = v /\ g(0, v) = Bottom(x, v)
      BY <2>2
    <3>2. Bottom(x, 0) = x[0] /\ Bottom(x, 1) = x[4]
      BY <1>7
    <3> HIDE DEF g, Bottom
    <3>3. QED
      BY <1>7, <2>2, <3>1, <3>2
  <2>3. CASE v \in {2, 3}
    <3>1. v \div 2 = 1 /\ v % 2 = v - 2 /\ g(1, v - 2) = Top(x, v - 2)
      BY <2>3
    <3>2. Top(x, 0) = x[1] /\ Top(x, 1) = x[5]
      BY <1>7
    <3> HIDE DEF g, Top
    <3>3. (v = 2 /\ v - 2 = 0) \/ (v = 3 /\ v - 2 = 1)
      BY <2>3
    <3>4. QED
      BY <1>7, <3>1, <3>2, <3>3
  <2>4. CASE v \in {4, 5}
    <3>1. v \div 2 = 2 /\ v % 2 = v - 4 /\ g(2, v - 4) = Bottom(top, v - 4)
      BY <2>4
    <3>2. Bottom(top, 0) = x[2] /\ Bottom(top, 1) = x[6]
      BY <1>7, <1>8
    <3> HIDE DEF g, Bottom
    <3>3. (v = 4 /\ v - 4 = 0) \/ (v = 5 /\ v - 4 = 1)
      BY <2>4
    <3>4. QED
      BY <1>7, <3>1, <3>2, <3>3
  <2>5. CASE v \in {6, 7}
    <3>1. v \div 2 = 3 /\ v % 2 = v - 6 /\ g(3, v - 6) = Top(top, v - 6)
      BY <2>5
    <3>2. Top(top, 0) = x[3] /\ Top(top, 1) = x[7]
      BY <1>7, <1>8
    <3> HIDE DEF g, Top
    <3>3. (v = 6 /\ v - 6 = 0) \/ (v = 7 /\ v - 6 = 1)
      BY <2>5
    <3>4. QED
      BY <1>7, <3>1, <3>2, <3>3
  <2>6. QED
    BY <2>1, <2>2, <2>3, <2>4, <2>5
<1>10. QED
  BY <1>3, <1>5, <1>9 DEF Holds, word

(* unpack_int4 gives the codes back.                                         *)
LEMMA Restores ==
  ASSUME Inputs, kernel \in Int4Kernels, packed = Layout, NEW r \in Rows
  PROVE  unpack_int4([b \in 0 .. 4 * words_per_row - 1 |-> packed[4 * words_per_row * r + b]]) = codes[r]
<1> DEFINE W == words_per_row
           bytes == [b \in 0 .. 4 * W - 1 |-> packed[4 * W * r + b]]
           u == unpack_int4(bytes)
<1>1. K \in Nat \ {0} /\ W \in Nat \ {0} /\ r \in Nat /\ codes[r] \in [0 .. K - 1 -> CodeValues]
  <2>1. CeilDiv(K, 8) \in Nat \ {0}
    BY CeilIsPositive DEF Inputs
  <2>2. QED
    BY <2>1 DEF Inputs, Rows, words_per_row
<1>2. ASSUME NEW k \in 0 .. K - 1 PROVE u[k] = codes[r][k]
  <2> DEFINE w == k \div 8
             v == k % 8
             n == INV_AWQ_ORDER(v)
             h == n \div 2
  <2>1. w \in 0 .. W - 1 /\ w \in Nat /\ v \in 0 .. 7 /\ 8 * w + v = k
    <3>1. k \div 8 \in 0 .. CeilDiv(K, 8) - 1
      <4>1. 8 \in Nat \ {0}
        OBVIOUS
      <4>2. QED
        BY <1>1, <4>1, CeilHolds
    <3>2. QED
      BY <3>1 DEF words_per_row
  <2>2. u[k] = SignExtend(NibbleAt(bytes[4 * w + h], n))
    BY DEF unpack_int4
  <2> HIDE DEF w, v, u
  <2>3. n \in 0 .. 7 /\ AWQ_ORDER[n + 1] = v
    BY <2>1, Orders
  <2> HIDE DEF n
  <2>4. h \in 0 .. 3
    BY <2>3
  <2>5. bytes[4 * w + h] = packed[4 * (r * W + w) + h]
    <3> HIDE DEF W, h
    <3>1. 4 * w + h \in 0 .. 4 * W - 1
      BY <1>1, <2>1, <2>4
    <3>2. 4 * W * r + (4 * w + h) = 4 * (r * W + w) + h
      <4> DEFINE p == r * W
      <4>1. 4 * W * r = 4 * p /\ p \in Int
        BY <1>1
      <4> HIDE DEF p
      <4>2. 4 * p + (4 * w + h) = 4 * (p + w) + h
        BY <2>1, <2>4, <4>1
      <4>3. QED
        BY <4>1, <4>2 DEF p
    <3>3. QED
      BY <3>1, <3>2
  <2>6. NibbleAt(packed[4 * (r * W + w) + h], n) = Nibble(Code(r, 8 * w + AWQ_ORDER[n + 1]))
    BY <2>1, <2>3, PackedNibble
  <2> HIDE DEF bytes, h, W
  <2>7. u[k] = SignExtend(Nibble(Code(r, k)))
    BY <2>1, <2>2, <2>3, <2>5, <2>6
  <2>8. k \in Nat /\ Code(r, k) \in CodeValues
    <3>1. k \in Nat
      OBVIOUS
    <3>2. QED
      BY <3>1, CodeType
  <2>9. Code(r, k) = codes[r][k]
    BY <1>1 DEF Code
  <2>10. QED
    BY <2>7, <2>8, <2>9, SignExtends
<1>3. u = [k \in 0 .. K - 1 |-> u[k]]
  BY DEF unpack_int4
<1> HIDE DEF u
<1>4. codes[r] = [k \in 0 .. K - 1 |-> codes[r][k]]
  BY <1>1
<1>5. u = codes[r]
  BY <1>2, <1>3, <1>4
<1>6. QED
  BY <1>5 DEF u

-----------------------------------------------------------------------------
(* Enough scales are one for each group: a single one where the row is one   *)
(* group.                                                                    *)
LEMMA EnoughScales ==
  ASSUME Inputs, ~ TooFewScales, kernel \notin Fp16Kernels
  PROVE  /\ num_groups = CeilDiv(K, group_size)
         /\ \A k \in 0 .. K - 1 : k \div group_size \in 0 .. num_groups - 1
<1>1. K \in Nat \ {0} /\ group_size \in Nat \ {0} /\ num_groups \in Nat \ {0} /\ kernel \in Kernels
  BY DEF Inputs
<1>2. CeilDiv(K, group_size) \in Nat \ {0}
  BY <1>1, CeilIsPositive
<1>3. num_groups = 1 \/ num_groups = CeilDiv(K, group_size)
  BY DEF Inputs, Accepted, ScaleShape, Kernels, Int4Kernels
<1>4. num_groups = CeilDiv(K, group_size)
  BY <1>1, <1>2, <1>3 DEF TooFewScales
<1>5. ASSUME NEW k \in 0 .. K - 1 PROVE k \div group_size \in 0 .. num_groups - 1
  BY <1>1, <1>4, CeilHolds
<1>6. QED
  BY <1>4, <1>5

(* The scale a kernel looks up is that of the row and the group of a code,   *)
(* and the same for all codes of a word.                                     *)
LEMMA ScaleExact ==
  ASSUME Inputs, ~ TooFewScales, NEW r \in Rows, NEW k \in 0 .. K - 1
  PROVE  ScaleOf(r, k) = ExactScale(r, k)
<1>1. CASE kernel \in Fp16Kernels
  BY <1>1 DEF ScaleOf, ExactScale
<1>2. CASE kernel \notin Fp16Kernels
  <2> DEFINE q == k \div group_size
             Row == IF scale_rows = 1 THEN 0 ELSE r
  <2>1. r \in Nat /\ num_groups \in Nat \ {0}
    BY DEF Inputs, Rows
  <2>2. q \in 0 .. num_groups - 1
    BY <1>2, EnoughScales
  <2>3. r * scale_row_stride + q = Row * num_groups + q /\ Row \in Nat
    <3> HIDE DEF q
    <3>1. r * 0 = 0 * num_groups
      BY <2>1
    <3>2. QED
      BY <2>1, <3>1 DEF scale_row_stride
  <2> HIDE DEF q, Row
  <2>4. (Row * num_groups + q) \div num_groups = Row /\ (Row * num_groups + q) % num_groups = q
    BY <2>1, <2>2, <2>3, RowOf
  <2>5. ScaleOf(r, k) = scale_at(r * scale_row_stride + q)
    BY <1>2 DEF ScaleOf, q
  <2>6. QED
    BY <1>2, <2>3, <2>4, <2>5 DEF scale_at, ExactScale, Row, q
<1>3. QED
  BY <1>1, <1>2

LEMMA SameScale ==
  ASSUME Inputs, ~ TooFewScales, kernel # "sparse",
         NEW r \in Rows, NEW w \in Nat, NEW j \in 0 .. Width - 1, Width * w + j < K
  PROVE  ExactScale(r, Width * w + j) = ExactScale(r, Width * w)
<1>1. K \in Nat \ {0} /\ group_size \in Nat \ {0} /\ Width \in {1, 4, 8} /\ kernel \in Kernels
  BY DEF Inputs, Width
<1>2. CASE kernel \in Fp16Kernels
  BY <1>2 DEF ExactScale
<1>3. CASE kernel \notin Fp16Kernels
  <2> SUFFICES (Width * w + j) \div group_size = (Width * w) \div group_size
    BY <1>3 DEF ExactScale
  <2>1. CASE num_groups = 1
    <3>1. \A k \in 0 .. K - 1 : k \div group_size \in 0 .. 1 - 1
      BY <1>3, <2>1, EnoughScales
    <3>2. \A k \in 0 .. K - 1 : k \div group_size = 0
      BY <3>1
    <3>3. Width * w + j \in 0 .. K - 1 /\ Width * w \in 0 .. K - 1
      BY <1>1
    <3>4. QED
      BY <3>2, <3>3
  <2>2. CASE num_groups # 1
    <3> DEFINE u == Width
    <3>1. u \in {4, 8} /\ j \in 0 .. u - 1 /\ group_size % u = 0
      <4>1. CASE kernel \in Int4Kernels
        BY <4>1 DEF Inputs, Accepted, ScaleShape, Int4Kernels, Width
      <4>2. CASE kernel = "w8a16"
        BY <2>2, <4>2 DEF Inputs, Accepted, ScaleShape, Int4Kernels, Width
      <4>3. QED
        BY <1>1, <1>3, <4>1, <4>2 DEF Kernels
    <3> HIDE DEF u
    <3> DEFINE Divides(f, g) == g % f = 0
               Same(f, d, n, g) == (f * d + n) \div g = (f * d) \div g
    <3>2. \A f \in {4, 8}, g \in Nat \ {0}, d \in Nat : \A n \in 0 .. f - 1 : Divides(f, g) => Same(f, d, n, g)
      BY SameGroup
    <3>3. Divides(u, group_size)
      BY <3>1
    <3> HIDE DEF Divides, Same
    <3>4. Same(u, w, j, group_size)
      BY <1>1, <3>1, <3>2, <3>3
    <3>5. QED
      BY <3>4 DEF u, Same
  <2>3. QED
    BY <2>1, <2>2
<1>4. QED
  BY <1>2, <1>3

-----------------------------------------------------------------------------
(* What the words and lanes of a kernel count.                               *)
LEMMA Counts ==
  ASSUME Inputs
  PROVE  /\ K \in Nat \ {0} /\ N \in Nat \ {0}
         /\ Width \in {1, 4, 8} /\ WordsOfRow \in Nat
         /\ Cardinality(Lanes) \in Nat \ {0} /\ Lanes = 0 .. Cardinality(Lanes) - 1
<1>1. K \in Nat \ {0} /\ N \in Nat \ {0} /\ Width \in {1, 4, 8} /\ NumLanes \in Nat \ {0}
  BY QuantAssumption DEF Inputs, Width
<1>2. WordsOfRow \in Nat
  <2>1. CeilDiv(K, 8) \in Nat
    BY <1>1, CeilIsPositive
  <2>2. K \div Width \in Nat
    BY <1>1
  <2>3. QED
    BY <2>1, <2>2 DEF WordsOfRow, words_per_row
<1>3. \A n \in Nat \ {0} : Cardinality(0 .. n - 1) = n
  <2> TAKE n \in Nat \ {0}
  <2>1. 0 \in Int /\ n - 1 \in Int /\ ~ (0 > n - 1) /\ (n - 1) - 0 + 1 = n
    OBVIOUS
  <2>2. QED
    BY <2>1, FS_Interval
<1>4. CASE kernel = "fp16_v1"
  <2>1. 0 .. 1 - 1 = {0} /\ 1 \in Nat \ {0}
    OBVIOUS
  <2>2. Lanes = 0 .. 1 - 1
    BY <1>4, <2>1 DEF Lanes
  <2>3. QED
    BY <1>1, <1>2, <1>3, <2>1, <2>2
<1>5. CASE kernel # "fp16_v1"
  <2>1. Lanes = 0 .. NumLanes - 1
    BY <1>5 DEF Lanes
  <2>2. QED
    BY <1>1, <1>2, <1>3, <2>1
<1>6. QED
  BY <1>4, <1>5

(* A word of the row: where it starts, and what is left of the row there.    *)
Remaining(w) == IF K - Width * w < Width THEN K - Width * w ELSE Width

LEMMA WordInRow ==
  ASSUME Inputs, kernel # "sparse", NEW w \in 0 .. WordsOfRow - 1
  PROVE  /\ Width * w \in 0 .. K - 1 /\ w \in Nat
         /\ Remaining(w) \in 1 .. Width /\ Width * w + Remaining(w) <= K
         /\ (kernel \notin Int4Kernels => Remaining(w) = Width)
<1>1. K \in Nat \ {0} /\ w \in Nat
  BY DEF Inputs
<1>2. CASE kernel \in Int4Kernels
  <2>1. Width = 8 /\ WordsOfRow = (K + 8 - 1) \div 8
    BY <1>2 DEF Int4Kernels, Width, WordsOfRow, words_per_row, CeilDiv
  <2>2. w + 1 <= (K + 8 - 1) \div 8
    BY <1>1, <2>1
  <2>3. 8 * w <= K - 1
    BY <1>1, <2>2
  <2>4. QED
    BY <1>1, <1>2, <2>1, <2>3 DEF Remaining
<1>3. CASE kernel \notin Int4Kernels
  <2>1. WordsOfRow = K \div Width /\ Width \in {1, 4, 8}
    BY <1>3 DEF Width, WordsOfRow
  <2>2. w + 1 <= K \div Width
    BY <1>1, <2>1
  <2>3. CASE Width = 1
    BY <1>1, <2>2, <2>3 DEF Remaining
  <2>4. CASE Width = 4
    BY <1>1, <2>2, <2>4 DEF Remaining
  <2>5. CASE Width = 8
    BY <1>1, <2>2, <2>5 DEF Remaining
  <2>6. QED
    BY <2>1, <2>3, <2>4, <2>5
<1>4. QED
  BY <1>2, <1>3

(* d products, of the positions from a on.                                   *)
Span(a, d) == {k \in 0 .. K - 1 : a <= k /\ k < a + d}

LEMMA SpanListed ==
  ASSUME NEW r, K \in Nat, NEW a \in Nat, NEW d \in Nat, a + d <= K
  PROVE  Lists([n \in 1 .. d |-> Exact(r, a + (n - 1))], Products(r, Span(a, d)))
<1> DEFINE s == [n \in 1 .. d |-> Exact(r, a + (n - 1))]
           M == Products(r, Span(a, d))
<1>1. ASSUME NEW n \in 1 .. d PROVE s[n] \in M
  <2>1. a + (n - 1) \in Span(a, d)
    BY DEF Span
  <2>2. QED
    BY <2>1 DEF Products
<1>2. s \in [1 .. d -> M]
  <2> HIDE DEF M
  <2>1. QED
    BY <1>1
<1>3. s \in Seq(M) /\ Len(s) = d
  <2> HIDE DEF s, M
  <2>1. QED
    BY <1>2, Tabulated
<1>4. ASSUME NEW x \in M PROVE \E n \in 1 .. d : s[n] = x
  <2>1. PICK k \in Span(a, d) : x = Exact(r, k)
    BY DEF Products
  <2>2. (k - a) + 1 \in 1 .. d /\ a + (((k - a) + 1) - 1) = k
    BY DEF Span
  <2>3. s[(k - a) + 1] = Exact(r, k)
    BY <2>2
  <2>4. QED
    BY <2>1, <2>2, <2>3
<1>5. ASSUME NEW j \in 1 .. d, NEW k \in 1 .. d, s[j] = s[k] PROVE j = k
  <2>1. s[j][1] = a + (j - 1) /\ s[k][1] = a + (k - 1)
    BY DEF Exact
  <2>2. a + (j - 1) = a + (k - 1)
    BY <1>5, <2>1
  <2>3. QED
    BY <2>2
<1> HIDE DEF s, M
<1>6. QED
  BY <1>3, <1>4, <1>5 DEF Lists, s, M

(* A place of a flat array of rows.                                          *)
LEMMA FlatElement ==
  ASSUME Inputs, kernel \notin Int4Kernels, packed = Layout, NEW r \in Rows, NEW k \in 0 .. K - 1
  PROVE  packed[r * K + k] = codes[r][k]
<1>1. N \in Nat /\ K \in Nat \ {0} /\ r \in 0 .. N - 1 /\ r \in Nat
  BY DEF Inputs, Rows
<1> DEFINE e == r * K + k
<1>2. e \in 0 .. N * K - 1
  BY <1>1, WithinSpan
<1>3. e \div K = r /\ e % K = k
  BY <1>1, RowOf
<1>4. packed[e] = codes[e \div K][e % K]
  <2> HIDE DEF e
  <2>1. QED
    BY <1>2 DEF Layout
<1> HIDE DEF e
<1>5. packed[e] = codes[r][k]
  BY <1>3, <1>4
<1>6. QED
  BY <1>5 DEF e

(* The terms of a word are the products of its positions.                    *)
LEMMA TermsOfWord ==
  ASSUME Inputs, ~ TooFewScales, kernel # "sparse", packed = Layout,
         NEW r \in Rows, NEW w \in 0 .. WordsOfRow - 1
  PROVE  Lists(WordTerms(r, w), Products(r, Span(Width * w, Remaining(w))))
<1> DEFINE a == Width * w
           d == Remaining(w)
           v == CASE kernel = "group" -> dequant_scalar(row_words(r, w))
                  [] kernel = "lop3"  -> dequant_int4x8_awq(row_words(r, w))
                  [] OTHER            -> [n \in 0 .. Width - 1 |-> packed[r * K + a + n]]
<1>1. /\ K \in Nat \ {0} /\ r \in Nat /\ w \in Nat /\ a \in 0 .. K - 1 /\ a \in Nat
      /\ Width \in {1, 4, 8} /\ d \in 1 .. Width /\ a + d <= K
      /\ (kernel \notin Int4Kernels => d = Width)
  BY Counts, WordInRow DEF Rows
<1>2. WordTerms(r, w) = [n \in 1 .. d |-> <<a + n - 1, ScaleOf(r, a), v[n - 1]>>]
  BY DEF WordTerms, Remaining
<1>3. ASSUME NEW n \in 1 .. d PROVE v[n - 1] = codes[r][a + (n - 1)]
  <2>1. n - 1 \in 0 .. Width - 1 /\ a + (n - 1) \in 0 .. K - 1 /\ a + (n - 1) \in Nat
    <3> HIDE DEF a, d
    <3>1. QED
      BY <1>1
  <2>2. CASE kernel \in Int4Kernels
    <3>1. kernel \in {"group", "lop3"} /\ Width = 8 /\ WordsOfRow = words_per_row
      BY <2>2 DEF Int4Kernels, Width, WordsOfRow
    <3>2. n - 1 \in 0 .. 7 /\ a = 8 * w
      BY <2>1, <3>1
    <3>3. v[n - 1] = Code(r, 8 * w + (n - 1))
      <4>1. /\ dequant_scalar(row_words(r, w))[n - 1] = Code(r, 8 * w + (n - 1))
            /\ dequant_int4x8_awq(row_words(r, w))[n - 1] = Code(r, 8 * w + (n - 1))
        <5>1. w \in 0 .. words_per_row - 1
          BY <3>1
        <5>2. QED
          BY <2>2, <3>2, <5>1, WordCodes
      <4>2. v = dequant_scalar(row_words(r, w)) \/ v = dequant_int4x8_awq(row_words(r, w))
        BY <3>1
      <4> HIDE DEF v
      <4>3. QED
        BY <4>1, <4>2
    <3> HIDE DEF v, a
    <3>4. QED
      BY <1>1, <2>1, <3>2, <3>3 DEF Code
  <2>3. CASE kernel \notin Int4Kernels
    <3>1. v[n - 1] = packed[r * K + a + (n - 1)]
      BY <2>1, <2>3 DEF Int4Kernels
    <3> DEFINE p == r * K
    <3>2. p \in Int /\ p + a + (n - 1) = p + (a + (n - 1))
      BY <1>1
    <3>3. packed[r * K + (a + (n - 1))] = codes[r][a + (n - 1)]
      <4> HIDE DEF a
      <4>1. \A k \in 0 .. K - 1 : packed[r * K + k] = codes[r][k]
        BY <2>3, FlatElement
      <4>2. QED
        BY <2>1, <4>1
    <3> HIDE DEF v, a
    <3>4. QED
      BY <3>1, <3>2, <3>3
  <2>4. QED
    BY <2>2, <2>3
<1> HIDE DEF v
<1>4. ASSUME NEW n \in 1 .. d PROVE ScaleOf(r, a) = ExactScale(r, a + (n - 1))
  <2>1. ScaleOf(r, a) = ExactScale(r, a)
    <3> HIDE DEF a
    <3>1. QED
      BY <1>1, ScaleExact
  <2>2. n - 1 \in 0 .. Width - 1 /\ Width * w + (n - 1) < K
    <3>1. a + (n - 1) < K /\ n - 1 \in 0 .. Width - 1
      <4> HIDE DEF a, d
      <4>1. QED
        BY <1>1
    <3>2. QED
      BY <3>1
  <2>3. ExactScale(r, Width * w + (n - 1)) = ExactScale(r, Width * w)
    BY <1>1, <2>2, SameScale
  <2>4. QED
    BY <2>1, <2>3
<1> HIDE DEF a, d
<1>5. WordTerms(r, w) = [n \in 1 .. d |-> Exact(r, a + (n - 1))]
  <2>1. ASSUME NEW n \in 1 .. d PROVE <<a + n - 1, ScaleOf(r, a), v[n - 1]>> = Exact(r, a + (n - 1))
    <3>1. a + n - 1 = a + (n - 1)
      BY <1>1
    <3>2. QED
      BY <1>3, <1>4, <3>1 DEF Exact
  <2>2. QED
    BY <1>2, <2>1
<1>6. Lists([n \in 1 .. d |-> Exact(r, a + (n - 1))], Products(r, Span(a, d)))
  <2>1. d \in Nat /\ K \in Nat
    BY <1>1
  <2>2. QED
    BY <1>1, <2>1, SpanListed
<1>7. QED
  BY <1>5, <1>6 DEF a, d

(* And those of the tail, the products of what the words leave.              *)
LEMMA TermsOfTail ==
  ASSUME Inputs, ~ TooFewScales, kernel = "w8a16", packed = Layout, NEW r \in Rows
  PROVE  Lists(TailTerms(r), Products(r, TailOf(0)))
<1> DEFINE a == 4 * (K \div 4)
           d == K - a
<1>1. K \in Nat \ {0} /\ r \in Nat /\ a \in 0 .. K /\ a \in Nat /\ d \in 0 .. 3 /\ a + d = K
  BY DEF Inputs, Rows
<1>2. TailTerms(r) = [n \in 1 .. d |-> <<a + n - 1, ScaleOf(r, a + n - 1), packed[r * K + a + n - 1]>>]
  BY DEF TailTerms
<1>3. Span(a, d) = TailOf(0)
  BY <1>1 DEF Span, TailOf
<1> HIDE DEF a, d
<1>4. ASSUME NEW n \in 1 .. d
      PROVE  <<a + n - 1, ScaleOf(r, a + n - 1), packed[r * K + a + n - 1]>> = Exact(r, a + (n - 1))
  <2> DEFINE k == a + (n - 1)
  <2>1. k \in 0 .. K - 1 /\ a + n - 1 = k
    BY <1>1
  <2>2. r * K + a + n - 1 = r * K + k
    <3> DEFINE p == r * K
    <3>1. p \in Int
      BY <1>1
    <3> HIDE DEF p
    <3>2. p + a + n - 1 = p + k
      BY <1>1, <3>1
    <3>3. QED
      BY <3>2 DEF p
  <2> HIDE DEF k
  <2>3. ScaleOf(r, k) = ExactScale(r, k)
    BY <2>1, ScaleExact
  <2>4. packed[r * K + k] = codes[r][k]
    <3>1. kernel \notin Int4Kernels
      BY DEF Int4Kernels
    <3>2. QED
      BY <2>1, <3>1, FlatElement
  <2>5. QED
    BY <2>1, <2>2, <2>3, <2>4 DEF Exact, k
<1>5. TailTerms(r) = [n \in 1 .. d |-> Exact(r, a + (n - 1))]
  BY <1>2, <1>4
<1>6. Lists([n \in 1 .. d |-> Exact(r, a + (n - 1))], Products(r, Span(a, d)))
  <2>1. d \in Nat /\ K \in Nat /\ a + d <= K
    BY <1>1
  <2>2. QED
    BY <1>1, <2>1, SpanListed
<1>7. QED
  BY <1>3, <1>5, <1>6

(* What the thread of a column adds is the product of the row.               *)
LEMMA TermOfColumn ==
  ASSUME Inputs, kernel = "sparse", packed = Layout, NEW r \in Rows, NEW c \in 0 .. K - 1
  PROVE  ColumnTerm(r, c) = ColumnProduct(r, c)
<1> DEFINE w == c \div 8
           v == c % 8
<1>1. /\ kernel \in Int4Kernels /\ K \in Nat \ {0} /\ c \in Nat
      /\ w \in 0 .. words_per_row - 1 /\ w \in Nat /\ v \in 0 .. 7 /\ 8 * w + v = c
  <2>1. K \in Nat \ {0} /\ 8 \in Nat \ {0} /\ kernel \in Int4Kernels
    BY DEF Inputs, Int4Kernels
  <2>2. c \div 8 \in 0 .. CeilDiv(K, 8) - 1
    BY <2>1, CeilHolds
  <2>3. QED
    BY <2>1, <2>2 DEF words_per_row
<1> HIDE DEF w, v
<1>2. dequant_int4x8_awq(row_words(r, w))[v] = Code(r, c)
  <2>1. dequant_int4x8_awq(row_words(r, w))[v] = Code(r, 8 * w + v)
    BY <1>1, WordCodes
  <2>2. QED
    BY <1>1, <2>1
<1>3. Code(r, c) = codes[r][c] /\ ScaleOf(r, c) = ExactScale(r, c)
  <2>1. ~ TooFewScales
    <3>1. num_groups = CeilDiv(K, group_size) /\ num_groups \in Nat
      BY <1>1 DEF Inputs, Accepted, ScaleShape
    <3>2. QED
      BY <3>1 DEF TooFewScales
  <2>2. QED
    BY <1>1, <2>1, ScaleExact DEF Code
<1>4. QED
  BY <1>2, <1>3 DEF ColumnTerm, ColumnProduct, w, v

-----------------------------------------------------------------------------
(* What one more turn adds to what a lane has read: the positions of its     *)
(* word, if there is one, all of them new.                                   *)
LEMMA ChunkBounds ==
  ASSUME Inputs, NEW c \in Chunks
  PROVE  Begin(c) \in Nat /\ End(c) \in Nat /\ End(c) <= WordsOfRow
<1>1. WordsOfRow \in Nat /\ K \in Nat \ {0}
  BY Counts
<1>2. CASE kernel = "fp16_v4"
  <2>1. c \in 0 .. split - 1 /\ split \in Nat \ {0}
    BY <1>2, QuantAssumption DEF Chunks
  <2>2. ChunkSize \in Nat \ {0}
    BY <1>1, <2>1, CeilIsPositive DEF ChunkSize
  <2>3. c * ChunkSize \in Nat /\ (c + 1) * ChunkSize \in Nat
    BY <2>1, <2>2
  <2>4. WordsOfRow = K
    <3>1. Width = 1 /\ kernel \notin Int4Kernels
      BY <1>2 DEF Width, Int4Kernels
    <3>2. QED
      BY <1>1, <3>1 DEF WordsOfRow
  <2>5. Begin(c) = c * ChunkSize /\ End(c) = IF (c + 1) * ChunkSize < K THEN (c + 1) * ChunkSize ELSE WordsOfRow
    BY <1>2 DEF Begin, End
  <2>6. QED
    BY <1>1, <2>3, <2>4, <2>5
<1>3. CASE kernel # "fp16_v4"
  BY <1>1, <1>3 DEF Begin, End
<1>4. QED
  BY <1>2, <1>3

LEMMA WordOf ==
  ASSUME NEW u \in {1, 4, 8}, NEW v \in Nat, NEW p \in Nat
  PROVE  p \div u = v <=> u * v <= p /\ p < u * v + u
<1>1. \A f \in Nat : f \div 1 = v <=> 1 * v <= f /\ f < 1 * v + 1
  OBVIOUS
<1>2. \A f \in Nat : f \div 4 = v <=> 4 * v <= f /\ f < 4 * v + 4
  OBVIOUS
<1>3. \A f \in Nat : f \div 8 = v <=> 8 * v <= f /\ f < 8 * v + 8
  OBVIOUS
<1>4. QED
  BY <1>1, <1>2, <1>3

LEMMA OneMoreTurn ==
  ASSUME Inputs, kernel # "sparse", NEW c \in Chunks, NEW z \in Lanes, NEW n \in Nat, NEW w,
         w = Begin(c) + z + Cardinality(Lanes) * n
  PROVE  /\ w \in Nat
         /\ ~ (w < End(c)) => Covered(c, z, n + 1) = Covered(c, z, n)
         /\ w < End(c) =>
              /\ w \in 0 .. WordsOfRow - 1
              /\ Covered(c, z, n + 1) = Covered(c, z, n) \cup Span(Width * w, Remaining(w))
              /\ Covered(c, z, n) \cap Span(Width * w, Remaining(w)) = {}
<1> DEFINE L == Cardinality(Lanes)
           B == Begin(c)
           Mine == {k \in 0 .. K - 1 : k \div Width = w}
<1>1. /\ L \in Nat \ {0} /\ z \in 0 .. L - 1 /\ B \in Nat /\ End(c) \in Nat /\ End(c) <= WordsOfRow
      /\ Width \in {1, 4, 8} /\ WordsOfRow \in Nat /\ K \in Nat \ {0}
  BY Counts, ChunkBounds
<1> HIDE DEF L, B
<1>2. w = B + z + L * n /\ L * n \in Nat /\ w \in Nat
  <2>1. w = B + z + L * n
    BY DEF L, B
  <2>2. L * n \in Nat
    BY <1>1
  <2>3. QED
    BY <1>1, <2>1, <2>2
<1>3. Turns(c, z, n + 1) = Turns(c, z, n) \cup {w} /\ w \notin Turns(c, z, n)
  <2>1. Turns(c, z, n) = {B + z + L * f : f \in 0 .. n - 1} /\ Turns(c, z, n + 1) = {B + z + L * f : f \in 0 .. (n + 1) - 1}
    BY DEF Turns, B, L
  <2>2. 0 .. (n + 1) - 1 = (0 .. n - 1) \cup {n}
    OBVIOUS
  <2>3. ASSUME NEW f \in 0 .. n - 1 PROVE B + z + L * f # w
    <3>1. n = f + (n - f) /\ n - f \in Nat \ {0} /\ f \in Nat
      OBVIOUS
    <3>2. L * n = L * f + L * (n - f) /\ L * (n - f) > 0 /\ L * f \in Int /\ L * (n - f) \in Int
      BY <1>1, <3>1
    <3>3. QED
      BY <1>1, <1>2, <3>2
  <2>4. QED
    BY <1>2, <2>1, <2>2, <2>3
<1>4. ~ (w < End(c)) => Covered(c, z, n + 1) = Covered(c, z, n)
  BY <1>3 DEF Covered
<1>5. ASSUME w < End(c)
      PROVE  /\ w \in 0 .. WordsOfRow - 1
             /\ Covered(c, z, n + 1) = Covered(c, z, n) \cup Mine
             /\ Covered(c, z, n) \cap Mine = {}
             /\ Mine = Span(Width * w, Remaining(w))
  <2>1. w \in 0 .. WordsOfRow - 1
    BY <1>1, <1>2, <1>5
  <2>2. Covered(c, z, n + 1) = Covered(c, z, n) \cup Mine /\ Covered(c, z, n) \cap Mine = {}
    BY <1>3, <1>5 DEF Covered
  <2>3. Mine = Span(Width * w, Remaining(w))
    <3> SUFFICES ASSUME NEW k \in 0 .. K - 1
                 PROVE  k \div Width = w <=> Width * w <= k /\ k < Width * w + Remaining(w)
      BY DEF Span
    <3>1. k \div Width = w <=> Width * w <= k /\ k < Width * w + Width
      <4>1. k \in Nat
        OBVIOUS
      <4> DEFINE In(u, v, p) == p \div u = v <=> u * v <= p /\ p < u * v + u
      <4>2. \A u \in {1, 4, 8}, v \in Nat, p \in Nat : In(u, v, p)
        BY WordOf
      <4> HIDE DEF In
      <4>3. In(Width, w, k)
        BY <1>1, <1>2, <4>1, <4>2
      <4>4. QED
        BY <4>3 DEF In
    <3>2. Width * w \in Int
      BY <1>1, <1>2
    <3> DEFINE a == Width * w
    <3>3. Remaining(w) = IF K - a < Width THEN K - a ELSE Width
      BY DEF Remaining
    <3> HIDE DEF a
    <3>4. k < a + Width <=> k < a + Remaining(w)
      BY <1>1, <3>2, <3>3 DEF a
    <3>5. QED
      BY <3>1, <3>4 DEF a
  <2>4. QED
    BY <2>1, <2>2, <2>3
<1>6. QED
  BY <1>2, <1>4, <1>5

-----------------------------------------------------------------------------
(* The inputs do not change, nor does what is made of them.                  *)
LEMMA SameInputs ==
  ASSUME UNCHANGED gemvInputs
  PROVE  /\ N' = N /\ K' = K /\ kernel' = kernel /\ codes' = codes /\ Rows' = Rows
         /\ Inputs' = Inputs /\ Width' = Width /\ WordsOfRow' = WordsOfRow /\ words_per_row' = words_per_row
         /\ Lanes' = Lanes /\ Chunks' = Chunks /\ Layout' = Layout /\ TooFewScales' = TooFewScales
         /\ \A c : Begin(c)' = Begin(c) /\ End(c)' = End(c)
         /\ \A r, k : Exact(r, k)' = Exact(r, k)
<1>1. /\ N' = N /\ K' = K /\ kernel' = kernel /\ scale_rows' = scale_rows /\ num_groups' = num_groups
      /\ group_size' = group_size /\ codes' = codes
  BY DEF gemvInputs
<1>2. Rows' = Rows /\ Width' = Width /\ words_per_row' = words_per_row /\ Lanes' = Lanes /\ Chunks' = Chunks
      /\ ChunkSize' = ChunkSize /\ TooFewScales' = TooFewScales
  BY <1>1 DEF Rows, Width, words_per_row, Lanes, Chunks, ChunkSize, TooFewScales, CeilDiv
<1>3. WordsOfRow' = WordsOfRow /\ Accepted' = Accepted
  BY <1>1, <1>2 DEF WordsOfRow, Accepted, ScaleShape, CeilDiv
<1>4. Inputs' = Inputs
  BY <1>1, <1>2, <1>3 DEF Inputs
<1>5. Layout' = Layout
  BY <1>1, <1>2 DEF Layout, pack_int4, CeilDiv
<1>6. \A c : Begin(c)' = Begin(c) /\ End(c)' = End(c)
  BY <1>1, <1>2, <1>3 DEF Begin, End
<1>7. \A r, k : Exact(r, k)' = Exact(r, k)
  BY <1>1 DEF Exact, ExactScale
<1>8. QED
  BY <1>1, <1>2, <1>3, <1>4, <1>5, <1>6, <1>7

(* The lists of the lanes after a step, in terms of what they hold then.     *)
LEMMA ListsAfter ==
  ASSUME UNCHANGED gemvInputs, DOMAIN accs' = Rows \X Chunks \X Lanes,
         \A r \in Rows, c \in Chunks, z \in Lanes :
           Lists(accs'[<<r, c, z>>],
                 Products(r, Covered(c, z, i') \cup IF stage' = "done" THEN TailOf(z) ELSE {}))
  PROVE  LanesListed'
<1>1. /\ Rows' = Rows /\ Chunks' = Chunks /\ Lanes' = Lanes /\ K' = K /\ Width' = Width /\ kernel' = kernel
      /\ \A c : Begin(c)' = Begin(c) /\ End(c)' = End(c)
      /\ \A r, k : Exact(r, k)' = Exact(r, k)
  BY SameInputs
<1>2. ASSUME NEW r \in Rows, NEW c \in Chunks, NEW z \in Lanes
      PROVE  Held(r, c, z)' = Products(r, Covered(c, z, i') \cup IF stage' = "done" THEN TailOf(z) ELSE {})
  BY <1>1 DEF Held, Products, Covered, Turns, TailOf
<1>3. ASSUME NEW r \in Rows, NEW c \in Chunks, NEW z \in Lanes
      PROVE  Listed(r, c, z)'
  <2>1. Lists(accs'[<<r, c, z>>], Held(r, c, z)')
    BY <1>2
  <2>2. QED
    BY <2>1 DEF Listed, Lists
<1>4. QED
  BY <1>1, <1>3 DEF LanesListed

LEMMA SameColumns ==
  ASSUME UNCHANGED gemvInputs
  PROVE  \A r, c : ColumnProduct(r, c)' = ColumnProduct(r, c)
<1>1. kernel' = kernel /\ scale_rows' = scale_rows /\ group_size' = group_size /\ codes' = codes
  BY DEF gemvInputs
<1>2. QED
  BY <1>1 DEF ColumnProduct, ExactScale

-----------------------------------------------------------------------------
(* The invariant: initially, and over each step.                             *)
LEMMA GemvInitHolds == GemvInit => QInv
<1> SUFFICES ASSUME GemvInit PROVE QInv
  OBVIOUS
<1>1. /\ N \in Nat \ {0} /\ K \in Nat \ {0} /\ kernel \in Kernels
      /\ group_size \in Nat \ {0} /\ num_groups \in Nat \ {0} /\ Accepted
      /\ stage = "quantized" /\ i = 0
  BY QuantAssumption DEF GemvInit
<1>2. codes \in [Rows -> [0 .. K - 1 -> CodeValues]]
  <2>1. PICK a \in 0 .. 15, d \in 0 .. 7 :
          codes = [r \in Rows |-> [k \in 0 .. K - 1 |-> ((a + d * k + 5 * r) % 16) - 8]]
    BY DEF GemvInit
  <2>2. ASSUME NEW r \in Rows, NEW k \in 0 .. K - 1
        PROVE  ((a + d * k + 5 * r) % 16) - 8 \in CodeValues
    <3> DEFINE s == a + d * k + 5 * r
    <3>1. s \in Int
      <4>1. d * k \in Int /\ a \in Int /\ r \in Int
        BY <1>1 DEF Rows
      <4>2. QED
        BY <4>1
    <3> HIDE DEF s
    <3>2. (s % 16) - 8 \in CodeValues
      BY <3>1 DEF CodeValues
    <3>3. QED
      BY <3>2 DEF s
  <2>3. QED
    BY <2>1, <2>2
<1>3. QED
  BY <1>1, <1>2 DEF QInv, Inputs, LoadsAligned, LanesListed, ColumnsListed, Ended

LEMMA PackKeeps == QInv /\ Pack => QInv'
<1> SUFFICES ASSUME QInv, Pack PROVE QInv'
  OBVIOUS
<1>1. /\ stage = "quantized" /\ stage' = "running" /\ i = 0 /\ i' = 0 /\ UNCHANGED gemvInputs /\ Inputs
      /\ packed' = Layout
      /\ accs' = IF kernel = "sparse" THEN [c \in 0 .. K - 1 |-> <<>>]
                                     ELSE [p \in Rows \X Chunks \X Lanes |-> <<>>]
  BY DEF QInv, Pack, Layout
<1>2. Inputs' /\ packed' = Layout' /\ kernel' = kernel /\ N' = N /\ K' = K /\ N \in Nat
  <2>1. Inputs' = Inputs /\ Layout' = Layout /\ kernel' = kernel /\ N' = N /\ K' = K
    BY <1>1, SameInputs
  <2>2. QED
    BY <1>1, <2>1, Counts
<1>3. CASE kernel = "sparse"
  <2>1. ASSUME NEW c PROVE Column(c)' = <<>>
    BY <1>1 DEF Column
  <2>2. ColumnsListed'
    BY <1>1, <1>2, <1>3, <2>1 DEF ColumnsListed
  <2>3. LanesListed' /\ LoadsAligned' /\ Ended'
    BY <1>1, <1>2, <1>3 DEF LanesListed, LoadsAligned, Ended
  <2>4. QED
    BY <1>1, <1>2, <2>2, <2>3 DEF QInv
<1>4. CASE kernel # "sparse"
  <2>1. ASSUME NEW r \in Rows, NEW c \in Chunks, NEW z \in Lanes
        PROVE  Lists(accs'[<<r, c, z>>],
                     Products(r, Covered(c, z, i') \cup IF stage' = "done" THEN TailOf(z) ELSE {}))
    <3>1. accs'[<<r, c, z>>] = <<>>
      BY <1>1, <1>4
    <3>2. Products(r, Covered(c, z, i') \cup IF stage' = "done" THEN TailOf(z) ELSE {}) = {}
      <4>1. Covered(c, z, 0) = {}
        BY DEF Covered, Turns
      <4>2. Products(r, {} \cup {}) = {}
        BY DEF Products
      <4>3. QED
        BY <1>1, <4>1, <4>2
    <3>3. Lists(<<>>, {})
      BY DEF Lists
    <3>4. QED
      BY <3>1, <3>2, <3>3
  <2>2. DOMAIN accs' = Rows \X Chunks \X Lanes
    BY <1>1, <1>4
  <2>3. LanesListed'
    BY <1>1, <2>1, <2>2, ListsAfter
  <2>4. ColumnsListed' /\ LoadsAligned' /\ Ended'
    BY <1>1, <1>2, <1>4 DEF ColumnsListed, LoadsAligned, Ended
  <2>5. QED
    BY <1>1, <1>2, <2>3, <2>4 DEF QInv
<1>5. QED
  BY <1>3, <1>4

LEMMA WarpKeeps == QInv /\ WarpIteration => QInv'
<1> SUFFICES ASSUME QInv, WarpIteration PROVE QInv'
  OBVIOUS
<1>1. /\ stage = "running" /\ stage' = "running" /\ kernel # "sparse" /\ i \in Nat /\ i' = i + 1
      /\ UNCHANGED gemvInputs /\ Inputs /\ packed = Layout /\ packed' = packed
      /\ accs' = [p \in DOMAIN accs |->
                   LET w == Begin(p[2]) + p[3] + Cardinality(Lanes) * i
                   IN  IF w < End(p[2]) THEN accs[p] \o WordTerms(p[1], w) ELSE accs[p]]
      /\ ~ TooFewScales =>
           /\ DOMAIN accs = Rows \X Chunks \X Lanes
           /\ \A r \in Rows, c \in Chunks, z \in Lanes : Listed(r, c, z)
  BY DEF QInv, WarpIteration, WordsLeft, LanesListed
<1>2. Inputs' /\ packed' = Layout' /\ kernel' = kernel
  <2>1. Inputs' = Inputs /\ Layout' = Layout /\ kernel' = kernel
    BY <1>1, SameInputs
  <2>2. QED
    BY <1>1, <2>1
<1>3. ASSUME ~ TooFewScales, NEW r \in Rows, NEW c \in Chunks, NEW z \in Lanes
      PROVE  Lists(accs'[<<r, c, z>>], Products(r, Covered(c, z, i + 1)))
  <2> DEFINE w == Begin(c) + z + Cardinality(Lanes) * i
             s == accs[<<r, c, z>>]
             mine == Products(r, Covered(c, z, i))
             f == WordTerms(r, w)
             more == Products(r, Span(Width * w, Remaining(w)))
  <2>1. Lists(s, mine)
    <3>1. Listed(r, c, z) /\ Covered(c, z, i) \cup {} = Covered(c, z, i)
      BY <1>1, <1>3
    <3>2. Held(r, c, z) = mine
      BY <1>1, <3>1 DEF Held
    <3>3. QED
      BY <3>1, <3>2 DEF Listed
  <2>2. accs'[<<r, c, z>>] = IF w < End(c) THEN s \o f ELSE s
    BY <1>1, <1>3
  <2>3. /\ w \in Nat
        /\ ~ (w < End(c)) => Covered(c, z, i + 1) = Covered(c, z, i)
        /\ w < End(c) =>
             /\ w \in 0 .. WordsOfRow - 1
             /\ Covered(c, z, i + 1) = Covered(c, z, i) \cup Span(Width * w, Remaining(w))
             /\ Covered(c, z, i) \cap Span(Width * w, Remaining(w)) = {}
    <3> HIDE DEF w
    <3>1. w = Begin(c) + z + Cardinality(Lanes) * i
      BY DEF w
    <3>2. QED
      BY <1>1, <3>1, OneMoreTurn
  <2> HIDE DEF w, s
  <2>4. CASE w < End(c)
    <3>1. Lists(f, more)
      BY <1>1, <1>3, <2>3, <2>4, TermsOfWord
    <3>2. Products(r, Covered(c, z, i + 1)) = mine \cup more /\ mine \cap more = {}
      <4>1. \A j, k : Exact(r, j) = Exact(r, k) => j = k
        BY DEF Exact
      <4>2. QED
        BY <2>3, <2>4, <4>1 DEF Products
    <3> HIDE DEF mine, more, f
    <3>3. Lists(s \o f, mine \cup more)
      BY <2>1, <3>1, <3>2, ListsTogether
    <3>4. QED
      BY <2>2, <2>4, <3>2, <3>3
  <2>5. CASE ~ (w < End(c))
    BY <2>1, <2>2, <2>3, <2>5
  <2>6. QED
    BY <2>4, <2>5
<1>4. LanesListed'
  <2> SUFFICES ASSUME ~ TooFewScales PROVE LanesListed'
    BY <1>1, SameInputs DEF LanesListed
  <2>1. ASSUME NEW r \in Rows, NEW c \in Chunks, NEW z \in Lanes
        PROVE  Lists(accs'[<<r, c, z>>],
                     Products(r, Covered(c, z, i') \cup IF stage' = "done" THEN TailOf(z) ELSE {}))
    <3>1. Covered(c, z, i + 1) \cup {} = Covered(c, z, i + 1) /\ i' = i + 1 /\ stage' # "done"
      BY <1>1
    <3>2. QED
      BY <1>3, <3>1
  <2>2. DOMAIN accs' = Rows \X Chunks \X Lanes
    BY <1>1
  <2>3. QED
    BY <1>1, <2>1, <2>2, ListsAfter
<1>5. ColumnsListed' /\ LoadsAligned' /\ Ended'
  BY <1>1, <1>2 DEF ColumnsListed, LoadsAligned, Ended
<1>6. QED
  BY <1>1, <1>2, <1>4, <1>5 DEF QInv

(* Rows of whole words start at whole words.                                 *)
LEMMA MisalignedKeeps == QInv /\ MisalignedLoad => QInv'
<1> SUFFICES ASSUME QInv, MisalignedLoad PROVE QInv'
  OBVIOUS
<1>1. /\ stage = "running" /\ stage' = "fault" /\ UNCHANGED gemvInputs /\ Inputs /\ i' = i /\ i \in Nat
      /\ packed = Layout /\ packed' = packed /\ kernel \notin Int4Kernels
  BY DEF QInv, MisalignedLoad, WordsLeft, Misaligned
<1>2. PICK r \in Rows : (r * K) % Width # 0
  BY DEF MisalignedLoad, Misaligned
<1>3. /\ Inputs' /\ packed' = Layout' /\ kernel' = kernel /\ N' = N /\ K' = K
      /\ N \in Nat \ {0} /\ K \in Nat \ {0} /\ r \in 0 .. N - 1 /\ Width \in {1, 4, 8}
  <2>1. Inputs' = Inputs /\ Layout' = Layout /\ kernel' = kernel /\ N' = N /\ K' = K
    BY <1>1, SameInputs
  <2>2. QED
    BY <1>1, <2>1, Counts DEF Rows
<1>4. ~ (K % Width = 0)
  <2> SUFFICES ASSUME K % Width = 0 PROVE FALSE
    OBVIOUS
  <2>1. \A u \in {1, 4, 8}, k, n \in Nat : k % u = 0 => (n * k) % u = 0
    <3>1. ASSUME NEW u \in {1, 4, 8}, NEW k \in Nat, NEW n \in Nat, k % u = 0 PROVE (n * k) % u = 0
      <4>1. k \div u \in Nat /\ k = (k \div u) * u
        BY <3>1
      <4> DEFINE q == k \div u
      <4> HIDE DEF q
      <4>2. n * k = (n * q) * u + 0 /\ n * q \in Nat /\ u \in Nat \ {0} /\ 0 \in 0 .. u - 1
        BY <4>1 DEF q
      <4>3. ((n * q) * u + 0) % u = 0
        BY <4>2, RowOf
      <4>4. QED
        BY <4>2, <4>3
    <3>2. QED
      BY <3>1
  <2> DEFINE Whole(u, k) == k % u = 0
  <2>2. \A u \in {1, 4, 8}, k, n \in Nat : Whole(u, k) => Whole(u, n * k)
    BY <2>1
  <2>3. Whole(Width, K) /\ ~ Whole(Width, r * K)
    BY <1>2
  <2> HIDE DEF Whole
  <2>4. r \in Nat
    BY <1>3
  <2>5. QED
    BY <1>3, <2>2, <2>3, <2>4
<1>5. kernel = "w8a16" /\ K % 4 # 0 /\ N > 1
  <2>1. Width # 1
    BY <1>3, <1>4
  <2>2. kernel = "w8a16" \/ kernel = "fp16_v3"
    BY <1>1, <2>1 DEF Inputs, Kernels, Int4Kernels, Fp16Kernels, Width
  <2>3. kernel # "fp16_v3"
    BY <1>1, <1>4 DEF Inputs, Accepted, Width
  <2>4. Width = 4
    BY <2>2, <2>3 DEF Width
  <2>5. r # 0
    <3>1. \A u \in {1, 4, 8} : (0 * K) % u = 0
      BY <1>3
    <3>2. QED
      BY <1>2, <1>3, <3>1
  <2>6. QED
    BY <1>3, <1>4, <2>2, <2>3, <2>4, <2>5
<1>6. LoadsAligned' /\ LanesListed' /\ ColumnsListed' /\ Ended'
  BY <1>1, <1>3, <1>5 DEF LoadsAligned, LanesListed, ColumnsListed, Ended
<1>7. QED
  BY <1>1, <1>3, <1>6 DEF QInv

LEMMA ColumnKeeps == QInv /\ ColumnIteration => QInv'
<1> SUFFICES ASSUME QInv, ColumnIteration PROVE QInv'
  OBVIOUS
<1>1. /\ stage = "running" /\ stage' = "running" /\ kernel = "sparse" /\ i \in Nat /\ i < N /\ i' = i + 1
      /\ UNCHANGED gemvInputs /\ Inputs /\ packed = Layout /\ packed' = packed
      /\ accs = [c \in 0 .. K - 1 |-> Column(c)]
      /\ accs' = [c \in DOMAIN accs |-> Append(accs[c], ColumnTerm(i, c))]
  BY DEF QInv, ColumnIteration, ColumnsListed
<1>2. Inputs' /\ packed' = Layout' /\ kernel' = kernel /\ N' = N /\ K' = K /\ N \in Nat /\ i \in Rows
  <2>1. Inputs' = Inputs /\ Layout' = Layout /\ kernel' = kernel /\ N' = N /\ K' = K
    BY <1>1, SameInputs
  <2>2. QED
    BY <1>1, <2>1, Counts DEF Rows
<1>3. ASSUME NEW c \in 0 .. K - 1 PROVE accs'[c] = Column(c)'
  <2> DEFINE P(n) == ColumnProduct(n - 1, c)
             s == [n \in 1 .. i |-> P(n)]
  <2>1. accs'[c] = Append(s, P(i + 1))
    <3>1. accs'[c] = Append(accs[c], ColumnTerm(i, c)) /\ accs[c] = Column(c)
      BY <1>1
    <3>2. ColumnTerm(i, c) = ColumnProduct(i, c) /\ (i + 1) - 1 = i
      BY <1>1, <1>2, TermOfColumn
    <3>3. QED
      BY <3>1, <3>2 DEF Column
  <2>2. Column(c)' = [n \in 1 .. i + 1 |-> P(n)]
    <3>1. \A n : ColumnProduct(n - 1, c)' = ColumnProduct(n - 1, c)
      BY <1>1, SameColumns
    <3>2. QED
      BY <1>1, <3>1 DEF Column
  <2> HIDE DEF P
  <2>3. Append(s, P(i + 1)) = [n \in 1 .. i + 1 |-> P(n)]
    BY <1>1
  <2>4. QED
    BY <2>1, <2>2, <2>3
<1>4. ColumnsListed'
  <2>1. accs' = [c \in 0 .. K' - 1 |-> Column(c)']
    BY <1>1, <1>2, <1>3
  <2>2. i' <= N'
    BY <1>1, <1>2
  <2>3. QED
    BY <2>1, <2>2 DEF ColumnsListed
<1>5. LanesListed' /\ LoadsAligned' /\ Ended'
  BY <1>1, <1>2 DEF LanesListed, LoadsAligned, Ended
<1>6. QED
  BY <1>1, <1>2, <1>4, <1>5 DEF QInv

(* The tail is nobody else's.                                                *)
LEMMA TailIsNew ==
  ASSUME Inputs, kernel = "w8a16", NEW c \in Chunks, NEW z, NEW d, NEW n
  PROVE  Covered(c, z, n) \cap TailOf(d) = {}
<1>1. K \in Nat \ {0} /\ End(c) <= WordsOfRow /\ End(c) \in Nat
  BY Counts, ChunkBounds
<1>2. Width = 4 /\ WordsOfRow = K \div 4
  BY DEF Width, WordsOfRow, Int4Kernels
<1>3. ASSUME NEW k \in 0 .. K - 1, k \div Width < End(c), k >= 4 * (K \div 4) PROVE FALSE
  <2>1. k \div 4 < K \div 4
    BY <1>1, <1>2, <1>3
  <2>2. QED
    BY <1>1, <1>3, <2>1
<1>4. QED
  BY <1>3 DEF Covered, TailOf

LEMMA WriteKeeps == QInv /\ Write => QInv'
<1> SUFFICES ASSUME QInv, Write PROVE QInv'
  OBVIOUS
<1>1. /\ stage = "running" /\ stage' = "done" /\ i \in Nat /\ i' = i
      /\ UNCHANGED gemvInputs /\ Inputs /\ packed = Layout /\ packed' = packed
      /\ accs' = IF kernel = "w8a16"
                THEN [p \in DOMAIN accs |-> IF p[3] = 0 THEN accs[p] \o TailTerms(p[1]) ELSE accs[p]]
                ELSE accs
  BY DEF QInv, Write
<1>2. /\ Inputs' /\ packed' = Layout' /\ kernel' = kernel /\ N' = N /\ K' = K /\ N \in Nat
      /\ Chunks' = Chunks /\ Lanes' = Lanes /\ \A c : Begin(c)' = Begin(c) /\ End(c)' = End(c)
  <2>1. /\ Inputs' = Inputs /\ Layout' = Layout /\ kernel' = kernel /\ N' = N /\ K' = K
        /\ Chunks' = Chunks /\ Lanes' = Lanes /\ \A c : Begin(c)' = Begin(c) /\ End(c)' = End(c)
    BY <1>1, SameInputs
  <2>2. QED
    BY <1>1, <2>1, Counts
<1>3. LoadsAligned'
  BY <1>1 DEF LoadsAligned
<1>4. CASE kernel = "sparse"
  <2>1. i >= N /\ i <= N /\ accs' = accs /\ accs = [c \in 0 .. K - 1 |-> Column(c)]
    BY <1>1, <1>4 DEF QInv, Write, ColumnsListed
  <2>2. i = N
    BY <1>1, <1>2, <2>1
  <2>3. ASSUME NEW c PROVE Column(c)' = Column(c)
    <3>1. \A n : ColumnProduct(n - 1, c)' = ColumnProduct(n - 1, c)
      BY <1>1, SameColumns
    <3>2. QED
      BY <1>1, <3>1 DEF Column
  <2>4. ColumnsListed' /\ LanesListed' /\ Ended'
    BY <1>1, <1>2, <1>4, <2>1, <2>2, <2>3 DEF ColumnsListed, LanesListed, Ended
  <2>5. QED
    BY <1>1, <1>2, <1>3, <2>4 DEF QInv
<1>5. CASE kernel # "sparse"
  <2>1. /\ ~ TooFewScales =>
             /\ DOMAIN accs = Rows \X Chunks \X Lanes
             /\ \A r \in Rows, c \in Chunks, z \in Lanes : Listed(r, c, z)
        /\ ~ WordsLeft
    BY <1>1, <1>5 DEF QInv, LanesListed, Write
  <2>2. ASSUME ~ TooFewScales, NEW r \in Rows, NEW c \in Chunks, NEW z \in Lanes
        PROVE  Lists(accs'[<<r, c, z>>], Products(r, Covered(c, z, i) \cup TailOf(z)))
    <3> DEFINE s == accs[<<r, c, z>>]
               mine == Products(r, Covered(c, z, i))
               more == Products(r, TailOf(z))
               f == TailTerms(r)
    <3>1. Lists(s, mine)
      <4>1. Listed(r, c, z) /\ Covered(c, z, i) \cup {} = Covered(c, z, i)
        BY <2>1, <2>2
      <4>2. Held(r, c, z) = mine
        BY <1>1, <4>1 DEF Held
      <4>3. QED
        BY <4>1, <4>2 DEF Listed
    <3>2. accs'[<<r, c, z>>] = IF kernel = "w8a16" /\ z = 0 THEN s \o f ELSE s
      BY <1>1, <2>1, <2>2
    <3> HIDE DEF s
    <3>3. CASE kernel = "w8a16" /\ z = 0
      <4>1. Lists(f, more)
        BY <1>1, <2>2, <3>3, TermsOfTail
      <4>2. Products(r, Covered(c, z, i) \cup TailOf(z)) = mine \cup more /\ mine \cap more = {}
        <5>1. \A j, k : Exact(r, j) = Exact(r, k) => j = k
          BY DEF Exact
        <5>2. Covered(c, z, i) \cap TailOf(z) = {}
          BY <1>1, <3>3, TailIsNew
        <5>3. QED
          BY <5>1, <5>2 DEF Products
      <4> HIDE DEF mine, more, f
      <4>3. Lists(s \o f, mine \cup more)
        BY <3>1, <4>1, <4>2, ListsTogether
      <4>4. QED
        BY <3>2, <3>3, <4>2, <4>3
    <3>4. CASE ~ (kernel = "w8a16" /\ z = 0)
      <4>1. TailOf(z) = {}
        BY <3>4 DEF TailOf
      <4>2. Covered(c, z, i) \cup TailOf(z) = Covered(c, z, i)
        BY <4>1
      <4>3. QED
        BY <3>1, <3>2, <3>4, <4>2
    <3>5. QED
      BY <3>3, <3>4
  <2>3. LanesListed'
    <3> SUFFICES ASSUME ~ TooFewScales PROVE LanesListed'
      BY <1>1, SameInputs DEF LanesListed
    <3>1. ASSUME NEW r \in Rows, NEW c \in Chunks, NEW z \in Lanes
          PROVE  Lists(accs'[<<r, c, z>>],
                       Products(r, Covered(c, z, i') \cup IF stage' = "done" THEN TailOf(z) ELSE {}))
      BY <1>1, <2>2
    <3>2. DOMAIN accs' = Rows \X Chunks \X Lanes
      BY <1>1, <2>1
    <3>3. QED
      BY <1>1, <3>1, <3>2, ListsAfter
  <2>4. Ended'
    <3>1. ASSUME NEW c \in Chunks PROVE End(c) <= Begin(c) + Cardinality(Lanes) * i
      <4>1. ~ (Begin(c) + Cardinality(Lanes) * i < End(c))
        BY <1>1, <1>5, <2>1 DEF WordsLeft
      <4>2. Begin(c) \in Nat /\ End(c) \in Nat /\ Cardinality(Lanes) * i \in Nat
        BY <1>1, Counts, ChunkBounds
      <4>3. QED
        BY <4>1, <4>2
    <3>2. QED
      BY <1>1, <1>2, <1>5, <3>1 DEF Ended
  <2>5. ColumnsListed'
    BY <1>2, <1>5 DEF ColumnsListed
  <2>6. QED
    BY <1>1, <1>2, <1>3, <2>3, <2>4, <2>5 DEF QInv
<1>6. QED
  BY <1>4, <1>5

LEMMA StutterKeeps == QInv /\ UNCHANGED gemvVars => QInv'
<1> SUFFICES ASSUME QInv, UNCHANGED gemvVars PROVE QInv'
  OBVIOUS
<1>1. UNCHANGED gemvInputs /\ stage' = stage /\ packed' = packed /\ i' = i /\ accs' = accs
  BY DEF gemvVars
<1>2. /\ Inputs' = Inputs /\ Layout' = Layout /\ kernel' = kernel /\ N' = N /\ K' = K
      /\ Chunks' = Chunks /\ Lanes' = Lanes /\ TooFewScales' = TooFewScales
      /\ \A c : Begin(c)' = Begin(c) /\ End(c)' = End(c)
  BY <1>1, SameInputs
<1>3. LoadsAligned' /\ Ended'
  BY <1>1, <1>2 DEF QInv, LoadsAligned, Ended
<1>4. ColumnsListed'
  <2>1. ASSUME NEW c PROVE Column(c)' = Column(c)
    <3>1. \A n : ColumnProduct(n - 1, c)' = ColumnProduct(n - 1, c)
      BY <1>1, SameColumns
    <3>2. QED
      BY <1>1, <3>1 DEF Column
  <2>2. QED
    BY <1>1, <1>2, <2>1 DEF QInv, ColumnsListed
<1>5. LanesListed'
  <2>1. CASE stage \in {"running", "done"} /\ kernel # "sparse" /\ ~ TooFewScales
    <3>1. /\ DOMAIN accs' = Rows \X Chunks \X Lanes
          /\ \A r \in Rows, c \in Chunks, z \in Lanes : Listed(r, c, z)
      BY <1>1, <2>1 DEF QInv, LanesListed
    <3>2. \A r \in Rows, c \in Chunks, z \in Lanes :
            Lists(accs'[<<r, c, z>>],
                  Products(r, Covered(c, z, i') \cup IF stage' = "done" THEN TailOf(z) ELSE {}))
      BY <1>1, <3>1 DEF Listed, Held
    <3>3. QED
      BY <1>1, <3>1, <3>2, ListsAfter
  <2>2. CASE ~ (stage \in {"running", "done"} /\ kernel # "sparse" /\ ~ TooFewScales)
    BY <1>1, <1>2, <2>2 DEF LanesListed
  <2>3. QED
    BY <2>1, <2>2
<1>6. QED
  BY <1>1, <1>2, <1>3, <1>4, <1>5 DEF QInv

LEMMA QInvariant == GemvSpec => []QInv
<1>1. GemvInit => QInv
  BY GemvInitHolds
<1>2. QInv /\ [GemvNext]_gemvVars => QInv'
  BY PackKeeps, WarpKeeps, MisalignedKeeps, ColumnKeeps, WriteKeeps, StutterKeeps DEF GemvNext
<1>3. QED
  BY <1>1, <1>2, PTL DEF GemvSpec

-----------------------------------------------------------------------------
(* Holds the end the lanes of all chunks share the row among them.              *)
Own(c, z) == Covered(c, z, i) \cup TailOf(z)
OwnChunk(c) == UNION {Own(c, z) : z \in Lanes}

LEMMA LanesDisjoint ==
  ASSUME Inputs, i \in Nat, NEW c \in Chunks, NEW z \in Lanes, NEW d \in Lanes, z # d
  PROVE  Own(c, z) \cap Own(c, d) = {}
<1> DEFINE L == Cardinality(Lanes)
           B == Begin(c)
<1>1. L \in Nat \ {0} /\ z \in 0 .. L - 1 /\ d \in 0 .. L - 1 /\ B \in Nat
  BY Counts, ChunkBounds
<1>2. Turns(c, z, i) \cap Turns(c, d, i) = {}
  <2> SUFFICES ASSUME NEW f \in 0 .. i - 1, NEW u \in 0 .. i - 1, B + z + L * f = B + d + L * u
               PROVE  FALSE
    BY DEF Turns
  <2> HIDE DEF L, B
  <2>1. L * f = f * L /\ L * u = u * L /\ f * L \in Int /\ u * L \in Int /\ f \in Nat /\ u \in Nat
    BY <1>1
  <2>2. f * L + z = u * L + d
    BY <1>1, <2>1
  <2>3. (f * L + z) % L = z /\ (u * L + d) % L = d
    BY <1>1, <2>1, RowOf
  <2>4. QED
    BY <2>2, <2>3
<1>3. Covered(c, z, i) \cap Covered(c, d, i) = {}
  BY <1>2 DEF Covered
<1>4. TailOf(z) \cap TailOf(d) = {}
  BY DEF TailOf
<1>5. Covered(c, z, i) \cap TailOf(d) = {} /\ Covered(c, d, i) \cap TailOf(z) = {}
  <2>1. CASE kernel = "w8a16"
    BY <2>1, TailIsNew
  <2>2. CASE kernel # "w8a16"
    BY <2>2 DEF TailOf
  <2>3. QED
    BY <2>1, <2>2
<1>6. QED
  BY <1>3, <1>4, <1>5 DEF Own

(* Chunks are the words of each other's ends.                                *)
LEMMA SplitChunks ==
  ASSUME Inputs, kernel = "fp16_v4"
  PROVE  /\ ChunkSize \in Nat \ {0} /\ split \in Nat \ {0} /\ K <= split * ChunkSize
         /\ Width = 1 /\ WordsOfRow = K /\ Chunks = 0 .. split - 1
         /\ \A c \in Chunks : \A k \in 0 .. K - 1 : Begin(c) <= k /\ k < End(c) <=> k \div ChunkSize = c
<1>1. K \in Nat \ {0} /\ split \in Nat \ {0} /\ Width = 1 /\ Chunks = 0 .. split - 1 /\ WordsOfRow = K
  <2>1. K \in Nat \ {0} /\ split \in Nat \ {0} /\ Width = 1 /\ Chunks = 0 .. split - 1
    BY QuantAssumption DEF Inputs, Width, Chunks
  <2>2. QED
    BY <2>1 DEF WordsOfRow, Int4Kernels
<1> DEFINE S == ChunkSize
<1>2. S \in Nat \ {0} /\ K <= split * S
  <2>1. S \in Nat \ {0} /\ K <= S * split
    BY <1>1, CeilIsPositive, CeilCovers DEF ChunkSize
  <2> HIDE DEF S
  <2>2. QED
    BY <1>1, <2>1
<1> HIDE DEF S
<1>3. ASSUME NEW c \in Chunks, NEW k \in 0 .. K - 1
      PROVE  Begin(c) <= k /\ k < End(c) <=> k \div S = c
  <2>1. Begin(c) = c * S /\ End(c) = IF (c + 1) * S < K THEN (c + 1) * S ELSE K
    BY <1>1 DEF Begin, End, S
  <2>2. c \in Nat /\ k \in Nat /\ c * S \in Nat /\ (c + 1) * S = c * S + S
    BY <1>1, <1>2
  <2>3. ASSUME Begin(c) <= k, k < End(c) PROVE k \div S = c
    <3>1. k - c * S \in 0 .. S - 1 /\ c * S + (k - c * S) = k
      BY <1>1, <1>2, <2>1, <2>2, <2>3
    <3>2. \A j \in 0 .. S - 1 : (c * S + j) \div S = c
      BY <1>2, <2>2, RowOf
    <3>3. QED
      BY <3>1, <3>2
  <2>4. ASSUME k \div S = c PROVE Begin(c) <= k /\ k < End(c)
    <3>1. k = (k \div S) * S + (k % S) /\ k % S \in 0 .. S - 1
      BY <1>2, <2>2
    <3>2. k = c * S + (k % S)
      BY <2>4, <3>1
    <3>3. QED
      BY <1>1, <1>2, <2>1, <2>2, <3>1, <3>2
  <2>5. QED
    BY <2>3, <2>4
<1>4. QED
  BY <1>1, <1>2, <1>3 DEF S

LEMMA ChunksDisjoint ==
  ASSUME Inputs, i \in Nat, NEW c \in Chunks, NEW d \in Chunks, c # d
  PROVE  OwnChunk(c) \cap OwnChunk(d) = {}
<1>1. kernel = "fp16_v4"
  BY DEF Chunks
<1>2. ASSUME NEW e \in Chunks, NEW k \in OwnChunk(e) PROVE k \in 0 .. K - 1 /\ k \div ChunkSize = e
  <2>1. PICK z \in Lanes : k \in Own(e, z)
    BY <1>2 DEF OwnChunk
  <2>2. k \in Covered(e, z, i)
    BY <1>1, <2>1 DEF Own, TailOf
  <2>3. PICK f \in 0 .. i - 1 : k \div Width = Begin(e) + z + Cardinality(Lanes) * f
    BY <2>2 DEF Covered, Turns
  <2>4. k \in 0 .. K - 1 /\ k \div Width < End(e) /\ Width = 1 /\ k \div 1 = k
    <3>1. k \in 0 .. K - 1 /\ k \div Width < End(e)
      BY <2>2 DEF Covered
    <3>2. Width = 1 /\ K \in Nat
      BY <1>1, SplitChunks, Counts
    <3>3. QED
      BY <3>1, <3>2
  <2>5. Begin(e) <= k
    <3>1. Begin(e) \in Nat /\ z \in Nat /\ f \in Nat /\ Cardinality(Lanes) \in Nat
      BY Counts, ChunkBounds
    <3>2. Cardinality(Lanes) * f \in Nat
      BY <3>1
    <3>3. QED
      BY <2>3, <2>4, <3>1, <3>2
  <2>6. \A n \in 0 .. K - 1 : Begin(e) <= n /\ n < End(e) <=> n \div ChunkSize = e
    BY <1>1, SplitChunks
  <2>7. QED
    BY <2>4, <2>5, <2>6
<1>3. QED
  BY <1>2

(* A word of the row is in a chunk.                                          *)
LEMMA ChunkOf ==
  ASSUME Inputs, NEW w \in 0 .. WordsOfRow - 1
  PROVE  \E c \in Chunks : Begin(c) <= w /\ w < End(c)
<1>1. WordsOfRow \in Nat
  BY Counts
<1>2. CASE kernel = "fp16_v4"
  <2>1. /\ ChunkSize \in Nat \ {0} /\ split \in Nat \ {0} /\ K <= split * ChunkSize
        /\ WordsOfRow = K /\ Chunks = 0 .. split - 1 /\ K \in Nat
        /\ \A c \in Chunks : \A k \in 0 .. K - 1 : Begin(c) <= k /\ k < End(c) <=> k \div ChunkSize = c
    BY <1>2, SplitChunks, Counts
  <2>2. w \div ChunkSize \in Chunks
    <3> DEFINE S == ChunkSize
               p == split * S
    <3>1. p \in Int /\ S \in Nat \ {0}
      BY <2>1
    <3> HIDE DEF S
    <3>2. w \in Nat /\ w < p
      <4> HIDE DEF p
      <4>1. K <= p
        BY <2>1 DEF p, S
      <4>2. QED
        BY <2>1, <3>1, <4>1
    <3>3. w \div S \in 0 .. split - 1
      BY <2>1, <3>1, <3>2, PlaceInWords
    <3>4. QED
      BY <2>1, <3>3 DEF S
  <2>3. QED
    BY <2>1, <2>2
<1>3. CASE kernel # "fp16_v4"
  <2>1. 0 \in Chunks /\ Begin(0) = 0 /\ End(0) = WordsOfRow
    BY <1>3 DEF Chunks, Begin, End
  <2>2. QED
    BY <1>1, <2>1
<1>4. QED
  BY <1>2, <1>3

(* Every position is somebody's, once the loops have run through.            *)
LEMMA AllOwned ==
  ASSUME Inputs, kernel # "sparse", i \in Nat,
         \A c \in Chunks : End(c) <= Begin(c) + Cardinality(Lanes) * i
  PROVE  UNION {OwnChunk(c) : c \in Chunks} = 0 .. K - 1
<1> DEFINE L == Cardinality(Lanes)
<1>1. /\ K \in Nat \ {0} /\ L \in Nat \ {0} /\ Lanes = 0 .. L - 1
      /\ Width \in {1, 4, 8} /\ WordsOfRow \in Nat
  BY Counts
<1>2. ASSUME NEW k \in 0 .. K - 1, k \div Width < WordsOfRow
      PROVE  \E c \in Chunks, z \in Lanes : k \in Covered(c, z, i)
  <2> DEFINE w == k \div Width
  <2>1. w \in 0 .. WordsOfRow - 1
    <3>1. w \in Nat
      BY <1>1
    <3>2. QED
      BY <1>1, <1>2, <3>1
  <2> HIDE DEF w
  <2>2. PICK c \in Chunks : Begin(c) <= w /\ w < End(c)
    BY <2>1, ChunkOf
  <2> DEFINE d == w - Begin(c)
             z == d % L
             f == d \div L
  <2>3. Begin(c) \in Nat /\ End(c) \in Nat /\ w \in Nat /\ End(c) <= Begin(c) + L * i
    BY <2>1, ChunkBounds
  <2>4. d \in Nat /\ w = Begin(c) + d
    BY <2>2, <2>3
  <2> HIDE DEF L, d
  <2>5. z \in 0 .. L - 1 /\ d = z + L * f /\ f \in Nat
    BY <1>1, <2>4
  <2>6. f \in 0 .. i - 1
    <3>1. L * i = i * L /\ i * L \in Int
      BY <1>1
    <3>2. d < i * L
      BY <2>2, <2>3, <2>4, <3>1
    <3>3. QED
      BY <1>1, <2>4, <3>2, PlaceInWords
  <2> HIDE DEF z, f
  <2>7. w = Begin(c) + z + L * f
    <3>1. L * f \in Int
      BY <1>1, <2>5
    <3>2. QED
      BY <2>3, <2>4, <2>5, <3>1
  <2>8. w \in Turns(c, z, i)
    BY <2>6, <2>7 DEF Turns, L
  <2>9. k \in Covered(c, z, i)
    BY <2>2, <2>8 DEF Covered, w
  <2>10. QED
    BY <1>1, <2>5, <2>9
<1>3. ASSUME NEW k \in 0 .. K - 1, ~ (k \div Width < WordsOfRow)
      PROVE  k \in TailOf(0) /\ 0 \in Lanes /\ 0 \in Chunks
  <2>1. kernel = "w8a16"
    <3>1. kernel \notin Int4Kernels
      <4>1. SUFFICES ASSUME kernel \in Int4Kernels PROVE FALSE
        OBVIOUS
      <4>2. Width = 8 /\ WordsOfRow = CeilDiv(K, 8) /\ 8 \in Nat \ {0}
        BY <4>1 DEF Int4Kernels, Width, WordsOfRow, words_per_row
      <4>3. k \div 8 \in 0 .. CeilDiv(K, 8) - 1
        BY <1>1, <4>2, CeilHolds
      <4>4. QED
        BY <1>1, <1>3, <4>2, <4>3
    <3>2. WordsOfRow = K \div Width
      BY <3>1 DEF WordsOfRow
    <3>3. Width # 1
      BY <1>1, <1>3, <3>2
    <3>4. CASE kernel = "fp16_v3"
      <4>1. Width = 8 /\ K % 8 = 0
        BY <3>4 DEF Inputs, Accepted, Width
      <4>2. k \div 8 < K \div 8
        BY <1>1, <4>1
      <4>3. QED
        BY <1>3, <3>2, <4>1, <4>2
    <3>5. QED
      BY <3>1, <3>3, <3>4 DEF Inputs, Kernels, Int4Kernels, Fp16Kernels, Width
  <2>2. Width = 4 /\ WordsOfRow = K \div 4
    BY <2>1 DEF Width, WordsOfRow, Int4Kernels
  <2>3. k >= 4 * (K \div 4)
    BY <1>1, <1>3, <2>2
  <2> HIDE DEF L
  <2>4. 0 \in Lanes
    BY <1>1
  <2>5. 0 \in Chunks
    BY <2>1 DEF Chunks
  <2>6. QED
    BY <2>1, <2>3, <2>4, <2>5 DEF TailOf
<1>4. \A k \in 0 .. K - 1 : k \in UNION {OwnChunk(c) : c \in Chunks}
  BY <1>2, <1>3 DEF OwnChunk, Own
<1>5. \A c \in Chunks : OwnChunk(c) \subseteq 0 .. K - 1
  BY DEF OwnChunk, Own, Covered, TailOf
<1>6. QED
  BY <1>4, <1>5

(* What a warp's lanes add up to, and what the warps of a row do.            *)
LaneTerms(r, c) == [n \in 1 .. Cardinality(Lanes) |-> accs[<<r, c, n - 1>>]]
NumChunks == IF kernel = "fp16_v4" THEN split ELSE 1

LEMMA WarpListed ==
  ASSUME Inputs, i \in Nat, NEW r \in Rows, NEW c \in Chunks,
         \A z \in Lanes : Lists(accs[<<r, c, z>>], Products(r, Own(c, z)))
  PROVE  Lists(FlattenSeq(LaneTerms(r, c)), Products(r, OwnChunk(c)))
<1> DEFINE L == Cardinality(Lanes)
           seqs == LaneTerms(r, c)
           M == [n \in 1 .. L |-> Products(r, Own(c, n - 1))]
<1>1. L \in Nat \ {0} /\ Lanes = 0 .. L - 1
  BY Counts
<1>2. Len(seqs) = L
  <2>1. seqs = [n \in 1 .. L |-> accs[<<r, c, n - 1>>]]
    BY DEF LaneTerms
  <2> HIDE DEF seqs, L
  <2>2. QED
    BY <1>1, <2>1
<1>3. \A n \in 1 .. L : n - 1 \in Lanes
  <2> HIDE DEF L
  <2>1. QED
    BY <1>1
<1>4. ASSUME NEW n \in 1 .. L PROVE Lists(seqs[n], M[n])
  <2>1. seqs[n] = accs[<<r, c, n - 1>>] /\ M[n] = Products(r, Own(c, n - 1))
    BY DEF LaneTerms
  <2>2. QED
    BY <1>3, <2>1
<1>5. ASSUME NEW n \in 1 .. L, NEW d \in 1 .. L, n # d PROVE M[n] \cap M[d] = {}
  <2>1. n - 1 # d - 1 /\ n - 1 \in Lanes /\ d - 1 \in Lanes
    <3> HIDE DEF L
    <3>1. QED
      BY <1>1, <1>3, <1>5
  <2>2. Own(c, n - 1) \cap Own(c, d - 1) = {}
    BY <2>1, LanesDisjoint
  <2>3. \A j, k : Exact(r, j) = Exact(r, k) => j = k
    BY DEF Exact
  <2>4. QED
    BY <2>2, <2>3 DEF Products
<1>6. UNION {M[n] : n \in 1 .. L} = Products(r, OwnChunk(c))
  <2>1. \A z \in Lanes : z + 1 \in 1 .. L /\ (z + 1) - 1 = z
    <3> HIDE DEF L
    <3>1. QED
      BY <1>1
  <2>2. \A z \in Lanes : Products(r, Own(c, z)) = M[z + 1]
    BY <2>1
  <2>3. \A n \in 1 .. L : M[n] = Products(r, Own(c, n - 1))
    OBVIOUS
  <2> HIDE DEF M, L
  <2>4. UNION {M[n] : n \in 1 .. L} = UNION {Products(r, Own(c, z)) : z \in Lanes}
    BY <1>3, <2>1, <2>2, <2>3
  <2>5. UNION {Products(r, Own(c, z)) : z \in Lanes} = Products(r, OwnChunk(c))
    BY DEF Products, OwnChunk
  <2>6. QED
    BY <2>4, <2>5
<1> HIDE DEF M, seqs, L
<1>7. Lists(FlattenSeq(seqs), UNION {M[n] : n \in 1 .. L})
  BY <1>1, <1>2, <1>4, <1>5, JoinLists
<1>8. QED
  BY <1>6, <1>7 DEF seqs

LEMMA RowListed ==
  ASSUME Inputs, i \in Nat, NEW r \in Rows,
         \A c \in Chunks, z \in Lanes : Lists(accs[<<r, c, z>>], Products(r, Own(c, z)))
  PROVE  Lists(y(r), Products(r, UNION {OwnChunk(c) : c \in Chunks}))
<1> DEFINE C == NumChunks
           seqs == [n \in 1 .. C |-> FlattenSeq(LaneTerms(r, n - 1))]
           M == [n \in 1 .. C |-> Products(r, OwnChunk(n - 1))]
<1>1. C \in Nat \ {0} /\ Chunks = 0 .. C - 1
  <2>1. NumChunks \in Nat \ {0}
    BY QuantAssumption DEF NumChunks
  <2>2. CASE kernel = "fp16_v4"
    BY <2>1, <2>2 DEF NumChunks, Chunks
  <2>3. CASE kernel # "fp16_v4"
    <3>1. NumChunks = 1 /\ Chunks = {0}
      BY <2>3 DEF NumChunks, Chunks
    <3>2. 0 .. 1 - 1 = {0}
      OBVIOUS
    <3>3. QED
      BY <2>1, <3>1, <3>2
  <2>4. QED
    BY <2>2, <2>3
<1>2. y(r) = FlattenSeq(seqs)
  BY DEF y, NumChunks, LaneTerms
<1> HIDE DEF C
<1>3. Len(seqs) = C
  BY <1>1
<1>4. \A n \in 1 .. C : n - 1 \in Chunks
  BY <1>1
<1>5. ASSUME NEW n \in 1 .. C PROVE Lists(seqs[n], M[n])
  <2>1. n - 1 \in Chunks
    BY <1>4
  <2>2. Lists(FlattenSeq(LaneTerms(r, n - 1)), Products(r, OwnChunk(n - 1)))
    BY <2>1, WarpListed
  <2>3. QED
    BY <2>2
<1>6. ASSUME NEW n \in 1 .. C, NEW d \in 1 .. C, n # d PROVE M[n] \cap M[d] = {}
  <2>1. n - 1 # d - 1 /\ n - 1 \in Chunks /\ d - 1 \in Chunks
    BY <1>1, <1>4, <1>6
  <2>2. OwnChunk(n - 1) \cap OwnChunk(d - 1) = {}
    BY <2>1, ChunksDisjoint
  <2>3. \A j, k : Exact(r, j) = Exact(r, k) => j = k
    BY DEF Exact
  <2>4. QED
    BY <2>2, <2>3 DEF Products
<1>7. UNION {M[n] : n \in 1 .. C} = Products(r, UNION {OwnChunk(c) : c \in Chunks})
  <2>1. \A c \in Chunks : c + 1 \in 1 .. C /\ (c + 1) - 1 = c
    BY <1>1
  <2>2. \A c \in Chunks : Products(r, OwnChunk(c)) = M[c + 1]
    BY <2>1
  <2>3. \A n \in 1 .. C : M[n] = Products(r, OwnChunk(n - 1))
    OBVIOUS
  <2> HIDE DEF M
  <2>4. UNION {M[n] : n \in 1 .. C} = UNION {Products(r, OwnChunk(c)) : c \in Chunks}
    BY <1>4, <2>1, <2>2, <2>3
  <2>5. UNION {Products(r, OwnChunk(c)) : c \in Chunks} = Products(r, UNION {OwnChunk(c) : c \in Chunks})
    BY DEF Products
  <2>6. QED
    BY <2>4, <2>5
<1> HIDE DEF M, seqs
<1>8. Lists(FlattenSeq(seqs), UNION {M[n] : n \in 1 .. C})
  BY <1>1, <1>3, <1>5, <1>6, JoinLists
<1>9. QED
  BY <1>2, <1>7, <1>8

(* A list of all products is what SameTerms asks for.                        *)
LEMMA ListIsSame ==
  ASSUME NEW s, NEW M, Lists(s, M)
  PROVE  SameTerms(s, M)
<1>1. /\ s \in Seq(M) /\ \A x \in M : \E k \in 1 .. Len(s) : s[k] = x
      /\ \A j, k \in 1 .. Len(s) : s[j] = s[k] => j = k
  BY DEF Lists
<1>2. DOMAIN s = 1 .. Len(s) /\ \A k \in 1 .. Len(s) : s[k] \in M
  BY <1>1
<1>3. ToSet(s) = M
  BY <1>1, <1>2 DEF ToSet
<1>4. IsInjective(s)
  BY <1>1, <1>2 DEF IsInjective
<1>5. QED
  BY <1>3, <1>4 DEF SameTerms

LEMMA RowsExact ==
  ASSUME QInv, stage = "done", kernel # "sparse", ~ TooFewScales, NEW r \in Rows
  PROVE  SameTerms(y(r), {<<k, ExactScale(r, k), codes[r][k]>> : k \in 0 .. K - 1})
<1>1. /\ Inputs /\ i \in Nat
      /\ \A c \in Chunks : End(c) <= Begin(c) + Cardinality(Lanes) * i
      /\ \A c \in Chunks, z \in Lanes : Listed(r, c, z)
  BY DEF QInv, LanesListed, Ended
<1>2. ASSUME NEW c \in Chunks, NEW z \in Lanes
      PROVE  Lists(accs[<<r, c, z>>], Products(r, Own(c, z)))
  <2>1. Held(r, c, z) = Products(r, Own(c, z))
    BY DEF Held, Own
  <2>2. Listed(r, c, z)
    BY <1>1
  <2>3. QED
    BY <2>1, <2>2 DEF Listed
<1>3. Lists(y(r), Products(r, UNION {OwnChunk(c) : c \in Chunks}))
  BY <1>1, <1>2, RowListed
<1>4. UNION {OwnChunk(c) : c \in Chunks} = 0 .. K - 1
  BY <1>1, AllOwned
<1>5. SameTerms(y(r), Products(r, 0 .. K - 1))
  BY <1>3, <1>4, ListIsSame
<1>6. QED
  BY <1>5 DEF Products, Exact

LEMMA ColumnsExact ==
  ASSUME QInv, stage = "done", kernel = "sparse", NEW c \in 0 .. K - 1
  PROVE  SameTerms(accs[c], {<<r, ExactScale(r, c), codes[r][c]>> : r \in Rows})
<1> DEFINE P(r) == ColumnProduct(r, c)
           M == {P(r) : r \in Rows}
           s == [n \in 1 .. N |-> P(n - 1)]
<1>1. N \in Nat /\ Rows = 0 .. N - 1 /\ accs[c] = s
  <2>1. N \in Nat /\ i = N /\ accs = [d \in 0 .. K - 1 |-> Column(d)]
    BY DEF QInv, Inputs, Ended, ColumnsListed
  <2>2. QED
    BY <2>1 DEF Rows, Column
<1>2. \A j, k : P(j) = P(k) => j = k
  BY DEF ColumnProduct
<1> HIDE DEF P
<1>3. DOMAIN s = 1 .. N /\ \A n \in 1 .. N : s[n] = P(n - 1) /\ n - 1 \in Rows
  BY <1>1
<1>4. \A r \in Rows : r + 1 \in 1 .. N /\ (r + 1) - 1 = r /\ s[r + 1] = P(r)
  BY <1>1
<1> HIDE DEF s
<1>5. ToSet(s) = M
  BY <1>3, <1>4 DEF ToSet
<1>6. IsInjective(s)
  <2>1. ASSUME NEW j \in 1 .. N, NEW k \in 1 .. N, s[j] = s[k] PROVE j = k
    <3>1. j - 1 = k - 1
      BY <1>2, <1>3, <2>1
    <3>2. QED
      BY <1>1, <3>1
  <2>2. QED
    BY <1>3, <2>1 DEF IsInjective
<1>7. M = {<<r, ExactScale(r, c), codes[r][c]>> : r \in Rows}
  BY DEF P, ColumnProduct
<1>8. QED
  BY <1>1, <1>5, <1>6, <1>7 DEF SameTerms

-----------------------------------------------------------------------------
(* unpack_int4 is the inverse of pack_int4, for every K and all values a     *)
(* nibble can hold (pack.py:53).                                             *)
THEOREM UnpackInverts == GemvSpec => []UnpackRestores
<1>1. ASSUME QInv PROVE UnpackRestores
  <2>1. Inputs /\ (stage = "running" => packed = Layout)
    BY <1>1 DEF QInv
  <2>2. QED
    BY <2>1, Restores DEF UnpackRestores
<1>2. QED
  BY <1>1, QInvariant, PTL

(* Only rows of an INT8 matrix with a ragged K are read at an address their  *)
(* words are not aligned to (gemv_w8a16.cu:49-51).                           *)
THEOREM OnlyRaggedMisaligned == GemvSpec => []LoadsAligned
<1>1. QInv => LoadsAligned
  BY DEF QInv
<1>2. QED
  BY <1>1, QInvariant, PTL

(* Whatever the length, the number of lanes and of chunks, and for each      *)
(* kernel: a product adds each code of the row once, with its own scale, and *)
(* none of the padding - of all launches the bindings accept but those of    *)
(* gemv_w8a16 with fewer scales than groups (bindings.cpp:251-256).          *)
THEOREM EachProductOnce == GemvSpec => []ProductExact
<1>1. QInv => ProductExact
  BY RowsExact, ColumnsExact DEF ProductExact
<1>2. QED
  BY <1>1, QInvariant, PTL

-----------------------------------------------------------------------------
(* DecodeAttention *)

(* The row the block is at: a warp that has updated waits one ahead. *)
Round(w) == IF pc[w] = "update" /\ waiting[w] THEN t[w] - 1 ELSE t[w]

(* The barriers keep the warps at one step of one row. *)
Lockstep ==
  /\ \A v, w \in Warps : pc[v] = pc[w] /\ Round(v) = Round(w)
  /\ \A w \in Warps : waiting[w] => pc[w] # "done"
  /\ \A w \in Warps : pc[w] # "done" => Round(w) < cur_len
  /\ \A w \in Warps : pc[w] = "done" => t[w] = cur_len
  /\ \A w \in Warps : pc[w] = "update" /\ waiting[w] => t[w] > 0

(* A cell holds its warp's share of the row from the warp's arrival on. *)
CellsOfRow ==
  \A w \in Warps :
    pc[w] = "broadcast" \/ (pc[w] = "partial" /\ waiting[w]) => sdata[w] = dot[Round(w)][w]

BroadcastOfRow ==
  \A w \in Warps :
    pc[w] = "update" \/ (pc[w] = "broadcast" /\ waiting[0]) => s_broadcast = Score(Round(w))

(* What a warp holds after r rows: the largest score and the weights of the rows. *)
Softmax(r, mw, lw, aw) ==
  /\ r = 0 => mw = Lowest
  /\ r > 0 => \E top \in 0 .. r - 1 : mw = Score(top)
  /\ \A j \in 0 .. r - 1 : Score(j) <= mw
  /\ r > 0 => lw = [j \in 0 .. r - 1 |-> Score(j) - mw] /\ aw = lw

RowsSoFar ==
  /\ \A w \in Warps : Softmax(t[w], m[w], l[w], acc[w])
  /\ l = [w \in Warps |-> l[w]] /\ acc = [w \in Warps |-> acc[w]]

IInv == TypeOK /\ Lockstep /\ CellsOfRow /\ BroadcastOfRow /\ RowsSoFar

-----------------------------------------------------------------------------
(* A row's score is an integer above the value the maximum starts with. *)
LEMMA ScoreIsInt ==
  ASSUME TypeOK, NEW r \in 0 .. cur_len - 1
  PROVE  Score(r) \in Int /\ Score(r) > Lowest
  BY AttentionAssumption DEF TypeOK, Score

(* The first warp, which owns thread 0, exists. *)
LEMMA ThreadZero == 0 \in Warps
  BY AttentionAssumption DEF Warps

(* The invariant holds at the start.                                          *)
LEMMA InitHolds == Init => IInv
<1> SUFFICES ASSUME Init PROVE IInv
  OBVIOUS
<1>1. TypeOK
  BY AttentionAssumption DEF Init, TypeOK, Steps
<1>2. Lockstep
  BY DEF Init, Lockstep, Round
<1>3. CellsOfRow /\ BroadcastOfRow
  BY DEF Init, CellsOfRow, BroadcastOfRow
<1>4. RowsSoFar
  BY DEF Init, RowsSoFar, Softmax
<1> QED
  BY <1>1, <1>2, <1>3, <1>4 DEF IInv

(* One more row keeps what a warp holds a softmax. *)
LEMMA OneMoreRow ==
  ASSUME TypeOK, NEW r \in 0 .. cur_len - 1, NEW mw \in Int, NEW lw, NEW aw,
         Softmax(r, mw, lw, aw)
  PROVE  LET s == Score(r)
             new_m == fmax(mw, s)
         IN  /\ new_m \in Int
             /\ Softmax(r + 1, new_m, WithRow(lw, r, mw - new_m, s - new_m),
                                      WithRow(aw, r, mw - new_m, s - new_m))
<1> DEFINE s == Score(r)
           new_m == fmax(mw, s)
<1>1. s \in Int /\ s > Lowest
  BY ScoreIsInt
<1>2. \A j \in 0 .. r - 1 : Score(j) \in Int
  BY ScoreIsInt DEF TypeOK
<1>3. new_m \in Int /\ mw <= new_m /\ s <= new_m /\ (new_m = mw \/ new_m = s)
  BY <1>1 DEF fmax
<1>4. \A j \in 0 .. r : Score(j) <= new_m
  <2> TAKE j \in 0 .. r
  <2>1. CASE j = r
    BY <2>1, <1>3
  <2>2. CASE j \in 0 .. r - 1
    BY <2>2, <1>2, <1>3 DEF Softmax
  <2> QED
    BY <2>1, <2>2
<1>5. \E top \in 0 .. r : new_m = Score(top)
  <2>1. CASE new_m = s
    BY <2>1
  <2>2. CASE new_m = mw /\ r > 0
    BY <2>2 DEF Softmax
  <2>3. CASE new_m = mw /\ r = 0
    BY <2>3, <1>1, <1>3 DEF Softmax
  <2> QED
    BY <2>1, <2>2, <2>3, <1>3
<1>6. ASSUME NEW f, r > 0 => f = [j \in 0 .. r - 1 |-> Score(j) - mw]
      PROVE  WithRow(f, r, mw - new_m, s - new_m) = [j \in 0 .. r |-> Score(j) - new_m]
  <2>1. ASSUME NEW j \in 0 .. r - 1
        PROVE  f[j] + (mw - new_m) = Score(j) - new_m
    <3>1. f[j] = Score(j) - mw
      BY <1>6, <2>1
    <3> QED
      BY <3>1, <1>2, <1>3
  <2>2. \A j \in 0 .. r : (IF j = r THEN s - new_m ELSE f[j] + (mw - new_m)) = Score(j) - new_m
    BY <2>1
  <2> QED
    BY <2>2 DEF WithRow
<1>7. r > 0 => lw = [j \in 0 .. r - 1 |-> Score(j) - mw] /\ aw = [j \in 0 .. r - 1 |-> Score(j) - mw]
  BY DEF Softmax
<1>8. /\ WithRow(lw, r, mw - new_m, s - new_m) = [j \in 0 .. r |-> Score(j) - new_m]
      /\ WithRow(aw, r, mw - new_m, s - new_m) = [j \in 0 .. r |-> Score(j) - new_m]
  BY <1>6, <1>7
<1>9. (r + 1) - 1 = r /\ r + 1 # 0
  OBVIOUS
<1> HIDE DEF s, new_m
<1> QED
  BY <1>3, <1>4, <1>5, <1>8, <1>9 DEF Softmax, s, new_m

(* The action Barrier keeps the invariant.                                   *)
LEMMA BarrierKeeps == IInv /\ Barrier => IInv'
<1> SUFFICES ASSUME IInv, Barrier PROVE IInv'
  OBVIOUS
<1>1. TypeOK'
  BY DEF IInv, TypeOK, Barrier, Follow, Steps, inputs
<1>2. /\ \A w \in Warps : waiting[w] /\ pc[w] \in {"partial", "broadcast", "update"}
      /\ \A w \in Warps : ~ waiting'[w] /\ pc'[w] = Follow(pc[w], t[w])
      /\ \A w \in Warps : t[w] \in 0 .. cur_len /\ t'[w] = t[w]
      /\ cur_len' = cur_len /\ cur_len \in Nat
  BY DEF IInv, TypeOK, Lockstep, Barrier, Steps, inputs
<1>3. \A w \in Warps : /\ Round(w)' = t[w]
                       /\ pc[w] # "update" => Round(w)' = Round(w)
                       /\ pc[w] = "update" => Round(w)' = Round(w) + 1
  BY <1>2 DEF Round
<1>4. Lockstep'
  <2>1. \A v, w \in Warps : pc[v] = pc[w] /\ Round(v) = Round(w)
    BY DEF IInv, Lockstep
  <2>2. \A v, w \in Warps : Round(v)' = Round(w)' /\ t[v] = t[w]
    BY <2>1, <1>3
  <2>3. \A v, w \in Warps : pc'[v] = pc'[w]
    BY <2>1, <2>2, <1>2
  <2>4. \A w \in Warps : pc'[w] # "done" => Round(w)' < cur_len'
    BY <1>2, <1>3 DEF Follow, IInv, Lockstep
  <2>5. \A w \in Warps : pc'[w] = "done" => t'[w] = cur_len'
    BY <1>2 DEF Follow
  <2> QED
    BY <1>2, <2>2, <2>3, <2>4, <2>5 DEF Lockstep
<1>5. CellsOfRow'
  BY <1>2, <1>3 DEF IInv, CellsOfRow, Barrier, Follow, inputs
<1>6. BroadcastOfRow'
  <2>1. \A w \in Warps : pc[w] = "broadcast" => s_broadcast = Score(Round(w))
    BY <1>2, ThreadZero DEF IInv, BroadcastOfRow
  <2> QED
    BY <2>1, <1>2, <1>3, ThreadZero DEF BroadcastOfRow, Barrier, Follow, inputs, Score
<1>7. RowsSoFar'
  BY DEF IInv, RowsSoFar, Barrier, inputs, Softmax, Score
<1> QED
  BY <1>1, <1>4, <1>5, <1>6, <1>7 DEF IInv

(* The action Partial keeps the invariant.                                   *)
LEMMA PartialKeeps ==
  ASSUME IInv, NEW w \in Warps, Partial(w)
  PROVE  IInv'
<1>1. /\ pc' = pc /\ t' = t /\ UNCHANGED <<inputs, s_broadcast, m, l, acc>>
      /\ pc[w] = "partial" /\ ~ waiting[w]
      /\ waiting' = [waiting EXCEPT ![w] = TRUE]
      /\ sdata' = [sdata EXCEPT ![w] = dot[t[w]][w]]
  BY DEF Partial, At, Leave, Synced
<1>2. t[w] \in 0 .. cur_len - 1 /\ dot[t[w]][w] \in Values
  <2>1. Round(w) = t[w]
    BY <1>1 DEF Round
  <2>2. t[w] < cur_len
    BY <2>1, <1>1 DEF IInv, Lockstep
  <2>3. t[w] \in 0 .. cur_len /\ cur_len \in Nat
    BY DEF IInv, TypeOK
  <2>4. t[w] \in 0 .. cur_len - 1
    BY <2>2, <2>3
  <2> QED
    BY <2>4 DEF IInv, TypeOK
<1>3. TypeOK'
  BY <1>1, <1>2 DEF IInv, TypeOK, inputs
<1>4. \A v \in Warps : pc[v] = "partial"
  BY <1>1 DEF IInv, Lockstep
<1>5. \A v \in Warps : Round(v) = t[v] /\ Round(v)' = t[v]
  BY <1>1, <1>4 DEF Round
<1>6. Lockstep'
  <2>1. \A u, v \in Warps : t[u] = t[v]
    BY <1>5 DEF IInv, Lockstep
  <2>2. \A v \in Warps : t[v] < cur_len
    BY <1>4, <1>5 DEF IInv, Lockstep
  <2> QED
    BY <2>1, <2>2, <1>1, <1>4, <1>5 DEF Lockstep, inputs
<1>7. CellsOfRow'
  <2> SUFFICES ASSUME NEW v \in Warps, waiting'[v]
               PROVE  sdata'[v] = dot[t[v]][v]
    BY <1>1, <1>4, <1>5 DEF CellsOfRow, inputs
  <2>1. CASE v = w
    BY <2>1, <1>1 DEF IInv, TypeOK
  <2>2. CASE v # w
    BY <2>2, <1>1, <1>4, <1>5 DEF IInv, TypeOK, CellsOfRow
  <2> QED
    BY <2>1, <2>2
<1>8. BroadcastOfRow'
  BY <1>1, <1>4 DEF BroadcastOfRow
<1>9. RowsSoFar'
  BY <1>1 DEF IInv, RowsSoFar, inputs, Softmax, Score
<1> QED
  BY <1>3, <1>6, <1>7, <1>8, <1>9 DEF IInv

(* The action Broadcast keeps the invariant.                                 *)
LEMMA BroadcastKeeps ==
  ASSUME IInv, NEW w \in Warps, Broadcast(w)
  PROVE  IInv'
<1>1. /\ pc' = pc /\ t' = t /\ UNCHANGED <<inputs, sdata, m, l, acc>>
      /\ pc[w] = "broadcast" /\ ~ waiting[w]
      /\ waiting' = [waiting EXCEPT ![w] = TRUE]
      /\ s_broadcast' = IF w = 0 THEN Sum(sdata) ELSE s_broadcast
  BY DEF Broadcast, At, Leave, Synced
<1>2. \A v \in Warps : pc[v] = "broadcast"
  BY <1>1 DEF IInv, Lockstep
<1>3. \A v \in Warps : Round(v) = t[v] /\ Round(v)' = t[v] /\ t[v] = t[w]
  <2>1. \A v \in Warps : Round(v) = t[v] /\ Round(v)' = t[v]
    BY <1>1, <1>2 DEF Round
  <2> QED
    BY <2>1 DEF IInv, Lockstep
<1>4. t[w] \in 0 .. cur_len - 1
  BY <1>1, <1>3 DEF IInv, TypeOK, Lockstep
<1>5. sdata = dot[t[w]]
  <2>1. \A v \in Warps : sdata[v] = dot[t[w]][v]
    BY <1>2, <1>3 DEF IInv, CellsOfRow
  <2>2. sdata \in [Warps -> Values] /\ dot[t[w]] \in [Warps -> Values]
    BY <1>4 DEF IInv, TypeOK
  <2> QED
    BY <2>1, <2>2
<1>6. TypeOK'
  <2>1. Sum(sdata) \in Int
    BY AttentionAssumption DEF IInv, TypeOK
  <2> QED
    BY <2>1, <1>1 DEF IInv, TypeOK, inputs
<1>7. Lockstep'
  BY <1>1, <1>2, <1>3 DEF IInv, Lockstep, TypeOK, inputs
<1>8. CellsOfRow'
  BY <1>1, <1>2, <1>3 DEF IInv, CellsOfRow, inputs
<1>9. BroadcastOfRow'
  <2> SUFFICES ASSUME NEW v \in Warps, waiting'[0]
               PROVE  s_broadcast' = Score(t[w])
    BY <1>1, <1>2, <1>3 DEF BroadcastOfRow, inputs, Score
  <2>1. CASE w = 0
    BY <2>1, <1>1, <1>5 DEF Score
  <2>2. CASE w # 0
    <3>1. waiting[0]
      BY <2>2, <1>1, ThreadZero DEF IInv, TypeOK
    <3> QED
      BY <3>1, <2>2, <1>1, <1>2, <1>3 DEF IInv, BroadcastOfRow
  <2> QED
    BY <2>1, <2>2
<1>10. RowsSoFar'
  BY <1>1 DEF IInv, RowsSoFar, inputs, Softmax, Score
<1> QED
  BY <1>6, <1>7, <1>8, <1>9, <1>10 DEF IInv

(* The action Update keeps the invariant.                                    *)
LEMMA UpdateKeeps ==
  ASSUME IInv, NEW w \in Warps, Update(w)
  PROVE  IInv'
<1> DEFINE s == s_broadcast
           new_m == fmax(m[w], s)
<1>1. /\ pc' = pc /\ UNCHANGED <<inputs, sdata, s_broadcast>>
      /\ pc[w] = "update" /\ ~ waiting[w]
      /\ waiting' = [waiting EXCEPT ![w] = TRUE]
      /\ t' = [t EXCEPT ![w] = @ + 1]
      /\ m' = [m EXCEPT ![w] = new_m]
      /\ l' = [l EXCEPT ![w] = WithRow(@, t[w], m[w] - new_m, s - new_m)]
      /\ acc' = [acc EXCEPT ![w] = WithRow(@, t[w], m[w] - new_m, s - new_m)]
  BY DEF Update, At, Leave, Synced
<1>2. \A v \in Warps : pc[v] = "update"
  BY <1>1 DEF IInv, Lockstep
<1>3. t[w] \in 0 .. cur_len - 1 /\ Round(w) = t[w] /\ m[w] \in Int
  <2>1. Round(w) = t[w]
    BY <1>1 DEF Round
  <2>2. t[w] < cur_len
    BY <2>1, <1>1 DEF IInv, Lockstep
  <2>3. t[w] \in 0 .. cur_len /\ cur_len \in Nat /\ m[w] \in Int
    BY DEF IInv, TypeOK
  <2> QED
    BY <2>1, <2>2, <2>3
<1>4. s = Score(t[w])
  BY <1>2, <1>3 DEF IInv, BroadcastOfRow
<1>5. /\ new_m \in Int
      /\ Softmax(t[w] + 1, new_m, WithRow(l[w], t[w], m[w] - new_m, s - new_m),
                                  WithRow(acc[w], t[w], m[w] - new_m, s - new_m))
  BY <1>3, <1>4, OneMoreRow DEF IInv, RowsSoFar
<1> HIDE DEF s, new_m
<1>6. TypeOK'
  BY <1>1, <1>3, <1>5 DEF IInv, TypeOK, inputs
<1>7. \A v \in Warps : Round(v)' = Round(v)
  BY <1>1, <1>2, <1>3 DEF IInv, TypeOK, Round
<1>8. Lockstep'
  <2>1. \A v \in Warps : pc'[v] = "update" /\ waiting'[v] => t'[v] > 0
    BY <1>1, <1>2, <1>3 DEF IInv, Lockstep, TypeOK
  <2>2. \A u, v \in Warps : Round(u) = Round(v) /\ Round(u) < cur_len
    BY <1>2 DEF IInv, Lockstep
  <2> QED
    BY <2>1, <2>2, <1>1, <1>2, <1>7 DEF Lockstep, inputs
<1>9. CellsOfRow' /\ BroadcastOfRow'
  BY <1>1, <1>2, <1>7 DEF IInv, CellsOfRow, BroadcastOfRow, inputs, Score
<1>10. RowsSoFar'
  <2>1. \A v \in Warps : Softmax(t[v], m[v], l[v], acc[v])'
    <3> SUFFICES ASSUME NEW v \in Warps
                 PROVE  Softmax(t[v], m[v], l[v], acc[v])'
      OBVIOUS
    <3>1. CASE v = w
      <4>1. /\ t'[v] = t[w] + 1 /\ m'[v] = new_m
            /\ l'[v] = WithRow(l[w], t[w], m[w] - new_m, s - new_m)
            /\ acc'[v] = WithRow(acc[w], t[w], m[w] - new_m, s - new_m)
        BY <3>1, <1>1 DEF IInv, TypeOK, RowsSoFar
      <4>2. Softmax(t'[v], m'[v], l'[v], acc'[v])
        BY <4>1, <1>5
      <4> QED
        BY <4>2, <1>1 DEF Softmax, Score, inputs
    <3>2. CASE v # w
      <4>1. t'[v] = t[v] /\ m'[v] = m[v] /\ l'[v] = l[v] /\ acc'[v] = acc[v]
        BY <3>2, <1>1 DEF IInv, TypeOK, RowsSoFar
      <4>2. Softmax(t'[v], m'[v], l'[v], acc'[v])
        BY <4>1 DEF IInv, RowsSoFar
      <4> QED
        BY <4>2, <1>1 DEF Softmax, Score, inputs
    <3> QED
      BY <3>1, <3>2
  <2>2. l' = [v \in Warps |-> l'[v]] /\ acc' = [v \in Warps |-> acc'[v]]
    BY <1>1 DEF IInv, RowsSoFar
  <2> QED
    BY <2>1, <2>2 DEF RowsSoFar
<1> QED
  BY <1>6, <1>8, <1>9, <1>10 DEF IInv

(* Every step keeps the invariant.                                           *)
LEMMA StepKeeps == IInv /\ [Next]_vars => IInv'
<1> SUFFICES ASSUME IInv, [Next]_vars PROVE IInv'
  OBVIOUS
<1>1. CASE UNCHANGED vars
  BY <1>1 DEF vars, inputs, IInv, TypeOK, Lockstep, Round, CellsOfRow, BroadcastOfRow,
              RowsSoFar, Softmax, Score
<1>2. CASE Barrier
  BY <1>2, BarrierKeeps
<1>3. CASE \E w \in Warps : Partial(w) \/ Broadcast(w) \/ Update(w)
  BY <1>3, PartialKeeps, BroadcastKeeps, UpdateKeeps
<1> QED
  BY <1>1, <1>2, <1>3 DEF Next, Finished

(* The invariant holds of every behaviour.                                   *)
THEOREM Invariance == Spec => []IInv
  BY InitHolds, StepKeeps, PTL DEF Spec

-----------------------------------------------------------------------------
(* Type correctness: rows, scores and maxima stay in range. *)
THEOREM TypeCorrect == Spec => []TypeOK
  BY Invariance, PTL DEF IInv

(* No two warps meet in shared memory (decode_attention.cu:39-52), because *)
(* a barrier follows every step, whichever of them are needed.             *)
THEOREM NoRace == Spec => []RaceFree
<1>1. IInv => RaceFree
  <2> SUFFICES ASSUME IInv, NEW v \in Warps, NEW w \in Warps, v # w
               PROVE  Writes(v) \cap (Reads(w) \cup Writes(w)) = {}
    BY DEF RaceFree
  <2>1. pc[v] = pc[w]
    BY DEF IInv, Lockstep
  <2>2. Writes(v) \subseteq IF pc[v] = "partial" THEN {<<"sdata", v>>}
                            ELSE IF pc[v] = "broadcast" /\ v = 0 THEN {<<"s_broadcast">>} ELSE {}
    BY DEF Writes, At
  <2>3. Writes(w) \subseteq IF pc[w] = "partial" THEN {<<"sdata", w>>}
                            ELSE IF pc[w] = "broadcast" /\ w = 0 THEN {<<"s_broadcast">>} ELSE {}
    BY DEF Writes, At
  <2>4. pc[w] \in {"partial", "done"} => Reads(w) = {}
    BY DEF Reads, At
  <2>5. pc[w] = "broadcast" => w = 0 \/ Reads(w) = {}
    BY DEF Reads, At
  <2> QED
    BY <2>1, <2>2, <2>3, <2>4, <2>5
<1> QED
  BY <1>1, Invariance, PTL

(* Every slice of the output is the softmax over the whole cache. *)
THEOREM SoftmaxOverCache == Spec => []AttendsToWholeCache
<1>1. IInv => AttendsToWholeCache
  <2> SUFFICES ASSUME IInv, NEW w \in Warps, pc[w] = "done"
               PROVE  \E top \in 0 .. cur_len - 1 :
                        /\ \A r \in 0 .. cur_len - 1 : Score(r) <= Score(top)
                        /\ l[w] = [r \in 0 .. cur_len - 1 |-> Score(r) - Score(top)]
                        /\ acc[w] = l[w]
    BY DEF AttendsToWholeCache
  <2>1. t[w] = cur_len /\ cur_len > 0
    BY DEF IInv, Lockstep, TypeOK
  <2>2. Softmax(cur_len, m[w], l[w], acc[w])
    BY <2>1 DEF IInv, RowsSoFar
  <2> QED
    BY <2>1, <2>2 DEF Softmax
<1> QED
  BY <1>1, Invariance, PTL
=============================================================================
