------------------------------- MODULE QuantGemv -------------------------------
(***************************************************************************)
(* From a matrix of codes to a product: pack_int4 and unpack_int4 of       *)
(* python/soinfer/quant/pack.py, the dequantization of                     *)
(* csrc/kernels/dequant.cuh, and the ways the kernels walk a matrix -      *)
(* gemv_w4a16_group, its lop3 variant (whose loop gemv_dip_fused_up        *)
(* shares), gemv_w4a16_sparse_accumulate (whose loop gemv_dip_fused_down   *)
(* shares), gemv_w8a16 and gemv_fp16_v1 to v4.                             *)
(*                                                                         *)
(* A 32-bit word is the function from 0..7 to its nibbles, the lowest      *)
(* first.  Products are not computed: an accumulator is the sequence of    *)
(* its terms <<position of the other factor, scale, code>>, and a scale is *)
(* known by the row and group it belongs to.                               *)
(***************************************************************************)
EXTENDS Integers, Sequences, FiniteSets, SequencesExt

CONSTANTS
  NumRows,     \* bound: rows of the matrix
  NumLanes,    \* lanes of a warp, 32 in the code
  Lengths,     \* bound: K
  GroupSizes,  \* bound: group_size
  split        \* chunks of gemv_fp16_v4_splitk

ASSUME QuantAssumption ==
  /\ {NumRows, NumLanes, split} \subseteq Nat \ {0}
  /\ Lengths \subseteq Nat \ {0}
  /\ GroupSizes \subseteq Nat \ {0}

Int4Kernels == {"group", "lop3", "sparse"}
Fp16Kernels == {"fp16_v1", "fp16_v2", "fp16_v3", "fp16_v4"}
Kernels == Int4Kernels \cup {"w8a16"} \cup Fp16Kernels

VARIABLES
  N, K, kernel,
  scale_rows, num_groups,  \* shape of the scale tensor
  group_size,
  codes,   \* the rows: quantized, or FP16 weights
  stage,
  packed,  \* the rows one after the other: bytes of INT4, or elements
  i,       \* the loop iteration
  accs     \* per warp and lane, or thread, of each output: the terms so far

gemvInputs == <<N, K, kernel, scale_rows, num_groups, group_size, codes>>
gemvVars == <<gemvInputs, stage, packed, i, accs>>

Rows == 0 .. N - 1

CeilDiv(a, b) == (a + b - 1) \div b

-----------------------------------------------------------------------------
(* quant/pack.py *)

AWQ_ORDER == <<0, 2, 4, 6, 1, 3, 5, 7>>

Nibble(v) == v % 16
SignExtend(n) == IF n >= 8 THEN n - 16 ELSE n

(* The two nibbles of a byte: & 0xF, and >> 4. *)
NibbleAt(byte, n) == IF n % 2 = 0 THEN byte % 16 ELSE (byte \div 16) % 16

(* Bytes of one row, the last group padded with zeros. *)
pack_int4(q) ==
  LET words == CeilDiv(K, 8)
      Padded(k) == IF k < K THEN q[k] ELSE 0
      Permuted(g, n) == Nibble(Padded(8 * g + AWQ_ORDER[n + 1]))
  IN  [b \in 0 .. 4 * words - 1 |->
         Permuted(b \div 4, 2 * (b % 4)) + 16 * Permuted(b \div 4, 2 * (b % 4) + 1)]

(* Mutant: the permutation itself in the place of its inverse. *)
not_inverted(j) == AWQ_ORDER[j + 1]
INV_AWQ_ORDER(j) == (CHOOSE n \in 1 .. 8 : AWQ_ORDER[n] = j) - 1

unpack_int4(bytes) ==
  LET Permuted(g, n) == NibbleAt(bytes[4 * g + n \div 2], n)
  IN  [k \in 0 .. K - 1 |-> SignExtend(Permuted(k \div 8, INV_AWQ_ORDER(k % 8)))]

-----------------------------------------------------------------------------
(* csrc/kernels *)

words_per_row == CeilDiv(K, 8)
(* A single row of scales is every row's. *)
scale_row_stride == IF scale_rows = 1 THEN 0 ELSE num_groups

(* Word w of row r, read as a little-endian uint32_t. *)
row_words(r, w) ==
  [n \in 0 .. 7 |-> NibbleAt(packed[4 * (r * words_per_row + w) + n \div 2], n)]

(* The scale array is flat as well: what it holds at index s.  From row       *)
(* scale_rows on that is what lies behind the array.                          *)
scale_at(s) == <<s \div num_groups, s % num_groups>>

(* Shifts of v[0] .. v[7] in gemv_w4a16_group_kernel. *)
ScalarNibble == <<0, 4, 1, 5, 2, 6, 3, 7>>
dequant_scalar(word) == [v \in 0 .. 7 |-> SignExtend(word[ScalarNibble[v + 1]])]

(* Mutant: the published trick for unsigned codes. *)
unsigned(word) == word
FlipSigns(word) == [n \in 0 .. 7 |-> (word[n] + 8) % 16]

(* dequant_int4x8_awq: a masked nibble in the mantissa of a half of exponent *)
(* 1024 is 1024 + n, or 1024 + 16 n one nibble higher.                        *)
dequant_int4x8_awq(word) ==
  LET x == FlipSigns(word)
      top == [n \in 0 .. 7 |-> IF n + 2 <= 7 THEN x[n + 2] ELSE 0]
      Bottom(y, half) == (1024 + y[4 * half]) - 1024
      Top(y, half) == ((1024 + 16 * y[4 * half + 1]) \div 16) - 64
      g(j, half) == CASE j = 0 -> Bottom(x, half)   [] j = 1 -> Top(x, half)
                      [] j = 2 -> Bottom(top, half) [] j = 3 -> Top(top, half)
  IN  [v \in 0 .. 7 |-> g(v \div 2, v % 2) - 8]

(* Elements a lane loads at once, and how many such words a row has. *)
Width == CASE kernel \in {"group", "lop3", "fp16_v3"} -> 8
           [] kernel = "w8a16"                        -> 4
           [] OTHER                                   -> 1
WordsOfRow == IF kernel \in Int4Kernels THEN words_per_row ELSE K \div Width

One == <<>>
ScaleOf(r, k) ==
  IF kernel \in Fp16Kernels THEN One ELSE scale_at(r * scale_row_stride + k \div group_size)

(* What a lane adds for word w of row r. *)
WordTerms(r, w) ==
  LET k == Width * w
      v == CASE kernel = "group" -> dequant_scalar(row_words(r, w))
             [] kernel = "lop3"  -> dequant_int4x8_awq(row_words(r, w))
             [] OTHER            -> [n \in 0 .. Width - 1 |-> packed[r * K + k + n]]
      remaining == IF K - k < Width THEN K - k ELSE Width
  IN  [n \in 1 .. remaining |-> <<k + n - 1, ScaleOf(r, k), v[n - 1]>>]

(* What the thread of column c adds for row r. *)
ColumnTerm(r, c) ==
  <<r, ScaleOf(r, c), dequant_int4x8_awq(row_words(r, c \div 8))[c % 8]>>

(* Lane 0 of gemv_w8a16 adds what is left over a word, an element at a time. *)
TailTerms(r) ==
  LET tail == 4 * (K \div 4)
  IN  [n \in 1 .. K - tail |-> <<tail + n - 1, ScaleOf(r, tail + n - 1), packed[r * K + tail + n - 1]>>]

(* The words of a warp: the row, or a chunk of it. *)
Chunks == IF kernel = "fp16_v4" THEN 0 .. split - 1 ELSE {0}
ChunkSize == CeilDiv(K, split)
Begin(c) == IF kernel = "fp16_v4" THEN c * ChunkSize ELSE 0
End(c) == IF kernel = "fp16_v4" /\ (c + 1) * ChunkSize < K THEN (c + 1) * ChunkSize ELSE WordsOfRow

Lanes == IF kernel = "fp16_v1" THEN {0} ELSE 0 .. NumLanes - 1

-----------------------------------------------------------------------------
ScaleShape ==
  /\ scale_rows = 1 \/ scale_rows = N
  /\ CASE kernel \in Int4Kernels ->
            /\ scale_rows = N /\ group_size % 8 = 0
            /\ num_groups = CeilDiv(K, group_size)
       [] kernel = "w8a16" ->
            num_groups = 1 \/ (group_size % 4 = 0 /\ num_groups = CeilDiv(K, group_size))
       [] OTHER -> scale_rows = 1 /\ num_groups = 1 /\ group_size = K  \* no scale

(* Mutant: no check that the rows of gemv_fp16_v3 are whole float4s. *)
any_row_length == ScaleShape
(* What the bindings let through.  They compare a single column of scales for *)
(* gemv_w8a16 with neither K nor group_size.                                  *)
Accepted == ScaleShape /\ (kernel = "fp16_v3" => K % 8 = 0)

GemvInit ==
  /\ N \in 1 .. NumRows /\ K \in Lengths /\ kernel \in Kernels
  /\ group_size \in GroupSizes \cup {K}
  /\ scale_rows \in {1, N} /\ num_groups \in 1 .. K
  /\ Accepted
  /\ \E a \in 0 .. 15, d \in 0 .. 7 :
       codes = [r \in Rows |-> [k \in 0 .. K - 1 |-> ((a + d * k + 5 * r) % 16) - 8]]
  /\ stage = "quantized"
  /\ packed = <<>> /\ i = 0 /\ accs = <<>>

Pack ==
  /\ stage = "quantized"
  /\ packed' = IF kernel \in Int4Kernels
               THEN [b \in 0 .. 4 * N * words_per_row - 1 |->
                       pack_int4(codes[b \div (4 * words_per_row)])[b % (4 * words_per_row)]]
               ELSE [e \in 0 .. N * K - 1 |-> codes[e \div K][e % K]]
  /\ accs' = IF kernel = "sparse" THEN [c \in 0 .. K - 1 |-> <<>>]
                                 ELSE [p \in Rows \X Chunks \X Lanes |-> <<>>]
  /\ stage' = "running"
  /\ UNCHANGED <<gemvInputs, i>>

(* A word of gemv_w8a16 or gemv_fp16_v3 that is not at a multiple of its size. *)
Misaligned == WordsOfRow > 0 /\ kernel \notin Int4Kernels /\ \E r \in Rows : (r * K) % Width # 0

(* Some warp is not through with its row or chunk. *)
WordsLeft ==
  /\ stage = "running" /\ kernel # "sparse"
  /\ \E c \in Chunks : Begin(c) + Cardinality(Lanes) * i < End(c)

(* An iteration of every warp: its lanes take the words next to each other. *)
WarpIteration ==
  /\ WordsLeft /\ ~ Misaligned
  /\ accs' = [p \in DOMAIN accs |->
               LET w == Begin(p[2]) + p[3] + Cardinality(Lanes) * i
               IN  IF w < End(p[2]) THEN accs[p] \o WordTerms(p[1], w) ELSE accs[p]]
  /\ i' = i + 1
  /\ UNCHANGED <<gemvInputs, stage, packed>>

(* The device reports a misaligned address, and nothing is written. *)
MisalignedLoad ==
  /\ WordsLeft /\ Misaligned
  /\ stage' = "fault"
  /\ UNCHANGED <<gemvInputs, packed, i, accs>>

(* An iteration of every column's thread: row i. *)
ColumnIteration ==
  /\ stage = "running" /\ kernel = "sparse"
  /\ i < N
  /\ accs' = [c \in DOMAIN accs |-> Append(accs[c], ColumnTerm(i, c))]
  /\ i' = i + 1
  /\ UNCHANGED <<gemvInputs, stage, packed>>

(* The loops are over: lane 0 or the column's thread writes y. *)
Write ==
  /\ stage = "running"
  /\ IF kernel = "sparse" THEN i >= N
     ELSE ~ WordsLeft
  /\ stage' = "done"
  /\ accs' = IF kernel = "w8a16"
            THEN [p \in DOMAIN accs |-> IF p[3] = 0 THEN accs[p] \o TailTerms(p[1]) ELSE accs[p]]
            ELSE accs
  /\ UNCHANGED <<gemvInputs, packed, i>>

GemvNext == Pack \/ WarpIteration \/ MisalignedLoad \/ ColumnIteration \/ Write

GemvSpec == GemvInit /\ [][GemvNext]_gemvVars

-----------------------------------------------------------------------------
(* warp_reduce_sum and atomicAdd: an output row adds up its lanes and chunks. *)
y(r) == LET Of(c) == FlattenSeq([n \in 1 .. Cardinality(Lanes) |-> accs[<<r, c, n - 1>>]])
        IN  FlattenSeq([c \in 1 .. (IF kernel = "fp16_v4" THEN split ELSE 1) |-> Of(c - 1)])

(* The scale of a code: "scale[row, k // group_size] is used for element k"   *)
(* (ops.py:94).                                                               *)
ExactScale(r, k) ==
  IF kernel \in Fp16Kernels THEN One
  ELSE <<IF scale_rows = 1 THEN 0 ELSE r, k \div group_size>>

(* gemv_w8a16 was given one scale a row and a group_size below K.             *)
TooFewScales == num_groups < CeilDiv(K, group_size)

SameTerms(s, T) == ToSet(s) = T /\ IsInjective(s)

(* Whichever kernel reads the matrix, each product of a code, its own scale  *)
(* and the factor at its position is added once, and none of the padding:    *)
(* y = W x for the row kernels, y = h W for the column kernel, whatever K    *)
(* leaves over a word, a group, a chunk or a round of the warp (layout.h:59, *)
(* gemv_w4a16_group.cu:112-113) - unless the binding accepted fewer scales   *)
(* than the row has groups, of which ScalesInRow tells.                      *)
ProductExact ==
  stage = "done" /\ ~ TooFewScales =>
    IF kernel = "sparse"
    THEN \A c \in 0 .. K - 1 :
           SameTerms(accs[c], {<<r, ExactScale(r, c), codes[r][c]>> : r \in Rows})
    ELSE \A r \in Rows :
           SameTerms(y(r), {<<k, ExactScale(r, k), codes[r][k]>> : k \in 0 .. K - 1})

(* The claim of bindings.cpp:48-56 and test_m4_kernels.py:97-101: since       *)
(* num_groups is compared with ceil(K / group_size), no kernel reads past the *)
(* last scale of a row, where another row's or none would be.                 *)
ScalesInRow ==
  kernel \notin Fp16Kernels =>
    \A p \in DOMAIN accs : \A n \in DOMAIN accs[p] :
      LET row == IF kernel = "sparse" THEN accs[p][n][1] ELSE p[1]
      IN  accs[p][n][2] \in {IF scale_rows = 1 THEN 0 ELSE row} \X (0 .. num_groups - 1)

(* unpack_int4 is the "Inverse of pack_int4" (pack.py:53), for all values a  *)
(* nibble can hold, next to others, and every ragged K.                      *)
UnpackRestores ==
  stage = "running" /\ kernel \in Int4Kernels =>
    \A r \in Rows :
      unpack_int4([b \in 0 .. 4 * words_per_row - 1 |-> packed[4 * words_per_row * r + b]]) = codes[r]
(* Words are read at addresses they are aligned to, but for the rows of an   *)
(* INT8 matrix with a ragged K: the tail loop that "avoids any alignment     *)
(* assumptions" (gemv_w8a16.cu:49-51) comes too late for them.               *)
LoadsAligned == stage = "fault" => kernel = "w8a16" /\ K % 4 # 0 /\ N > 1
=============================================================================
