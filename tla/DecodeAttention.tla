---------------------------- MODULE DecodeAttention ----------------------------
(***************************************************************************)
(* The kernel of csrc/kernels/decode_attention.cu: one thread block        *)
(* attends for one query head to the cur_len rows of the caches, a row at  *)
(* a time, with the block reduction of csrc/include/reduce.cuh and the     *)
(* online softmax.                                                         *)
(*                                                                         *)
(* The actors are the warps, each of which owns the features of its        *)
(* threads; thread 0 belongs to warp 0.  The dot product of a row is known *)
(* by what each warp contributes to it.  A weight exp(e) is represented by *)
(* e, a product of weights by the sum of their exponents, and a sum over   *)
(* rows by the function from rows to exponents, so that l and acc say      *)
(* which rows they hold and how each is weighted.  The factor scale, the   *)
(* same for all rows, is left out.                                         *)
(***************************************************************************)
EXTENDS Integers

CONSTANTS
  NumWarps,   \* blockDim.x / 32
  MaxLen,     \* bound: cur_len
  Values,     \* what a warp can contribute to a dot product
  Sum(_),     \* warp_reduce_sum over the cells, in its order of additions
  Lowest      \* -1e30f

Warps == 0 .. NumWarps - 1

ASSUME AttentionAssumption ==
  /\ NumWarps \in Nat \ {0}
  /\ MaxLen \in Nat \ {0}
  /\ Values \subseteq Int
  /\ Lowest \in Int
  /\ \A cells \in [Warps -> Values] : Sum(cells) \in Int /\ Sum(cells) > Lowest

VARIABLES
  cur_len,
  dot,          \* per row, the contribution of each warp
  pc,           \* per warp, the step it takes next
  waiting,      \* per warp, whether it has taken it and waits at the barrier behind
  t,            \* per warp, the loop variable
  sdata,        \* shared: one cell per warp
  s_broadcast,  \* shared
  m, l, acc     \* per warp: running maximum, sum of weights, weighted rows

inputs == <<cur_len, dot>>
vars == <<inputs, pc, waiting, t, sdata, s_broadcast, m, l, acc>>

Steps == {"partial", "broadcast", "update", "done"}

(* Mutant: the barrier of decode_attention.cu:42 left out. *)
no_barrier_after_broadcast == {"partial", "update"}
(* The steps a __syncthreads() follows. *)
Synced == {"partial", "broadcast", "update"}

(* The step that follows s once a warp is done with i rows. *)
Follow(s, i) ==
  CASE s = "partial"   -> "broadcast"
    [] s = "broadcast" -> "update"
    [] OTHER           -> IF i < cur_len THEN "partial" ELSE "done"

(* Shared memory is not initialised. *)
Init ==
  /\ cur_len \in 1 .. MaxLen
  /\ dot \in [0 .. cur_len - 1 -> [Warps -> Values]]
  /\ pc = [w \in Warps |-> "partial"]
  /\ waiting = [w \in Warps |-> FALSE]
  /\ t = [w \in Warps |-> 0]
  /\ sdata \in [Warps -> Values]
  /\ s_broadcast \in Values
  /\ m = [w \in Warps |-> Lowest]
  /\ l = [w \in Warps |-> <<>>]
  /\ acc = [w \in Warps |-> <<>>]

At(w, s) == pc[w] = s /\ ~ waiting[w]

(* Warp w ends step s, with i rows behind it: it goes on or waits. *)
Leave(w, s, i) ==
  IF s \in Synced
  THEN waiting' = [waiting EXCEPT ![w] = TRUE] /\ UNCHANGED pc
  ELSE pc' = [pc EXCEPT ![w] = Follow(s, i)] /\ UNCHANGED waiting

(* __syncthreads(): nobody goes on before everybody has arrived. *)
Barrier ==
  /\ \A w \in Warps : waiting[w]
  /\ waiting' = [w \in Warps |-> FALSE]
  /\ pc' = [w \in Warps |-> Follow(pc[w], t[w])]
  /\ UNCHANGED <<inputs, t, sdata, s_broadcast, m, l, acc>>

(* Each warp's share of the dot product with row t, up to the barrier in *)
(* block_reduce_sum.                                                      *)
Partial(w) ==
  /\ At(w, "partial")
  /\ sdata' = [sdata EXCEPT ![w] = dot[t[w]][w]]
  /\ Leave(w, "partial", t[w])
  /\ UNCHANGED <<inputs, t, s_broadcast, m, l, acc>>

(* Warp 0 combines the cells; thread 0 hands the score to all. *)
Broadcast(w) ==
  /\ At(w, "broadcast")
  /\ s_broadcast' = IF w = 0 THEN Sum(sdata) ELSE s_broadcast
  /\ Leave(w, "broadcast", t[w])
  /\ UNCHANGED <<inputs, t, sdata, m, l, acc>>

(* Mutant: the rows so far keep the weights they had. *)
never_rescaled(f, i, correction, p) == [j \in 0 .. i |-> IF j = i THEN p ELSE f[j]]
(* f over the rows before i, rescaled, with row i of weight p. *)
WithRow(f, i, correction, p) == [j \in 0 .. i |-> IF j = i THEN p ELSE f[j] + correction]

fmax(a, b) == IF a < b THEN b ELSE a

Update(w) ==
  LET s == s_broadcast
      new_m == fmax(m[w], s)
  IN  /\ At(w, "update")
      /\ l' = [l EXCEPT ![w] = WithRow(@, t[w], m[w] - new_m, s - new_m)]
      /\ acc' = [acc EXCEPT ![w] = WithRow(@, t[w], m[w] - new_m, s - new_m)]
      /\ m' = [m EXCEPT ![w] = new_m]
      /\ t' = [t EXCEPT ![w] = @ + 1]
      /\ Leave(w, "update", t[w] + 1)
      /\ UNCHANGED <<inputs, sdata, s_broadcast>>

Finished == (\A w \in Warps : pc[w] = "done") /\ UNCHANGED vars

Next ==
  \/ Barrier \/ Finished
  \/ \E w \in Warps : Partial(w) \/ Broadcast(w) \/ Update(w)

Spec == Init /\ [][Next]_vars

-----------------------------------------------------------------------------
TypeOK ==
  /\ cur_len \in 1 .. MaxLen
  /\ dot \in [0 .. cur_len - 1 -> [Warps -> Values]]
  /\ pc \in [Warps -> Steps]
  /\ waiting \in [Warps -> BOOLEAN]
  /\ t \in [Warps -> 0 .. cur_len]
  /\ sdata \in [Warps -> Values]
  /\ s_broadcast \in Int
  /\ m \in [Warps -> Int]

(* The shared locations a warp's next step reads and writes. *)
Reads(w) ==
  CASE At(w, "broadcast") /\ w = 0 -> {<<"sdata", v>> : v \in Warps}
    [] At(w, "update")             -> {<<"s_broadcast">>}
    [] OTHER                       -> {}

Writes(w) ==
  CASE At(w, "partial")            -> {<<"sdata", w>>}
    [] At(w, "broadcast") /\ w = 0 -> {<<"s_broadcast">>}
    [] OTHER                       -> {}

(* Never may one warp write a shared location another warp may read or write *)
(* at the same time, although every row reuses sdata and s_broadcast         *)
(* (decode_attention.cu:39-52, reduce.cuh:20-36).                            *)
RaceFree ==
  \A v, w \in Warps : v # w => Writes(v) \cap (Reads(w) \cup Writes(w)) = {}

Score(i) == Sum(dot[i])

(* Each warp's slice of the output, acc / l, weighs every row of the cache   *)
(* with the exponential of its own score, relative to the largest, and all   *)
(* slices weigh them alike: the softmax decode_attention.cu:11-13 folds.     *)
AttendsToWholeCache ==
  \A w \in Warps : pc[w] = "done" =>
    \E top \in 0 .. cur_len - 1 :
      /\ \A i \in 0 .. cur_len - 1 : Score(i) <= Score(top)
      /\ l[w] = [i \in 0 .. cur_len - 1 |-> Score(i) - Score(top)]
      /\ acc[w] = l[w]
=============================================================================
