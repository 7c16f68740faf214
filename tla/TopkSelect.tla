------------------------------ MODULE TopkSelect ------------------------------
(***************************************************************************)
(* The kernel of csrc/kernels/topk_select.cu, with the block reductions of *)
(* csrc/include/reduce.cuh it is built on: one thread block picks the k    *)
(* largest magnitudes by bisecting on a threshold.                         *)
(*                                                                         *)
(* The actors are the warps of the block; the threads of a warp run in     *)
(* lockstep, and thread 0 belongs to warp 0.  Between two __syncthreads    *)
(* the warps run freely, so shared memory (sdata, s_lo, s_hi, s_mid) is    *)
(* read and written in steps that interleave.  Floats are integers in      *)
(* units of the smallest difference told apart: a midpoint of neighbours   *)
(* rounds to one of them, and lift is what adding 1e-3f to the maximum     *)
(* changes: Eps, or nothing where the sum rounds back to the maximum.      *)
(***************************************************************************)
EXTENDS Integers, Sequences, FiniteSets, FiniteSetsExt

CONSTANTS
  NumWarps,   \* blockDim.x / 32
  N,          \* the length of vals
  MaxVal,     \* bound: the largest magnitude
  Eps,        \* what adding 1e-3f to the maximum may change it by
  Iters       \* kBisectionIters

ASSUME TopkAssumption ==
  /\ NumWarps \in Nat \ {0}
  /\ N \in Nat \ {0}
  /\ MaxVal \in Nat
  /\ Eps \in Nat \ {0}
  /\ Iters \in Nat \ {0}

Warps == 0 .. NumWarps - 1
Indices == 0 .. N - 1

VARIABLES
  vals, k,      \* the arguments
  lift,         \* the change made by adding 1e-3f
  pc,           \* per warp, the step it takes next
  waiting,      \* per warp, whether it has taken it and waits at the barrier behind
  iter,         \* per warp, the bisection steps it has finished
  mid,          \* per warp, its register copy of s_mid
  total,        \* thread 0's register total_count
  sdata,        \* shared: one cell per warp
  s_lo, s_hi, s_mid,
  out           \* out_indices as far as written, its length *out_count

inputs == <<vals, k, lift>>
shared == <<sdata, s_lo, s_hi, s_mid>>
vars == <<inputs, pc, waiting, iter, mid, total, shared, out>>

(* Mutants: the barrier of topk_select.cu:41, of the reductions, left out. *)
no_barrier_after_mid == {"max", "bounds", "count", "total", "bisect"}
no_barrier_in_reduce == {"max", "bounds", "mid", "total", "bisect"}
(* The steps a __syncthreads() follows. *)
Synced == {"max", "bounds", "mid", "count", "total", "bisect"}

(* The step that follows s once i bisection steps are finished. *)
Follow(s, i) ==
  CASE s = "max"    -> "bounds"
    [] s = "bounds" -> "mid"
    [] s = "mid"    -> "load"
    [] s = "load"   -> "count"
    [] s = "count"  -> "total"
    [] s = "total"  -> "bisect"
    [] s = "bisect" -> IF i < Iters THEN "mid" ELSE "scan"
    [] OTHER        -> "done"

-----------------------------------------------------------------------------
Init ==
  /\ vals \in [Indices -> 0 .. MaxVal]
  /\ k \in 1 .. N
  /\ lift \in {0, Eps} /\ (lift = 0 => \E i \in Indices : vals[i] > 0)
  /\ pc = [w \in Warps |-> "max"]
  /\ waiting = [w \in Warps |-> FALSE]
  /\ iter = [w \in Warps |-> 0]
  /\ mid = [w \in Warps |-> 0]
  /\ total = 0
  /\ sdata = [w \in Warps |-> 0]
  /\ s_lo = 0 /\ s_hi = 0 /\ s_mid = 0
  /\ out = <<>>

At(w, s) == pc[w] = s /\ ~ waiting[w]

(* Warp w ends step s: it goes on, or waits for the others. *)
Leave(w, s) ==
  IF s \in Synced
  THEN waiting' = [waiting EXCEPT ![w] = TRUE] /\ UNCHANGED pc
  ELSE pc' = [pc EXCEPT ![w] = Follow(s, iter'[w])] /\ UNCHANGED waiting

(* __syncthreads(): nobody goes on before everybody has arrived. *)
Barrier ==
  /\ \A w \in Warps : waiting[w]
  /\ waiting' = [w \in Warps |-> FALSE]
  /\ pc' = [w \in Warps |-> Follow(pc[w], iter[w])]
  /\ UNCHANGED <<inputs, iter, mid, total, shared, out>>

Own(w) == {i \in Indices : i % NumWarps = w}

(* Each warp's maximum over its strides, up to the barrier in block_reduce_max. *)
LocalMax(w) ==
  /\ At(w, "max")
  /\ sdata' = [sdata EXCEPT ![w] = Max({0} \cup {vals[i] : i \in Own(w)})]
  /\ UNCHANGED <<inputs, iter, mid, total, s_lo, s_hi, s_mid, out>>
  /\ Leave(w, "max")

(* Warp 0 combines the cells; thread 0 sets the bounds. *)
Bounds(w) ==
  /\ At(w, "bounds")
  /\ IF w = 0
     THEN s_lo' = 0 /\ s_hi' = Max({sdata[v] : v \in Warps}) + lift
     ELSE UNCHANGED <<s_lo, s_hi>>
  /\ UNCHANGED <<inputs, iter, mid, total, sdata, s_mid, out>>
  /\ Leave(w, "bounds")

Mid(w) ==
  /\ At(w, "mid")
  /\ s_mid' = IF w = 0 THEN (s_lo + s_hi) \div 2 ELSE s_mid
  /\ UNCHANGED <<inputs, iter, mid, total, sdata, s_lo, s_hi, out>>
  /\ Leave(w, "mid")

LoadMid(w) ==
  /\ At(w, "load")
  /\ mid' = [mid EXCEPT ![w] = s_mid]
  /\ UNCHANGED <<inputs, iter, total, shared, out>>
  /\ Leave(w, "load")

(* Each warp's count over its strides, up to the barrier in block_reduce_sum. *)
LocalCount(w) ==
  /\ At(w, "count")
  /\ sdata' = [sdata EXCEPT ![w] = Cardinality({i \in Own(w) : vals[i] >= mid[w]})]
  /\ UNCHANGED <<inputs, iter, mid, total, s_lo, s_hi, s_mid, out>>
  /\ Leave(w, "count")

(* The sum of the cells, counted unit by unit. *)
SumOf(cells) == Cardinality(UNION {{v} \X (1 .. cells[v]) : v \in Warps})

Total(w) ==
  /\ At(w, "total")
  /\ total' = IF w = 0 THEN SumOf(sdata) ELSE total
  /\ UNCHANGED <<inputs, iter, mid, shared, out>>
  /\ Leave(w, "total")

(* Mutants: the wrong comparisons for keeping the lower bound. *)
more_than_k(n) == n > k
fewer_than_k(n) == n <= k
KeepsLo(n) == n >= k

(* Mutant: the loop variable is not advanced. *)
never_counts(i) == i
NextIter(i) == i + 1

Bisect(w) ==
  /\ At(w, "bisect")
  /\ iter' = [iter EXCEPT ![w] = NextIter(@)]
  /\ s_lo' = IF w = 0 /\ KeepsLo(total) THEN mid[w] ELSE s_lo
  /\ s_hi' = IF w = 0 /\ ~ KeepsLo(total) THEN mid[w] ELSE s_hi
  /\ UNCHANGED <<inputs, mid, total, sdata, s_mid, out>>
  /\ Leave(w, "bisect")

Rank(S, i) == Cardinality({j \in S : j < i})

(* The first k members of S, in ascending order. *)
FirstK(S) == [p \in 1 .. Min({k, Cardinality(S)}) |-> CHOOSE i \in S : Rank(S, i) = p - 1]

Scan(w) ==
  /\ At(w, "scan")
  /\ out' = IF w = 0 THEN FirstK({i \in Indices : vals[i] >= s_lo}) ELSE out
  /\ UNCHANGED <<inputs, iter, mid, total, shared>>
  /\ Leave(w, "scan")

WarpStep(w) ==
  \/ LocalMax(w) \/ Bounds(w) \/ Mid(w) \/ LoadMid(w)
  \/ LocalCount(w) \/ Total(w) \/ Bisect(w) \/ Scan(w)

Done == \A w \in Warps : pc[w] = "done"

Finished == Done /\ UNCHANGED vars

Next == Barrier \/ Finished \/ \E w \in Warps : WarpStep(w)

Fairness == WF_vars(Barrier) /\ \A w \in Warps : WF_vars(WarpStep(w))

Spec == Init /\ [][Next]_vars /\ Fairness

-----------------------------------------------------------------------------
(* The shared locations a warp's next step reads and writes. *)
Reads(w) ==
  CASE At(w, "bounds") /\ w = 0 -> {<<"sdata", v>> : v \in Warps}
    [] At(w, "total") /\ w = 0  -> {<<"sdata", v>> : v \in Warps}
    [] At(w, "mid") /\ w = 0    -> {<<"s_lo">>, <<"s_hi">>}
    [] At(w, "load")            -> {<<"s_mid">>}
    [] At(w, "scan")            -> {<<"s_lo">>}
    [] OTHER                    -> {}

Writes(w) ==
  CASE At(w, "max") \/ At(w, "count")               -> {<<"sdata", w>>}
    [] (At(w, "bounds") \/ At(w, "bisect")) /\ w = 0 -> {<<"s_lo">>, <<"s_hi">>}
    [] At(w, "mid") /\ w = 0                         -> {<<"s_mid">>}
    [] OTHER                                         -> {}

(* Never may one warp write a shared location another warp may read or write *)
(* at the same time: what the barriers of topk_select.cu:28-60 and           *)
(* reduce.cuh:20-63 are for, across the reuse of sdata by every iteration.   *)
RaceFree ==
  \A v, w \in Warps : v # w => Writes(v) \cap (Reads(w) \cup Writes(w)) = {}

Largest == Max({vals[i] : i \in Indices})
CountAtLeast(t) == Cardinality({i \in Indices : vals[i] >= t})

(* "maintaining count(>=lo) >= k, count(>=hi) < k" (topk_select.cu:30-31): a *)
(* count assembled from two thresholds or a stale cell would break it.  Only *)
(* where the maximum swallows the 1e-3f may the first upper bound fail it.   *)
Bracketed ==
  ~ (pc[0] = "max" \/ At(0, "bounds"))
  => /\ CountAtLeast(s_lo) >= k
     /\ CountAtLeast(s_hi) < k \/ (lift = 0 /\ s_hi = Largest)

(* All k slots are written, in ascending index order: ops.py:151-158 drops   *)
(* the count and hands the uninitialized tensor of bindings.cpp:507-518 on   *)
(* to the row gather, whose order is the order of summation.                 *)
SelectionComplete ==
  Done => /\ Len(out) = k
          /\ \A p, q \in 1 .. k : p < q => out[p] < out[q]

Kth == Max({t \in 0 .. MaxVal : CountAtLeast(t) >= k})
Selected == {out[p] : p \in DOMAIN out}

(* When the upper bound began above the maximum, the bisection has told all  *)
(* values apart and the k-th largest is not tied with a value left out, the  *)
(* selection is the set of the k largest                                     *)
(* (tests/test_m7_kernels.py:51-54).                                         *)
SelectsLargest ==
  Done /\ s_hi - s_lo <= 1 /\ lift > 0 /\ CountAtLeast(Kth) = k
  => Selected = {i \in Indices : vals[i] >= Kth}

(* Nothing is selected that a resolution of (max + lift) / 2^Iters tells from *)
(* the k-th largest: what rounding each midpoint down leaves of the bound,   *)
(* also for a maximum that 1e-3f does not change (topk_select.cu:26).        *)
SelectedNearKth ==
  Done => \A i \in Selected : (Kth - vals[i]) * 2^Iters <= Largest + lift + 2^Iters

(* The output is "a pure, deterministic function of the input"               *)
(* (topk_select.cuh:17-19): whatever the interleaving of the warps, it is    *)
(* that of one thread running the bisection alone.                           *)
SequentialBounds[i \in Nat] ==
  IF i = 0
  THEN <<0, Largest + lift>>
  ELSE LET b == SequentialBounds[i - 1]
           m == (b[1] + b[2]) \div 2
       IN  IF CountAtLeast(m) >= k THEN <<m, b[2]>> ELSE <<b[1], m>>

ScheduleIndependent ==
  Done => out = FirstK({i \in Indices : vals[i] >= SequentialBounds[Iters][1]})

(* The block finishes: no warp is left at a barrier the others do not reach. *)
Terminates == <>Done

(* topk_select.cuh:15-16 and topk_select.cu:63-64 say that the indices       *)
(* "> tau" are written "unconditionally" and those "== tau until k slots are *)
(* filled"; asked only where the bisection told all values apart.            *)
AboveTauSelected ==
  Done /\ s_hi - s_lo <= 1 /\ lift > 0 => \A i \in Indices : vals[i] > Kth => i \in Selected
=============================================================================
