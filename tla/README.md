# Formal model of soinfer

soinfer decodes a language model whose INT4 weights live in pinned host memory
and stream to the GPU layer by layer while it computes. This directory models
the parts of it in which something can go wrong that a test hardly reaches:
the overlap of transfers and kernels, the token loops and what they keep
between tokens, the block-wide selection and attention kernels, the sparse MLP
with its cache, the planning and filling of the pinned arena, the packed codes
and the kernels that read them, and what the scripts of `bench/` compute of
cache policies, weight formats, bytes per token and overlap. Paths below are
relative to `src/`; `generate.py`, `stream_manager.py`, `hot_cache.py`, ...
stand for the files under `python/soinfer/`.

TLC checks every run listed here; TLAPS checks every theorem in the modules
`*Proofs` and in `NumberLemmas`. To repeat one:

    tlc -config MCWeightPipeline.cfg MCWeightPipeline
    tlapm WeightPipelineProofs.tla

## 1. Inventory

| Component | Source | State | Operations |
|---|---|---|---|
| StreamManager | `offload/stream_manager.py` | two copy streams; per buffer index a "copied" and a "read done" event | `prefetch`, `wait`, `mark_read_done`, `synchronize` |
| WeightPipeline | `runtime/generate.py:84-138` | two device buffers, the buffer and the weight that come next, the cyclic sequence of names | `__init__` (primes), `next_gemv` |
| Decode loop, KV cache | `runtime/generate.py:430-645`, `csrc/kernels/kv_cache.cu` | position, tokens, K and V cache per layer | `generate_streaming`, `generate_dip`, `generate_cached_dip`, `calibrate_*`, `teacher_forced_nll` |
| DIP and cached DIP layers | `runtime/generate.py:201-404`, `csrc/kernels/gather_rows.cu`, `gemv_dip_fused.cu` | pinned staging buffers, device row buffers, descriptors and miss list, histogram, trace, miss bytes | select, gather, describe, sparse GEMVs |
| Top-k selection | `csrc/kernels/topk_select.cu`, `csrc/include/reduce.cuh` | shared memory of one thread block | one kernel: bisection on a threshold, then a scan |
| PinnedWeightStore | `offload/weight_store.py` | arena, handles, write offset | allocation, `register`, `row_view`, `rows_view`, `matrix_view` |
| Checkpoint loader | `offload/load_hf_checkpoint.py`, `runtime/loader.py` | matrices by name, tensors moved to the GPU, the model | `plan_arena_bytes`, `stream_load_layers`, `load_streaming_model` |
| HotCache | `offload/hot_cache.py:220-315` | hot channels per layer, their slots, their rows on the GPU | `build` (once) |
| Cache policies | `offload/hot_cache.py:1-218` | per policy the cached channels, recency or frequency | `simulate` of static, LRU, LFU with decay; `compare_policies` |
| INT4 packing, quantization | `quant/` | none; `quantize_model` writes a model in place | `quantize` and `dequantize` of five formats, scales, `pack_int4`, `unpack_int4`, AWQ order |
| Decode attention | `csrc/kernels/decode_attention.cu`, `csrc/include/reduce.cuh` | shared memory of one block; per thread a running maximum, sum and output | one kernel: a row of the cache at a time |
| GEMV kernels | `csrc/kernels/gemv_*.cu`, `dequant.cuh` | an accumulator per lane or thread | one kernel each |
| RMSNorm, softmax, RoPE, SwiGLU kernels | `csrc/kernels/` | none beyond the block's shared memory | one kernel each |
| Bindings | `csrc/bindings.cpp`, `ops.py` | none | argument checks, allocation of outputs |
| Report scripts | `bench/bench_m3_perplexity.py`, `bench_m7_pareto.py`, `bench_m8_*.py`, `bench_m9_ablation_matrix.py`, `analyze_nsys_overlap.py` | rows of a table, the model in its present format, intervals of a trace | format sweep, byte tables, policy comparison, overlap of a profile |
| Timing scripts, plots, notebooks | the rest of `bench/`, `reports/`, `notebooks/` | none | wall-clock measurements, figures |

**How they interact.** The loader sizes one pinned arena, packs every matrix
and registers it with the store; the pipeline and the DIP layers only read the
store. A decode loop builds one WeightPipeline over the model's one
StreamManager and calls `next_gemv` for every dense matrix of a layer. The
calls enqueue work and return: the default stream waits on "copied", runs the
GEMV and records "read done"; the copy stream of the other buffer waits on its
"read done", copies the next weight and records "copied". A DIP layer streams
the attention matrices and the gate through the pipeline, selects `dip_k`
channels on the GPU, brings the selection back to the host, gathers the rows
it needs from the arena through a pinned staging buffer, and runs two sparse
GEMVs over staged and cached rows. Calibration runs the same layers and
collects the histogram and the trace that decide what HotCache holds and what
the policies are simulated on. The scripts call all of these in a fixed order
and divide the counters they find by the tokens they believe were served.

**What is hard.** Three streams progress on their own and are tied together
only by events that are overwritten when recorded again; the host runs far
ahead of all of them. The last pass of a decode loop runs every layer of the
last token with nothing synchronising behind it (`generate.py:460-463`), so
the next pipeline starts over the unfinished work of its predecessor. Warps of
one block share memory between barriers. Threads of one kernel are served by an
`atomicAdd` in any order. The host refills staging memory that asynchronous
copies read. Plan and load compute the same sizes in two different ways. The
cache policies mix hits and misses of one token, below and above the cache's
size. Counters add up over the calls of a script, a format is applied to a
model in place, and the intervals of a profile nest. Nothing is persisted and nothing is retried, so crash recovery and lost
messages are no concern of this code.

**What makes each part correct.**

- Pipeline: no transfer writes a block that is read or written elsewhere; each
  GEMV reads a whole copy of the weight its call named; GEMVs finish in call
  order and each one does; the next transfer is not held back by the current
  call; what a dropped pipeline left queued is over before its memory matters.
- Top-k: no shared-memory race, the bisection keeps its bracket, exactly `k`
  indices come out in ascending order, near the k-th largest magnitude and the
  same for every schedule.
- Decode loops: what is drawn or scored depends on every token before it, at
  its position, and on each matrix in its role; a call fails only for want of
  cache rows; it ends with the first end-of-sequence token it drew or with its
  budget, and leaves its pipeline between two passes.
- Attention kernel: no shared-memory race although every row reuses the same
  cells; every slice of the output is the softmax over all rows.
- Packing and GEMVs: unpacking undoes packing; each code meets its own scale,
  which is there, and the factor at its position once, whatever is left over a
  word, a group, a chunk or a round of the warp; words are loaded where words
  are aligned.
- Formats: no weight moves by more than its format allows, and each row of a
  sweep measures the loaded model under one format.
- DIP layers: the sparse GEMVs read the rows of the selected channels of their
  own layer, with their scales, in the order of the selection; staging memory is
  not rewritten under a pending copy; bytes reported are bytes transferred; histogram and
  trace agree.
- Store and loader: registered rows read back as they were written whatever is
  registered later; the planned arena suffices and ends up full; a model that
  is handed out is complete, finds its scales, and has the row lengths the
  kernels are called with.
- Policies: LRU has hits for exactly what it holds and holds what was used last,
  LFU what was used most, across tokens that churn the whole cache; a larger LFU
  cache never has fewer hits (a larger LRU cache may: finding 5); the static
  policy is the best fixed set.
- Reports: a row says of bytes what the measured call transferred; the overlap
  and the idle time of a profile count every instant once.

## 2. The modules

| Module | Models | Composed from |
|---|---|---|
| `StreamManager` | streams, events, copies and GEMVs as the CUDA runtime runs them; the three methods as functions of what was issued | |
| `WeightPipeline` | the host program over it: construction, `next_gemv`, one pipeline after the other | EXTENDS `StreamManager`, INSTANCE `WeightStream` |
| `WeightStream` | abstract: calls name weights, GEMVs complete in call order | |
| `WeightPipelineProofs` | theorems about `WeightPipeline`: refinement, overlap, priming, dropped pipelines | EXTENDS `WeightPipeline`, TLAPS |
| `DecodeLoop` | the token loops, the decoder layers, the K and V caches | |
| `DecodeAttention` | the attention kernel, warp by warp | |
| `DecodeLoopProofs` | theorems about `DecodeLoop` | EXTENDS `DecodeLoop`, `NumberLemmas` |
| `QuantGemv` | packing and the kernels that walk a matrix | |
| `KernelProofs` | theorems about `DecodeAttention` and `QuantGemv` | EXTENDS both, `NumberLemmas` |
| `TopkSelect` | the selection kernel, warp by warp | |
| `TopkSelectProofs` | theorems about `TopkSelect` | EXTENDS `TopkSelect`, `NumberLemmas` |
| `WeightStore` | the pinned arena, its handles and views | |
| `WeightLoader` | plan, quantize, pack, register, move the rest to the GPU, build the model | EXTENDS `WeightStore` |
| `WeightLoaderProofs` | theorems about the arena and its plan | EXTENDS `WeightLoader`, `NumberLemmas` |
| `DipMlp` | the MLP half of both DIP layers, with HotCache and the calibration counters | |
| `DipMlpProofs` | theorems about `DipMlp` | EXTENDS `DipMlp`, `NumberLemmas` |
| `HotCachePolicies` | the policy simulations, all sizes fed with one trace | |
| `Rationals` | exact fractions, and rounding half to even | |
| `FormatSweep` | the weight formats, their scales, and the perplexity sweep over them | EXTENDS `Rationals` |
| `Ablation` | the byte tables of three scripts | EXTENDS `HotCachePolicies`, `Rationals` |
| `OverlapReport` | the intervals of a profile, merged and intersected | |
| `Benchmarks` | one script at a time | EXTENDS `Ablation`, `FormatSweep`, `OverlapReport` |
| `BenchmarksProofs` | theorems about the policies and the scripts | EXTENDS `Benchmarks`, `NumberLemmas` |
| `NumberLemmas` | induction over the natural numbers, and places in a finite set | TLAPS |
| `MC*` | values of constants for TLC | |

### StreamManager and WeightPipeline

The host's side is one value, `issued`: a log of entries per stream, and per
event the version recorded last. `prefetch`, `wait` and `mark_read_done` are
functions from what was issued to what is issued, entry by entry in the order
of the code. Events are versioned because a CUDA event is reused: a wait
captures the version recorded last *when it is issued*, and version 0 is the
event that was never recorded, on which a wait is a no-op.

The device's side is `head`, `busy`, `done`, `mem` and `outputs`. A stream
passes waits, reaches records and runs copies and GEMVs in its own order; both
of these take two steps, and a block under copy holds `Torn`, so that
reading half a transfer is a state of the model. `outputs` collects what each
GEMV found when it ended.

`WeightPipeline` keeps `bufs`, `cur_buf` and `cur_name` as the class does.
`next_gemv` is one action: wait, launch, mark, prefetch into the other buffer,
move on. `NewPipeline` is the constructor of the next decode call: new buffers
from the allocator, a cycle started anew, a priming prefetch, and the events,
the queued work and the unconsumed last prefetch of its predecessor left in
place. It is enabled anywhere in a pass: decode loops end between passes, but
an exception of a layer leaves one half-way. `.item()`
on the logits, which holds the host back between tokens, is left out: the model
has every behaviour with it and more, and the last pass of a call has none.
`Allocations` is what the caching allocator may hand out. `DroppedBuffersQuiet`
is about the memory a dropped pipeline gives back while its last prefetch is
still queued: it says how far the next pipeline must be for that to be over,
and thereby when a tensor of the next call may safely own that block.

### DecodeLoop

`WeightStream`, which `WeightPipeline` implements, is the promise made to the
loops. One action per step of a loop: `Begin` a call, `EmbedNext`, one
`RunLayer` per layer (projections, append to the caches, attention, MLP),
`EndInput`, `Draw`, `Score`, `EndLoop`, and the exceptions `AppendRaises` and `DrawRaises`. The
three `generate_*` functions, `teacher_forced_nll` and the two `calibrate_*`
are one action system, told apart by `call`; the three layer functions
(dense, DIP, cached DIP) differ in the matrices a layer draws from the pipeline
and in where the rows of the rest come from.

A hidden state is the record of what it was computed from, so that it equals
another only if the same computation led to both. `pipeline` is what
`WeightPipeline` promises, and nothing more: `next_gemv` takes no name, each
call gets the next matrix of the cycle, whatever the layer meant to ask for.
`Hidden` is the definition the loops are held against, the whole sequence at
once with no cache and no pipeline. A scoring call may run over the pipeline of
an earlier one, which its caller holds; `pipeline.whole` says whether that one
stood at the start of a pass, as it does unless the earlier call raised.

### DecodeAttention

The actors are warps, as in `TopkSelect`; a step of a warp is the code between
two barriers, and `Barrier` lets all warps go on. A dot product is known by
what each warp contributes, and `Sum`, the reduction over the cells, is a
constant: nothing depends on the order in which floats are added. A weight
`exp(e)` is represented by `e`, a product of weights by the sum of exponents,
and a sum over rows by the function from rows to exponents, so that `l` and
`acc` say which rows they hold and how each is weighted. Shared memory starts
with any content.

### QuantGemv

`Pack` lays the rows out as bytes, `WarpIteration` is one round of every warp's
loop (and of the thread-per-row baseline `gemv_fp16_v1`), `ColumnIteration` one
round of the column kernels, `Write` the tail loop of `gemv_w8a16` and the end. A word is its eight nibbles; the dequantizations
are computed on them as the code does, shift by shift and with the arithmetic
on halves that the masked nibble stands for. Products are not computed: an
accumulator is the sequence of its terms, each a code, the scale it was given
and the position of its other factor, so that a term dropped, doubled or taken
from the padding shows. `Accepted` is what the bindings let through: the scale
tensor has a row for each row of the matrix or one for all, and a column for
each group or, for `gemv_w8a16`, a single one whatever `group_size` is
(`bindings.cpp:251-256`). The scale array is flat, so that an index past a row's
last scale finds the next row's, or what lies behind the array; launches that
get there have `TooFewScales`, and `gemv_scales` is about them. A load of a word
off a word boundary ends the kernel in the stage `fault`.

### TopkSelect

The actors are warps; between two `__syncthreads` they run freely, and one
step of a warp ends at the barrier behind it. The variables are the block's
shared memory and the registers that survive a barrier. Floats are integers
in units of the smallest difference told apart, so that midpoints round and
values tie. `lift` is what adding `1e-3f` to the maximum comes to: `Eps`, or
nothing where the maximum is so large that the sum rounds back to it.
`Barrier` lets all warps pass once all have arrived.

### WeightStore and WeightLoader

The arena is a function from byte offsets to what was written there: byte `j`
of row `r` of matrix `m`. `Allocate` pins it, `register` is the method with its
two error paths, and the three views reshape it. The loader is the
composition: `Plan` sizes the arena from the shapes, `Load` quantizes (padding
to whole groups), packs and registers the next matrix, `load_small_to_gpu`
moves the tensors that stay on the GPU, and `StreamingModel` puts the model
together. Any one tensor may be missing from the checkpoint: a matrix is noticed
by the plan (`PlanRaises`), one of the others only after the streaming
(`SmallRaises`); `RegisterRaises` is the exception of `register`. Packing is
modelled by the lengths it produces.

### DipMlp

The host goes through select, fetch, gather up, gather down, launch; the stream
is a queue it executes in order; the descriptor kernel takes one step per
thread, in any order, so that the miss list comes out in any permutation.
Rows are pairs of layer and channel, and so are rows of scales: these stay on the
device and are picked by index apart from the rows (`StagingScale` from the miss
list or the selection, `CacheScale` when the cache was built), and a GEMV takes
both through the descriptor. Both layer functions are one model, told
apart by `cached`: without a cache the whole selection is gathered and the
histogram and the trace are updated. Memory that `torch.empty` returned is
`Unset`. `picked` and `copied` record what the device did, for the properties.

### HotCachePolicies

A step feeds one token's selection to LRU and LFU of every size at once. LRU
finds all hits of the token before it inserts the misses in ascending order;
LFU serves the channels one by one, counts before it evicts, and decays at the
end of a token. The static policy is a function of the trace.

### Benchmarks: FormatSweep, Ablation, OverlapReport

The scripts share nothing but the modules they use, so `Benchmarks` runs one of
them at a time.

`FormatSweep` computes on exact rationals. A format is its width and its
granularity (tensor, channel, group, block of 32, or a block whose scale is
rounded to a power of two); `quantize` and `dequantize` are functions of a
matrix, `fake_quantize_linear_layers` of a model. The sweep goes through the
ten formats of `bench_m3_perplexity.py`, and the perplexity of a model is known
by the weights it was measured with.

`Ablation` has a script as the sequence of its calls into the runtime
(calibrate, build a cache, score, warm up, measure) and executes it call by call
and token by token. Of a row only the bytes are kept. `miss_bytes` adds up as
the layers add it up; `transferred` counts what the measured call moved, and
a row is held against it.

`OverlapReport` draws the intervals of copies and kernels, merges each kind and
intersects the two merged lists with two pointers, as the script does.

## 3. What the runs show

| Run | Checks | Bounds |
|---|---|---|
| `pipeline` | `TypeOK`, `NoTransferConflict`, `GemvReadsItsWeight`, `NextTransferOverlaps`, `PrimedAhead`, `DroppedBuffersQuiet`, refinement `WeightsInOrder` | 3 weights a pass, 6 calls, 2 pipelines, buffers at reused or fresh blocks |
| `pipeline_reuse` | `NoTransferDuringRead` violated | 1 weight a pass, so that every pipeline ends behind whole passes; the two blocks may be swapped |
| `decode` | `LogitsSeeWholePrefix`, `ReturnsBetweenPasses`, `EndsAtEosOrBudget`, `FailsOnlyPastCapacity`, `ScoresEveryNextToken`, no deadlock | 2 layers, caches of 3 rows, 2 tokens, inputs of up to 4 tokens, `n_new` up to 2, any number of calls |
| `kernels` | `RaceFree`, `AttendsToWholeCache` of the attention kernel; `ProductExact`, `UnpackRestores`, `LoadsAligned` of the GEMVs; no deadlock | one launch at a time; attention: 2 warps, up to 3 rows, contributions -1 and 2; GEMVs: 8 kernels, up to 2 rows of 1, 8, 13, 16, 23 or 33 codes, groups of 4, 6, 8, 16, 2 lanes, 3 chunks, codes in arithmetic progression modulo 16 with every start and seven steps, scale tensors of every shape accepted |
| `gemv_scales` | `ScalesInRow` violated | as the GEMVs of `kernels`, with rows of 8 codes and groups of 4 |
| `topk` | `RaceFree`, `Bracketed`, `SelectionComplete`, `SelectsLargest`, `SelectedNearKth`, `ScheduleIndependent`, `Terminates`, no deadlock | 2 warps, all inputs of 4 values in 0..4, every k, 2 bisection steps, `lift` 0 or `Eps` |
| `topk_ties` | `AboveTauSelected` violated | the same |
| `loader` | `RowsIntact`, `PlanFitsWholeGroups`, `LoadedModelServes` | 2 layers, 2 matrices and the transposed one, dimensions 1, 2, 4, 8, groups of 2 and 4, two values to a byte, any one tensor missing |
| `loader_ragged` | `PlanIsExact` violated | the same without dimension 8 |
| `dip` | `ReadsSelectedRows`, `StagingNotInFlight`, `ReportedBytesMatch`, `OnlyMissesTransferred`, `CountsMatchTrace`, no deadlock | 2 layers, 3 channels, 2 selected, 2 tokens, every hot set |
| `benchmarks` | `LruServesMostRecent`, `LfuKeepsFrequent`, `StaticIsBestFixedSet`, `LargerLfuNeverHurts`; `RowsFromPristine`, `ReconstructionBounded`; `RowsMatchTransfers`; `OverlapExact` | policies: 5 channels, 3 selected, sizes 0, 1, 2, 3, 5, 4 tokens, decay every 2; formats: 2 x 3 matrices of the values 0, 2, 5, -9, groups of 3, blocks of 2; bytes: 2 layers of 3 channels, caches of 10 and 60 %, prompt of 1 token, 2 generated; profile: times 0..3, up to 3 copies and 2 kernels |
| `hot_cache_sizes` | `LargerLruNeverHurts` violated | 8 channels, 5 selected, sizes 2 and 3, 5 tokens, each one of five recurring selections |

`TypeOK` is checked by `pipeline` only; the other modules' types show in the
properties, and those of the modules with proofs are part of the inductive
invariants of section 5.

**Why the bounds are enough.** *Pipeline*: three weights on two buffers make a
pass start on either buffer in turn; six calls are two passes, so every buffer
index is reused by both streams several times and the second pipeline starts
over a loaded device. What holds there holds for every number of calls by the
theorems of section 5, as it does for the kernels, loops, layers and the arena
proved about there. *Top-k*: with two iterations every shared cell is
written, read and reused by a later iteration, which is the hazard of the
barriers; four values in five magnitudes tie in every pattern, and `2^2` is
smaller than the range, so the bisection ends both with all values told apart
and without. *Decode*: two layers tell
a weight of the wrong layer; inputs and budget reach below, to and past the
three rows of the caches; calls follow each other without bound. *Attention*:
three rows reuse every cell twice, and the largest score can come first, last
or between, alone or tied. *GEMVs*:
the lengths are shorter than a word, whole words, and ragged past a word, a
group, a round of the two lanes and a chunk; a group of 6 ends inside a word (INT8 takes it only with one scale a row);
the last chunk of three is short or
empty; a second row shows a wrong row stride and a misaligned row. *Loader*: the
dimensions include whole groups, whole words that are no whole groups, and
neither; the missing tensor comes first, last and between. *DIP*: two layers
reuse one staging buffer; with two of three
channels selected a token has no, one or two misses and both thread orders;
the second token finds what the first left in every buffer. *Policies*: the
sizes lie below, at and above the selection size; four tokens include two
decays. *Formats*: in a matrix with a short last block the largest magnitude is
negative, positive, zero, shared by a row, or elsewhere in the tensor, and a
power of two is above and below the scale it stands for. *Bytes*: the
shares round to one, to some and to all channels; a script's calls include every
reset and every one left out. *Profile*: intervals nest, touch, coincide, are
empty, and lie apart.

**Fairness.** `WeightPipeline` assumes weak fairness of each stream: a device
that is not hung executes what is at the head of a stream as soon as its wait is
satisfied. Nothing is assumed of the host, which may stop calling; only what
was issued must finish. `TopkSelect` assumes weak fairness of each warp and of
the barrier, the progress a resident thread block has. The other modules state
no liveness.

**Where deadlock is not checked.** The pipeline's host stops at its bound, a
load ends, the scripts of `benchmarks` end, and so does the launch of
`gemv_scales`. `TopkSelect`, `DipMlp`, the two
modules of `kernels` and `DecodeLoop` are checked for deadlock; the former have
an explicit step at their end (`Finished`, `GemvEnds`), and after a call of
`DecodeLoop` another can begin.

## 4. Findings

1. *Buffers of successive pipelines* (`pipeline_reuse`). The read-done events
   belong to buffer indices and outlive the pipeline, while the blocks behind
   the indices are allocated anew by every decode call. If the new pipeline gets
   the old one's blocks the other way round, its prefetches wait for the
   wrong event and overwrite a block that a queued GEMV still reads. The call
   that precedes it must end without a synchronisation behind its last pass,
   which is how a decode loop ends when `n_new` runs out
   (`generate.py:460-463`). `stream_manager.py:77-79` says the hazard is closed.
2. *Ties in the selection* (`topk_ties`). The scan takes any value that is at
   least the threshold, in index order, so values tied at it can fill the
   slots before a larger one is reached; `topk_select.cu:63-64` says that
   larger ones are taken unconditionally.
3. *Arena plan* (`loader_ragged`). For a row length that is no multiple of
   `group_size` the load registers more than was planned and raises in the
   middle; `load_hf_checkpoint.py:66-68` calls the planned size exact.
4. *Scales of INT8 rows* (`gemv_scales`). `gemv_w8a16` is meant to reject a scale
   tensor with fewer columns than a row has groups, but a single column passes
   with any `group_size` (`bindings.cpp:251-256`): for `K = 8` and
   `group_size = 4` the kernel reads `srow[1]`, the scale of the next row or what
   lies behind the array. `bindings.cpp:48-55` calls that closed, and
   `tests/test_m4_kernels.py:97-101` tries three columns for four groups.
5. *LRU sizes* (`hot_cache_sizes`). LRU finds all hits of a token before it
   inserts the misses, so which channels of a token outlive it depends on which
   were hits, and thereby on the size: a cache of 3 can have fewer hits than one
   of 2. `docs/LEARNING_NOTES.md:1354-1355` claims "larger cache never hurts hit
   rate" of both adaptive policies, and `tests/test_hot_cache.py:161` samples it
   on one cyclic trace. It takes 8 channels and 5 tokens to see it; no trace of
   four tokens of three out of five channels shows it. For LFU it is a theorem.

Met while modelling, and not findings of a run:

- The `torch.cuda.synchronize()` before the sparse GEMVs
  (`generate.py:299`, `388`) is redundant. Copies and GEMVs are on one in-order
  stream, and the next selection's transfer to the host waits for the copies
  before staging is refilled: without the guard in `Launch` every property of
  `dip` still holds.
- The barriers at `topk_select.cu:28` and `:52` order nothing that another
  barrier does not order already; without either, no race appears.
- The token drawn last is run through all layers as well
  (`generate.py:460-463`), so a call with `len(prompt) + n_new` one past
  `max_seq_len` raises at its very end and its tokens are lost.
- An empty prompt raises in the first step of the generation loop, and scoring a
  single token divides by zero.
- A pipeline that the caller of `teacher_forced_nll` holds stays in the middle of
  its pass after an exception, and every later call over it multiplies with the
  wrong matrices. `LogitsSeeWholePrefix` is stated for pipelines that are `whole`.
- The barrier at the end of an iteration (`decode_attention.cu:52`) orders
  nothing that the one inside the next reduction does not; without it no race
  appears.
- `gemv_w8a16.cu:32` reads rows as 32-bit words; with several rows and a row
  length that is no multiple of 4, some of them start off a word boundary. The
  comment at `:49-51` says that the tail loop avoids alignment assumptions; no
  test has such a shape. `LoadsAligned` says that no other kernel and no other
  shape does this.
- Where adding `1e-3f` to the maximum changes nothing (`topk_select.cu:26`), the
  upper bound is not strict, yet nothing is lost: with `lift = 0` every property
  of `topk` still holds.
- Rounding the scale of a block to a power of two (`formats.py`, `mx_e8m0`) may
  cut the largest weight of a block by a factor of up to the square root of 2;
  `ReconstructionBounded` gives that bound, and half a step for the others.
- `hot_cache.py:44-45` says that the order of a selection is unspecified; the
  kernel writes it ascending, which `SelectionComplete` checks.
- LRU inserts a token's misses in ascending order and evicts from the front, so
  that of channels of one token the lower index goes first; `hot_cache.py:23` says
  that every policy breaks ties by the lower index.
- LFU serves a token's channels one at a time, unlike LRU, so that a channel
  cached at the start of a token can be evicted before its own turn in it.

## 5. What is proved

### The pipeline

`WeightPipelineProofs.tla`, for every number of weights, device blocks, calls
and pipelines:

- `TypeCorrect`: `Spec => []TypeOK`.
- `NoConflict`: `Spec => []NoTransferConflict`.
- `ReadsNamedWeight`: `Spec => []GemvReadsItsWeight`.
- `ImplementsWeightStream`: the initial states and the steps of
  `WeightPipeline` map to those of `WeightStream`, or to stutters.

**Assumptions.** `NumBuffersAssumption`, `ContentAssumption` and
`PipelineAssumption`, which say what the constants are. The last three
theorems also assume `StableAllocations`: a block always serves the same
buffer index. The run `pipeline_reuse` shows that they are false without it.

**Argument.** `TypeOK` and the two safety properties are not inductive: they
say nothing of what is queued. The inductive invariant `IInv` describes the
logs. Each log is a sequence of triples (`Lengths`), and `Positions` says where
in them each stream stands. `TransfersOK` gives the shape of a transfer and
says that one whose wait was passed found its event done. `CallsOK` gives the
shape of a call: it waits for the transfer `v` that brought its weight and
records the read-done version `r`, every transfer later than `v` waits for at
least `r` (`Guarded`), and `r` is done only once the call is past
(`RecordsOrdered` keeps versions in call order). `NextPrimed` says that the
transfer issued last brings what the next call names, `ContentOK` that the last
finished transfer of a stream is what its block holds, `OutputsOK` that
finished GEMVs read what their calls asked.

From these, lemma `Handshake` is the heart of it: while a call is between its
wait and its record, no transfer after `v` has passed its own wait, so the
stream stands before that copy. With stable allocations no other stream ever
targets that block. `NoTransferConflict` and `GemvReadsItsWeight` follow; the
proof that steps keep `IInv` has one lemma per action (`TransferKeeps`,
`CallStepKeeps`, `NewPipelineKeeps`, `NextGemvKeeps`), and one step per
conjunct below.

### The attention kernel

`KernelProofs.tla`, for every number of warps and rows, all
contributions and every reduction `Sum` that depends on the cells alone:

- `TypeCorrect`: `Spec => []TypeOK`.
- `NoRace`: `Spec => []RaceFree`.
- `SoftmaxOverCache`: `Spec => []AttendsToWholeCache`.

**Assumption.** `AttentionAssumption`: there is a warp, there is room for a row,
and every score is an integer above the sentinel `Lowest` (`-1e30f`), with
which the running maximum starts.

**Argument.** `IInv` is `TypeOK` and four facts. `Lockstep`: the barriers keep
all warps at one step of one row, where a warp that waits after its update is
one row ahead (`Round`). `CellsOfRow`: from a warp's arrival at the first
barrier to the update, its cell holds its share of the current row.
`BroadcastOfRow`: from thread 0's arrival at the second barrier on, the
broadcast cell holds the score of the row. `RowsSoFar`: what a warp holds after
`t` rows is the softmax of these `t` rows. `RaceFree` follows from `Lockstep`;
lemma `OneMoreRow` is the online recurrence, and there is one lemma per action.

### Overlap of the pipeline

In `WeightPipelineProofs.tla` too, under the same assumptions:

- `IdleIsPrimed`: `Spec => []PrimedAhead`.
- `Overlaps`: `Spec => []NextTransferOverlaps`.
- `DroppedQuiet`: `Spec => []DroppedBuffersQuiet`.

**Argument.** Added to `IInv` are three facts about what was issued.
`EveryReadRecorded`: each read-done version is recorded by some call.
`LastCall`: the call issued last ends in the last version of its buffer, and no
transfer into it waits for that version. `FirstCalls`: the first two calls of a
pipeline wait for its own first transfers, so that compute cannot be past
them while a copy stream still has an entry of an earlier pipeline.

### The decode loops

`DecodeLoopProofs.tla`, for any number of layers, tokens and cache rows, any
inputs and each of the three layer functions: `DecodesTheSequence`
(`LogitsSeeWholePrefix`), `LeavesPassWhole` (`ReturnsBetweenPasses`),
`StopsWhenItShould` (`EndsAtEosOrBudget`), `RaisesOnlyPastCapacity`
(`FailsOnlyPastCapacity`), `ScoresInOrder` (`ScoresEveryNextToken`), under
`DecodeAssumption`.

**Argument.** `Control` says where a call stands: how many tokens are in the
caches, which were fed and which drawn, for each loop and program counter.
`Aligned` says that the place in the cycle of names is the one the layer about
to run begins with, for pipelines that were whole at the start. `Faithful`
says that the caches hold, row by row, what `Hidden` gives for the tokens so
far, and that the value in flight is the next one. `Hidden` is a recursive
function; that the recursion defines one is shown by `SetInduction`.

### The selection kernel

`TopkSelectProofs.tla`, for any number of warps, values, steps and any `k`:
`NoRace` (`RaceFree`), `BoundsBracket` (`Bracketed`), `AllSlotsWritten`
(`SelectionComplete`), `Deterministic` (`ScheduleIndependent`),
`SelectsTheLargest` (`SelectsLargest`), `SelectionIsNear` (`SelectedNearKth`),
under `TopkAssumption`.

**Argument.** `TInv` is lockstep, as in the attention kernel, and `Data`: what
every shared cell holds at every phase. The bounds of a round are those of a
sequential bisection over the same input (`IsRun`), whatever the schedule,
from which the bracket, determinism and the distance to the k-th value
follow; each step halves the distance up to rounding, `Iters` times, by
`SetInduction`. The counts of the warps add up to the count of the block,
because the values split into those of each warp (`CountTotal`, by a bijection).

### Packing and the GEMV kernels

`KernelProofs.tla` too, for every length, group size and number of rows, lanes
and chunks, all codes and each kernel: `UnpackInverts` (`UnpackRestores`),
`OnlyRaggedMisaligned` (`LoadsAligned`) and `EachProductOnce` (`ProductExact`),
under `QuantAssumption`, which says that there are rows, lanes and chunks.
`ProductExact` is claimed of every launch the bindings accept but those with
`TooFewScales`, of which it would be false (finding 4).

**Argument.** `QInv` has the packed array (`Layout`) and what is in the
accumulators at every turn: a lane lists the products of the positions it has
covered (`LanesListed`), a column's thread those of the rows so far
(`ColumnsListed`). That a turn adds the products of its word rests on lemmas
about the data. A nibble of the array is the code `AWQ_ORDER` puts there
(`PackedNibble`, by division with `RowOf`), so both ways to take a word apart
give its codes in order (`WordCodes`); an element's scale is that of its group
if the row has a scale for each group (`ScaleExact`; that a position's group is
one of them is `EnoughScales`), and one scale serves the whole word because groups
are whole words or there is only one (`SameScale`). `Lists` says that a sequence has each
member of a set once, and is kept when disjoint sets are joined
(`ListsTogether`, `JoinLists`). At the end the positions of a row are split
among the lanes of its chunks, without overlap (`LanesDisjoint`,
`ChunksDisjoint`) and without a gap (`AllOwned`): the words by the turns, and what
`gemv_w8a16` leaves over by the tail loop of lane 0.

### The DIP layers

`DipMlpProofs.tla`, for any number of layers, channels, selected channels and
tokens, any hot sets and any order of the threads: `ReadsSelected`
(`ReadsSelectedRows`), `NoStagingOverwrite` (`StagingNotInFlight`),
`BytesReported` (`ReportedBytesMatch`), `MissesOnly` (`OnlyMissesTransferred`)
and `CountsAgree` (`CountsMatchTrace`), under `DipAssumption`.

**Argument.** `MInv` describes what the asynchronous queue has in it for each
place the host can be at (`Queued`), what the threads that ran so far found
(`Described`: a descriptor names a cache slot that holds the row, or a place in
the miss list that names the channel), what the host gathers (`Gathered`), which
buffers hold these rows by now (`Moved`), and that a GEMV at the head of the
queue finds them (`Ready`) and their scales (`Supplied`). A cache slot holds its channel because slots are
the places of the hot channels in ascending order (lemma `Places`); a miss
has a place because fewer threads were served than the list has entries.

The counters need `CInv` on top of it, because they are changed one after the
other while the stream lags behind. `SelectionListed`: once the selection
kernel ran, `idx` lists the last selection of the layer, each channel once
(`Enumerated`). `MissesCounted`: the counter the host fetches is the number of
threads that found no slot. `MissesBilled` and `CopiesBilled` say what was
billed and copied, up to the selection the host is at work on and the copies
still queued; `TracesCounted` what was counted, up to the selection counted and
not yet traced. The sums over layers and tokens change by one summand at a time
(`SumUpdate`).

### The arena

`WeightLoaderProofs.tla`, for all shapes, group sizes and numbers of layers and
matrices: `RowsStayIntact` (`RowsIntact`), `PlanFits` (`PlanFitsWholeGroups`)
and `ModelServes` (`LoadedModelServes`), under `LoaderAssumption` and, for the
last two, `NoneAssumption`, which says that "nothing" is not a tensor's name.

**Argument.** In `LInv`, spans end before `write_offset`, which is within the
arena, and each holds the rows of its matrix. A registration writes behind
them, and division by the row length finds the row and the byte again
(`RowOf`). That a registration has a matrix of known shape to register needs
the order of the load (`Order`) and that the planned size is a number
(`PlannedSize`); both are recursive, a concatenation and a sum, and are shown
by `SetInduction`.

`PlanFitsWholeGroups` compares two sums that the code takes in different ways:
one matrix at a time while it registers, and layer by layer from shapes before.
`FInv` says that `matrices` holds the first names of the order, with what was
made of each (`PlacedOK`), so that `write_offset` is the sum of what they took
(`Taken`); that the arena has the planned size (`SizedOK`), which is the sum of
what the shapes need (`Planned`, lemma `PlanIsSum`); that the tensors on the
GPU are the first of their order and none is the absent one (`SmallOK`); and
that a complete checkpoint of whole groups never fails (`NeverFails`). Each
name is registered once because the order has none twice (`Order`). Whole
groups take what they need (`WholeGroupsUnpadded`), so the next one fits
(`NextFits`). Rows of whole words take at least what they need, and more if
they are padded (`WholeWordsPadded`); since all of them together fit into the
sum of the needs, none is (`SumTight`).

### The cache policies

`BenchmarksProofs.tla`, for any number of channels, selection size, set of cache
sizes, decay period and trace: `LruIsRecent` (`LruServesMostRecent`, an action
property), `LfuIsFrequent` (`LfuKeepsFrequent`), `LargerLfuIsBetter`
(`LargerLfuNeverHurts`) and `StaticIsBest` (`StaticIsBestFixedSet`), under
`PoliciesAssumption`.

**Argument.** The properties are about what a token leaves; the invariants of a
token in progress are `LruHolds` and `LfuHolds`, which a fold over the channels
in ascending order (`AscendingLists`, `FoldsExist`) keeps, one channel at a time.
`LruHolds` says that the list runs from least to most recent, and that nothing
it lacks is more recent than what it holds, but for the misses still to be
inserted (`LruInserts`, `LruTouches`). `LfuHolds` says that a
cache holds all channels seen until it is full, and that at most one cached
channel is less frequent than one left out; evicting the least
frequent puts the newcomer in its place, and halving keeps the order
(`DecayKeeps`).

That larger LFU caches are never worse is not inductive in the hits alone: the
smaller cache has to be a *subset* of the larger after every channel served
(`LfuNests`). If both evict, both evict the same channel, or the larger one
evicts a channel that the smaller does not hold, because the victim is the
least of a total order that does not depend on the size; and the larger one is
full no earlier than the smaller. The subset gives the
hits (`LfuTokensNest`). For LRU the order depends on the size, and this is where
the argument fails (finding 5).

The hits of a fixed set are the sum of the counts of its channels
(`FixedHitsCounted`, two sums exchanged); the hot set has the largest
(`HotSetIsTop`), and any other set of that size is dominated member by member
once what they share is taken away (`HotSetIsBest`, `SumDominated`).

### The scripts

`BenchmarksProofs.tla` too: `FormatsIndependent` (`RowsFromPristine`) and
`EveryFormatBounded` (`ReconstructionBounded`, both under `SweepAssumption`),
`RowsAreMeasured` (`RowsMatchTransfers`, under `AblationAssumption`) and
`OverlapCountsOnce` (`OverlapExact`, under `ReportAssumption`).

**Argument.** *Formats*: `SweepInv` says that the rows are a sequence, of the
formats of the list in order, and that the loaded weights are integers. For one
weight (`CellBounded`) with the largest of its block (`Peaks`), rounding errs by
half a step of the scale (`Rounding`). A linear scale is the peak over `qmax`,
and clamping cuts nothing (`HalfStep`); or it is the smallest scale `1 / Tiny`,
which divides every integer, and the weight comes back exactly (`ExactStep`). A power of two within
`sqrt(2)` of the scale exists, and no more than the scale's own terms have to be
searched for its exponent, by doubling (`PowerBetween`, `NearestPower`). Under it
a weight may be clamped, and `PowerStep` shows that what is left of the peak
after the error is at least the peak over `sqrt(2)`.
*Bytes*: `ToCall` says that in what is left of a script each measured call comes
right behind its warm-up, whose return resets the counters; that the three
scripts are like this is shown from how they are put together (`ScriptsTogether`,
`ScriptsJoined`, `ScriptsAreProper`). `Measured` says what a call has moved in
its first `p` tokens: the closed form times `p`, or the accumulator and the
dense part. A row divides by the tokens that were served, and a miss count that
never exceeds the selection keeps it below DIP alone (`RowMatches`). *Overlap*:
time is a set of instants. Merging keeps what is covered and leaves intervals
with time between them (`Apart`, `MergesOne`), whose durations add up to the
instants they cover (`DurationsCount`). `ReportInv` says that what the two
pointers have counted, and the instants both lists have yet to share, make up
those that copies and kernels share; a turn drops the interval that ends first,
with which nothing later meets (`Passed`, `TurnCounts`).

### Induction

`NumberLemmas.tla` proves induction over the natural numbers for a *set*
rather than a predicate (`SetInduction`), from the library's theorem that strict
inclusion of finite sets is well founded. It takes no operator as a parameter,
and so the provers can use it.

The module also proves what the folds of the community modules do not come
with: that the sum over a finite set exists, does not depend on the order in
which members are taken (`SumAdd`), and how it changes with a member
(`SumUpdate`), over a union, a subset, a larger summand, the values of an
injection, or layers that weigh the same. And it has the recursion behind
`FlattenSeq` (`JoinExists`, `JoinSteps`). `SumOver(f, S)` is, word for word,
what `MapThenSumSet` and `SumFunction` expand to. `GreatestElement` gives a
finite set of numbers its maximum, and `Doubling` the recursion of powers of two.

## 6. Only model-checked

- Liveness: that every issued GEMV finishes (the fairness part of
  `WeightsInOrder`), and `Terminates` of the selection kernel. Liveness under
  fairness is out of the prover's reach.

Every invariant and every safety part of an action property that the passing
runs check is a theorem of section 5, stated there for all values of the
constants.

## 7. Not modelled

- Floating-point accuracy of the kernels, and the kernels that are pure
  arithmetic with one writer per output (RMSNorm, RoPE, SwiGLU, softmax).
- The scale choices `percentile`, `mse_optimal` and `awq_scale` of
  `calibrate.py`, which nothing but tests calls.
- NaN inputs of the selection: no comparison holds for a NaN, the count
  falls short and fewer than `k` indices are written (`ops.py:151-158` drops the
  count). The kernel's contract is non-negative magnitudes.
- Which tensor gets a dropped buffer's block: the model says when the block is
  quiet (`DroppedBuffersQuiet`), not who owns it.
- The windows of `perplexity()`, which scores each one from an empty cache; the
  timing harness and the scripts that only time kernels; the text of tables;
  plots and notebooks.
- The file format of checkpoints, and which shard a tensor comes from.

## 8. Plan

Done: the pipeline, its refinement and its overlap; the decode loops over it;
the selection kernel; the attention kernel; packing and the GEMV kernels; store
and loader; DIP layers with HotCache; cache policies; the report scripts; and
the proofs of section 5.

Left, in this order:

1. The composition of `DecodeLoop` with `WeightPipeline`, in place of the cycle
   of names `DecodeLoop` relies on.
2. `record_stream`, and the tensors of the next call that get the block of a
   dropped buffer.
3. The block reductions of RMSNorm and the online softmax, as further clients of
   the warp model.
