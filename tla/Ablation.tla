-------------------------------- MODULE Ablation --------------------------------
(***************************************************************************)
(* The tables of bench/bench_m7_pareto.py, bench_m8_ablation.py and        *)
(* bench_m9_ablation_matrix.py: how many bytes per token dense offload,    *)
(* DIP and cache-aware DIP move.  A script is the sequence of its calls    *)
(* into the runtime; of a row only what it says about bytes is kept, and   *)
(* it is held against what the measured call transferred.  Which channels  *)
(* a token selects is the model's affair: any dip_k of them, in any layer. *)
(***************************************************************************)
EXTENDS HotCachePolicies, Rationals

CONSTANTS
  NumLayers,         \* bound
  IntermediateSize,  \* bound: I of the scripts
  CachePercents,     \* bound: CACHE_FRACTIONS
  dense_row_bytes,   \* bytes of q/k/v/o/gate_proj in one layer
  up_row_nbytes, down_row_nbytes,
  CalibTokens, PromptLength, N_GEN_TOKENS  \* bounds

ASSUME AblationAssumption ==
  /\ {NumLayers, IntermediateSize, dense_row_bytes, up_row_nbytes, down_row_nbytes,
      CalibTokens, PromptLength, N_GEN_TOKENS} \cup CachePercents \subseteq Nat \ {0}
  /\ IsFiniteSet(CachePercents)

Layers == 0 .. NumLayers - 1
MlpChannels == 0 .. IntermediateSize - 1

VARIABLES
  todo,           \* the calls the script has yet to make
  passes,         \* tokens the current one has put through the layers
  channel_counts, \* per layer, the histogram of the last calibration
  caches,         \* per layer, the channels in its HotCache
  miss_bytes,     \* per layer
  transferred,    \* what the measured call has moved to the device
  row             \* the last row

ablationVars == <<todo, passes, channel_counts, caches, miss_bytes, transferred, row>>

-----------------------------------------------------------------------------
(* max(1, int(round(I * frac))) *)
Share(num, den) == Max({1, RoundHalfEven(<<IntermediateSize * num, den>>)})

K_FRACTIONS == <<8, 6, 4, 3, 2, 1>>   \* eighths
CacheSizes == [n \in DOMAIN Ascending(CachePercents) |-> Share(Ascending(CachePercents)[n], 100)]

Call(kind, mode, k, size) == [kind |-> kind, mode |-> mode, k |-> k, size |-> size]
Scored(mode, k, size) ==
  <<Call("perplexity", mode, k, size), Call("warmup", mode, k, size), Call("measure", mode, k, size)>>
CachedRow(k, size) == <<Call("build", "cached", k, size)>> \o Scored("cached", k, size)

m7_pareto ==
  Scored("dense", IntermediateSize, 0)
  \o FlattenSeq([n \in 1 .. 6 |-> Scored("dip", Share(K_FRACTIONS[n], 8), 0)])

m8_ablation ==
  LET k == Share(4, 8)
  IN  Scored("dense", IntermediateSize, 0) \o Scored("dip", k, 0)
      \o <<Call("calibrate", "dip", k, 0)>> \o CachedRow(k, CacheSizes[1])

(* The rows of m7_pareto are read back, not measured again. *)
m9_ablation_matrix ==
  FlattenSeq([n \in 1 .. 6 |->
    LET k == Share(K_FRACTIONS[n], 8)
    IN  <<Call("calibrate", "dip", k, 0)>>
        \o FlattenSeq([c \in DOMAIN CacheSizes |-> CachedRow(k, CacheSizes[c])])])

-----------------------------------------------------------------------------
dip_bytes_per_token(k, dense) ==
  LET rows == IF dense THEN IntermediateSize ELSE k
  IN  NumLayers * (dense_row_bytes + rows * up_row_nbytes + rows * down_row_nbytes)

(* The rows a layer gathers for the channels picked. *)
Gathered(call, layer, picks) ==
  CASE call.mode = "dense"  -> IntermediateSize
    [] call.mode = "dip"    -> Cardinality(picks)
    [] call.mode = "cached" -> Cardinality(picks \ caches[layer])
RowBytes(n) == n * (up_row_nbytes + down_row_nbytes)

OverLayers(f) == MapThenSumSet(LAMBDA layer : f[layer], Layers)
NoBytes == [layer \in Layers |-> 0]

AblationInit ==
  /\ todo = <<>> /\ passes = 0
  /\ channel_counts = [layer \in Layers |-> [c \in MlpChannels |-> 0]]
  /\ caches = [layer \in Layers |-> {}]
  /\ miss_bytes = NoBytes /\ transferred = 0
  /\ row = <<>>

RunScript ==
  /\ todo = <<>> /\ row = <<>>
  /\ todo' \in {m7_pareto, m8_ablation, m9_ablation_matrix}
  /\ UNCHANGED <<passes, channel_counts, caches, miss_bytes, transferred, row>>

At(kind) == todo # <<>> /\ Head(todo).kind = kind
Return == todo' = Tail(todo) /\ passes' = 0

Picks == [Layers -> kSubset(Head(todo).k, MlpChannels)]

(* calibrate_channel_frequencies, a token at a time, from a histogram of zeros. *)
Calibrate ==
  /\ At("calibrate") /\ passes < CalibTokens
  /\ \E picks \in Picks :
       channel_counts' = [layer \in Layers |-> [c \in MlpChannels |->
         (IF passes = 0 THEN 0 ELSE channel_counts[layer][c]) + IF c \in picks[layer] THEN 1 ELSE 0]]
  /\ passes' = passes + 1
  /\ UNCHANGED <<todo, caches, miss_bytes, transferred, row>>

EndCalibration ==
  /\ At("calibrate") /\ passes = CalibTokens
  /\ Return
  /\ UNCHANGED <<channel_counts, caches, miss_bytes, transferred, row>>

(* HotCache.build for every layer, from StaticFrequencyPolicy's hot set. *)
BuildCaches ==
  /\ At("build")
  /\ caches' = [layer \in Layers |-> hot_set(channel_counts[layer], Head(todo).size)]
  /\ Return
  /\ UNCHANGED <<channel_counts, miss_bytes, transferred, row>>

(* teacher_forced_nll: nothing is counted. *)
Perplexity ==
  /\ At("perplexity")
  /\ Return
  /\ UNCHANGED <<channel_counts, caches, miss_bytes, transferred, row>>

(* Mutant: one list for all rows of the script. *)
counted_on(m) == m
Fresh(m) == NoBytes

(* The warm-up call counts nothing either; the measured call begins with it returning. *)
WarmUp ==
  /\ At("warmup")
  /\ Return
  /\ miss_bytes' = Fresh(miss_bytes) /\ transferred' = 0
  /\ UNCHANGED <<channel_counts, caches, row>>

(* A token of the prompt, or one just drawn, goes through all layers. *)
MeasuredPass ==
  /\ At("measure") /\ passes < PromptLength + N_GEN_TOKENS
  /\ \E picks \in IF Head(todo).mode = "dense" THEN {[layer \in Layers |-> {}]} ELSE Picks :
       LET moved == [layer \in Layers |-> RowBytes(Gathered(Head(todo), layer, picks[layer]))]
       IN  /\ transferred' = transferred + NumLayers * dense_row_bytes + OverLayers(moved)
           /\ miss_bytes' = IF Head(todo).mode = "cached"
                            THEN [layer \in Layers |-> miss_bytes[layer] + moved[layer]]
                            ELSE miss_bytes
  /\ passes' = passes + 1
  /\ UNCHANGED <<todo, channel_counts, caches, row>>

n_tokens_measured == PromptLength + N_GEN_TOKENS

bytes_per_token(call) ==
  CASE call.mode = "dense"  -> <<dip_bytes_per_token(IntermediateSize, TRUE), 1>>
    [] call.mode = "dip"    -> <<dip_bytes_per_token(call.k, FALSE), 1>>
    [] call.mode = "cached" ->
         <<dip_bytes_per_token(0, FALSE) * n_tokens_measured + OverLayers(miss_bytes), n_tokens_measured>>

AddRow ==
  /\ At("measure") /\ passes = PromptLength + N_GEN_TOKENS
  /\ row' = [call |-> Head(todo), bytes |-> bytes_per_token(Head(todo)),
             moved |-> <<transferred, passes>>]
  /\ Return
  /\ UNCHANGED <<channel_counts, caches, miss_bytes, transferred>>

AblationNext ==
  \/ RunScript \/ Calibrate \/ EndCalibration \/ BuildCaches
  \/ Perplexity \/ WarmUp \/ MeasuredPass \/ AddRow

-----------------------------------------------------------------------------
(* The bytes per token of every row, a closed form for dense offload and DIP *)
(* and an accumulator over the measured call for cache-aware DIP, are what   *)
(* the call moved, and a cache never makes it more than DIP alone            *)
(* (bench_m8_ablation.py:17-24, "instrumented directly").                    *)
RowsMatchTransfers ==
  row # <<>> =>
    /\ row.bytes[1] * row.moved[2] = row.moved[1] * row.bytes[2]
    /\ ~ Less(<<dip_bytes_per_token(row.call.k, FALSE), 1>>, row.bytes)
       \/ row.call.mode = "dense"
    /\ ~ Less(<<dip_bytes_per_token(IntermediateSize, TRUE), 1>>, row.bytes)
=============================================================================
