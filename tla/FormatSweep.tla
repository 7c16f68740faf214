------------------------------ MODULE FormatSweep ------------------------------
(***************************************************************************)
(* The weight formats of python/soinfer/quant/formats.py with the min_max  *)
(* scale of calibrate.py, the fake quantization of quantize_model.py, and  *)
(* the sweep of bench/bench_m3_perplexity.py over all formats of one model.*)
(*                                                                         *)
(* Weights are rationals, and arithmetic on them is exact.  The perplexity *)
(* of a model is known by the weights it was computed with.                *)
(***************************************************************************)
EXTENDS Rationals, Sequences, FiniteSets, SequencesExt, FiniteSetsExt

CONSTANTS
  MatrixRows, RowLength,  \* bound: the shape of a matrix
  WeightValues,           \* bound: its values, 2 v for v and 2 v - 1 for -v
  Group128,               \* the group size of the "group128" entry
  Block32,                \* _BLOCK32_GROUP_SIZE
  Tiny                    \* bound: _EPS is 1 / Tiny

ASSUME SweepAssumption ==
  /\ {MatrixRows, RowLength, Group128, Block32, Tiny} \subseteq Nat \ {0}
  /\ WeightValues \subseteq Nat

Cells == (0 .. MatrixRows - 1) \X (0 .. RowLength - 1)

VARIABLES
  pristine_state,  \* per module, its weights as loaded
  module_weights,  \* per module, its weights now
  sweep_rows       \* the rows of the report

sweepVars == <<pristine_state, module_weights, sweep_rows>>

-----------------------------------------------------------------------------
(* quant/formats.py and quant/calibrate.py *)

qmax_for_bits(bits) == 2 ^ (bits - 1) - 1

GroupSize(config) ==
  CASE config.granularity = "group"                   -> Group128
    [] config.granularity \in {"block32", "mx_e8m0"}  -> Block32
    [] OTHER                                          -> RowLength

(* The cells, padding left out, that share the scale of cell c. *)
Block(config, c) ==
  {d \in Cells : /\ config.granularity = "per_tensor" \/ d[1] = c[1]
                 /\ d[2] \div GroupSize(config) = c[2] \div GroupSize(config)}

(* Mutant: the largest value in the place of the largest magnitude. *)
signed_max(w, S) == Largest({<<0, 1>>} \cup {w[d] : d \in S})
amax(w, S) == Largest({<<0, 1>>} \cup {Magnitude(w[d]) : d \in S})

min_max(a, qmax) ==
  IF Less(<<a[1], a[2] * qmax>>, <<1, Tiny>>) THEN <<1, Tiny>> ELSE <<a[1], a[2] * qmax>>

(* p is s but for a factor of at most the square root of 2.  No power of two *)
(* is nearer to s in the logarithm, and none is as near.                     *)
Near(p, s) ==
  LET a == p[1] * s[2]
      b == s[1] * p[2]
  IN  a * a <= 2 * b * b /\ b * b <= 2 * a * a

round_to_pow2(s) ==
  IF Less(<<1, 1>>, s) THEN <<2 ^ (CHOOSE n \in 0 .. s[1] : Near(<<2 ^ n, 1>>, s)), 1>>
                       ELSE <<1, 2 ^ (CHOOSE n \in 0 .. s[2] : Near(<<1, 2 ^ n>>, s))>>

scale(w, config, c) ==
  LET s == min_max(amax(w, Block(config, c)), qmax_for_bits(config.bits))
  IN  IF config.granularity = "mx_e8m0" THEN round_to_pow2(s) ELSE s

clamp(q, qmax) == Max({-qmax, Min({q, qmax})})

quantize(w, config) ==
  [c \in Cells |-> LET s == scale(w, config, c)
                   IN  [scale |-> s,
                        q |-> clamp(RoundHalfEven(<<w[c][1] * s[2], w[c][2] * s[1]>>),
                                    qmax_for_bits(config.bits))]]

dequantize(qt) == [c \in Cells |-> <<qt[c].q * qt[c].scale[1], qt[c].scale[2]>>]

-----------------------------------------------------------------------------
(* quant/quantize_model.py: every Linear but those skipped by name. *)
Modules == {"mlp.up_proj", "lm_head"}
skip_names == {"lm_head", "embed_tokens"}

fake_quantize_linear_layers(m, config) ==
  [name \in Modules |-> IF name \in skip_names THEN m[name] ELSE dequantize(quantize(m[name], config))]

-----------------------------------------------------------------------------
(* bench/bench_m3_perplexity.py *)

format_configs == <<"per_tensor", "per_channel", "group", "block32", "mx_e8m0">>
Configs == [n \in 1 .. 10 |-> [bits |-> IF n <= 5 THEN 8 ELSE 4,
                               granularity |-> format_configs[((n - 1) % 5) + 1]]]

SweepInit ==
  /\ pristine_state = <<>> /\ module_weights = <<>> /\ sweep_rows = <<>>

Signed(n) == IF n % 2 = 0 THEN n \div 2 ELSE -((n + 1) \div 2)

(* The model is loaded, and its perplexity is that of the first row. *)
Baseline ==
  /\ sweep_rows = <<>>
  /\ \E w \in [Cells -> {<<Signed(n), 1>> : n \in WeightValues}] :
       pristine_state' = [name \in Modules |-> w]
  /\ module_weights' = pristine_state'
  /\ sweep_rows' = <<module_weights'>>

(* Mutant: each format is applied to what the last one has left. *)
keep_quantized(m) == m
load_state_dict(m) == pristine_state

SweepStep ==
  /\ Len(sweep_rows) \in 1 .. Len(Configs)
  /\ module_weights' = fake_quantize_linear_layers(load_state_dict(module_weights),
                                                   Configs[Len(sweep_rows)])
  /\ sweep_rows' = Append(sweep_rows, module_weights')
  /\ UNCHANGED pristine_state

Restore ==
  /\ Len(sweep_rows) = Len(Configs) + 1
  /\ module_weights' = load_state_dict(module_weights)
  /\ UNCHANGED <<pristine_state, sweep_rows>>

SweepNext == Baseline \/ SweepStep \/ Restore

-----------------------------------------------------------------------------
(* Each row of the sweep is the perplexity of the model as loaded under that *)
(* one format, with nothing left of the formats before it, and the head as   *)
(* it was (bench_m3_perplexity.py:90-98).                                    *)
RowsFromPristine ==
  Len(sweep_rows) > 1 =>
    /\ Last(sweep_rows)["lm_head"] = pristine_state["lm_head"]
    /\ Last(sweep_rows)["mlp.up_proj"] =
         dequantize(quantize(pristine_state["mlp.up_proj"], Configs[Len(sweep_rows) - 1]))

(* |w - v| for an integer w, as a multiple of 1 / v[2]. *)
Error(w, v) == Magnitude(<<w[1] * v[2] - v[1], 1>>)[1]

(* A format moves a weight by no more than half a step of the largest weight *)
(* that shares its scale; a scale rounded to a power of two may be too small *)
(* for that weight by a factor of sqrt(2), and then cuts it off there.       *)
ReconstructionBounded ==
  Len(sweep_rows) > 1 =>
    LET config == Configs[Len(sweep_rows) - 1]
        w == pristine_state["mlp.up_proj"]
        v == Last(sweep_rows)["mlp.up_proj"]
        peak(c) == Max({Magnitude(w[d])[1] : d \in Block(config, c)})
    IN  \A c \in Cells :
          LET kept == peak(c) * v[c][2] - Error(w[c], v[c])
          IN  IF config.granularity = "mx_e8m0"
              THEN kept >= 0 /\ 2 * kept * kept >= peak(c) * peak(c) * v[c][2] * v[c][2]
              ELSE 2 * Error(w[c], v[c]) * qmax_for_bits(config.bits) <= peak(c) * v[c][2]
=============================================================================
