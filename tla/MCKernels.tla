------------------------------- MODULE MCKernels -------------------------------
(***************************************************************************)
(* The attention kernel of two warps over three rows, whose reduction adds *)
(* the cells up, or a GEMV: one launch at a time, and the other kernel     *)
(* stays where it begins.                                                  *)
(***************************************************************************)
EXTENDS QuantGemv, DecodeAttention

MCValues == {-1, 2}
MCSum(cells) == FoldFunction(+, 0, cells)
MCLowest == -100

VARIABLE launched

NoAttention ==
  /\ cur_len = 1 /\ dot = [r \in {0} |-> [w \in Warps |-> 2]]
  /\ sdata = [w \in Warps |-> 2] /\ s_broadcast = 2
  /\ Init

NoGemv ==
  /\ N = 1 /\ K = 1 /\ kernel = "fp16_v1"
  /\ codes = [r \in {0} |-> [k \in {0} |-> 0]]
  /\ GemvInit

KernelsInit ==
  \/ launched = "attention" /\ NoGemv /\ Init
  \/ launched = "gemv" /\ NoAttention /\ GemvInit

GemvEnds == stage \in {"done", "fault"} /\ UNCHANGED gemvVars

KernelsNext ==
  \/ launched = "attention" /\ Next /\ UNCHANGED <<launched, gemvVars>>
  \/ launched = "gemv" /\ (GemvNext \/ GemvEnds) /\ UNCHANGED <<launched, vars>>

KernelsSpec == KernelsInit /\ [][KernelsNext]_<<launched, gemvVars, vars>>
=============================================================================
