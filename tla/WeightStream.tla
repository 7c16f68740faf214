----------------------------- MODULE WeightStream -----------------------------
(***************************************************************************)
(* What WeightPipeline promises its caller, with the buffers, the streams  *)
(* and the events left out: calls name weights, and the GEMV of each call, *)
(* in call order and sooner or later, reads exactly the weight that call   *)
(* named.                                                                  *)
(***************************************************************************)
EXTENDS Naturals, Sequences

CONSTANT Weights

VARIABLES
  asked,    \* the weight each call named, in call order
  outputs   \* the weight each finished GEMV read

vars == <<asked, outputs>>

Init == asked = <<>> /\ outputs = <<>>

Ask ==
  /\ \E w \in Weights : asked' = Append(asked, w)
  /\ UNCHANGED outputs

Complete ==
  /\ Len(outputs) < Len(asked)
  /\ outputs' = Append(outputs, asked[Len(outputs) + 1])
  /\ UNCHANGED asked

Next == Ask \/ Complete

Spec == Init /\ [][Next]_vars /\ WF_vars(Complete)
=============================================================================
