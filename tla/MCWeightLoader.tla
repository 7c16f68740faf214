---------------------------- MODULE MCWeightLoader ----------------------------
(* Two matrices per layer and the transposed one; two values to a byte.      *)
EXTENDS WeightLoader

MCSuffixes == <<"up_proj", "down_proj">>
===============================================================================
