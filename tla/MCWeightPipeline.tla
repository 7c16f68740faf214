--------------------------- MODULE MCWeightPipeline ---------------------------
(* Three weights per pass, so that the buffer a pass starts on alternates,   *)
(* and two pipelines in a row.                                               *)
EXTENDS WeightPipeline

CONSTANTS m0, m1, m2, m3

MCBlocks == {m0, m1, m2, m3}
MCWeights == 0 .. NumWeights - 1

Place(a, b) == [i \in 0 .. 1 |-> IF i = 0 THEN a ELSE b]

(* Each buffer index always gets its own blocks, reused or fresh. *)
StablePlacements == {Place(m0, m1), Place(m2, m1), Place(m0, m3), Place(m2, m3)}

(* The allocator may also hand the two freed blocks out the other way round. *)
AnyPlacements == {Place(m0, m1), Place(m1, m0)}
=============================================================================
