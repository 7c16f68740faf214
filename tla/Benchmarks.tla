------------------------------- MODULE Benchmarks -------------------------------
(***************************************************************************)
(* The scripts of bench/ that compute what the project reports: the cache  *)
(* policies over a trace (bench_m8_hot_cache.py), the quantization formats *)
(* (bench_m3_perplexity.py), bytes per token (bench_m7_pareto.py,          *)
(* bench_m8_ablation.py, bench_m9_ablation_matrix.py) and the overlap of a *)
(* profile (analyze_nsys_overlap.py).  One script runs at a time.          *)
(***************************************************************************)
EXTENDS Ablation, FormatSweep, OverlapReport

VARIABLE script

vars == <<script, policyVars, sweepVars, ablationVars, reportVars>>

Init ==
  /\ script \in {"hot_cache", "perplexity", "bytes", "overlap"}
  /\ PoliciesInit /\ SweepInit /\ AblationInit /\ ReportInit

HotCacheScript ==
  script = "hot_cache" /\ PoliciesNext /\ UNCHANGED <<script, sweepVars, ablationVars, reportVars>>
PerplexityScript ==
  script = "perplexity" /\ SweepNext /\ UNCHANGED <<script, policyVars, ablationVars, reportVars>>
BytesScript ==
  script = "bytes" /\ AblationNext /\ UNCHANGED <<script, policyVars, sweepVars, reportVars>>
OverlapScript ==
  script = "overlap" /\ ReportNext /\ UNCHANGED <<script, policyVars, sweepVars, ablationVars>>

Next == HotCacheScript \/ PerplexityScript \/ BytesScript \/ OverlapScript

Spec == Init /\ [][Next]_vars
=============================================================================
