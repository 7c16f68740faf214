----------------------------- MODULE OverlapReport -----------------------------
(***************************************************************************)
(* bench/analyze_nsys_overlap.py: from the intervals in which an nsys      *)
(* trace shows copies and kernels running, how much of the copying was     *)
(* hidden behind computing, and how long the device did nothing.           *)
(***************************************************************************)
EXTENDS Integers, Sequences, FiniteSets, SequencesExt, FiniteSetsExt

CONSTANTS
  Horizon,        \* bound: the last time of the trace
  MaxCopies,      \* bound: copy events
  MaxKernels      \* bound: kernel events

ASSUME ReportAssumption == {Horizon, MaxCopies, MaxKernels} \subseteq Nat

Intervals == {e \in (0 .. Horizon) \X (0 .. Horizon) : e[1] <= e[2]}

VARIABLES
  copy_events, compute_events,  \* <<start, end>> pairs
  left_copy, left_compute,      \* the merged intervals the intersection has yet to pass
  overlap,                      \* what it has counted
  report                        \* the figures returned

reportVars == <<copy_events, compute_events, left_copy, left_compute, overlap, report>>

Before(d, e) == d[1] < e[1] \/ (d[1] = e[1] /\ d[2] <= e[2])

(* Mutant: an interval inside the last one cuts it short. *)
ends_with_the_newer(merged, e) ==
  IF merged # <<>> /\ e[1] <= Last(merged)[2]
  THEN Append(Front(merged), <<Last(merged)[1], e[2]>>)
  ELSE Append(merged, e)
MergeOne(merged, e) ==
  IF merged # <<>> /\ e[1] <= Last(merged)[2]
  THEN Append(Front(merged), <<Last(merged)[1], Max({Last(merged)[2], e[2]})>>)
  ELSE Append(merged, e)

Sorted(S) ==
  [n \in 1 .. Cardinality(S) |-> CHOOSE e \in S : Cardinality({d \in S : Before(d, e)}) = n]
merge_intervals(S) == FoldLeft(MergeOne, <<>>, Sorted(S))

total_duration(s) == FoldLeft(LAMBDA n, e : n + e[2] - e[1], 0, s)

-----------------------------------------------------------------------------
ReportInit ==
  /\ copy_events = {} /\ compute_events = {}
  /\ left_copy = <<>> /\ left_compute = <<>>
  /\ overlap = 0 /\ report = <<>>

(* analyze reads the trace; min() and max() raise if it has no event. *)
ReadTrace ==
  /\ copy_events = {} /\ compute_events = {}
  /\ \E n \in 0 .. MaxCopies : \E S \in kSubset(n, Intervals) : copy_events' = S
  /\ \E n \in 0 .. MaxKernels : \E S \in kSubset(n, Intervals) : compute_events' = S
  /\ copy_events' \cup compute_events' # {}
  /\ left_copy' = merge_intervals(copy_events')
  /\ left_compute' = merge_intervals(compute_events')
  /\ UNCHANGED <<overlap, report>>

(* A turn of the loop of _intersect_duration: the interval that ends first is passed. *)
Intersect ==
  /\ left_copy # <<>> /\ left_compute # <<>>
  /\ LET a == Head(left_copy)
         b == Head(left_compute)
         shared == Min({a[2], b[2]}) - Max({a[1], b[1]})
     IN  /\ overlap' = overlap + Max({shared, 0})
         /\ IF a[2] < b[2]
            THEN left_copy' = Tail(left_copy) /\ UNCHANGED left_compute
            ELSE left_compute' = Tail(left_compute) /\ UNCHANGED left_copy
  /\ UNCHANGED <<copy_events, compute_events, report>>

Analyze ==
  /\ copy_events \cup compute_events # {} /\ report = <<>>
  /\ left_copy = <<>> \/ left_compute = <<>>
  /\ LET copy_busy == total_duration(merge_intervals(copy_events))
         compute_busy == total_duration(merge_intervals(compute_events))
         events == copy_events \cup compute_events
         wall == Max({e[2] : e \in events}) - Min({e[1] : e \in events})
     IN  report' = [copy_busy |-> copy_busy, compute_busy |-> compute_busy,
                    overlap |-> overlap, ideal |-> Min({copy_busy, compute_busy}),
                    idle |-> wall - copy_busy - compute_busy + overlap]
  /\ UNCHANGED <<copy_events, compute_events, left_copy, left_compute, overlap>>

ReportNext == ReadTrace \/ Intersect \/ Analyze

-----------------------------------------------------------------------------
(* The units of time in which one of the events runs. *)
Busy(S) == {t \in 0 .. Horizon - 1 : \E e \in S : e[1] <= t /\ t < e[2]}
FirstStart == Min({e[1] : e \in copy_events \cup compute_events})
LastEnd == Max({e[2] : e \in copy_events \cup compute_events})

(* Whatever nests, touches or is empty in the trace, time is counted once:   *)
(* busy and overlapping time are those of the instants covered, idle time is *)
(* that of the instants in between that nothing covers - the sum of          *)
(* analyze_nsys_overlap.py:78 - and no overlap exceeds the ideal.            *)
OverlapExact ==
  report # <<>> =>
    /\ report.copy_busy = Cardinality(Busy(copy_events))
    /\ report.compute_busy = Cardinality(Busy(compute_events))
    /\ report.overlap = Cardinality(Busy(copy_events) \cap Busy(compute_events))
    /\ report.idle = Cardinality((FirstStart .. LastEnd - 1) \ Busy(copy_events \cup compute_events))
    /\ report.overlap <= report.ideal
=============================================================================
