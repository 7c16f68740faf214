---------------------------- MODULE WeightPipeline ----------------------------
(***************************************************************************)
(* WeightPipeline of python/soinfer/runtime/generate.py: the host program  *)
(* that walks the cyclic per-token weight sequence one step ahead of       *)
(* compute over the two buffers of the model's StreamManager.              *)
(*                                                                         *)
(* A weight is its position in per_token_sequence.  Every generate_* call  *)
(* builds a pipeline of its own on the one StreamManager of the model, so  *)
(* the events and whatever the streams still have queued outlive it; its   *)
(* two buffers come from the caching allocator, which may hand out the     *)
(* blocks of the previous pipeline again.  Allocations is the set of       *)
(* placements the allocator may choose from.                               *)
(***************************************************************************)
EXTENDS StreamManager

CONSTANTS
  NumWeights,    \* Len(per_token_sequence)
  Allocations,   \* possible values of self.bufs
  MaxCalls,      \* bound: next_gemv calls in a behaviour
  MaxPipelines   \* bound: pipelines built in a behaviour

ASSUME PipelineAssumption ==
  /\ NumBuffers = 2
  /\ NumWeights \in Nat \ {0}
  /\ Weights = 0 .. NumWeights - 1
  /\ \A a \in Allocations : a \in [Buffers -> Blocks] /\ a[0] # a[1]
  /\ MaxCalls \in Nat
  /\ MaxPipelines \in Nat

VARIABLES
  bufs,       \* self.bufs
  cur_buf,    \* self.cur_buf
  cur_name,   \* self.cur_name
  calls,      \* next_gemv calls made on this pipeline
  pipelines,  \* pipelines built so far
  asked       \* the weight of every next_gemv call, of all pipelines

(* A block always serves the same buffer index. *)
StableAllocations ==
  \A a1, a2 \in Allocations : \A i, j \in Buffers : a1[i] = a2[j] => i = j

hostVars == <<bufs, cur_buf, cur_name, calls, pipelines, asked>>
vars == <<issued, gpuVars, hostVars>>

-----------------------------------------------------------------------------
(* Mutant: the sequence is not cycled at the end of a pass. *)
no_cycle(w) == w + 1
(* itertools.cycle(per_token_sequence) *)
NextName(w) == IF w + 1 = NumWeights THEN 0 ELSE w + 1

prefetch_into(i, placed, b, w) == prefetch(i, b, placed[b], w)

Init ==
  /\ GpuInit
  /\ bufs \in Allocations
  /\ cur_buf = 0
  /\ cur_name = 0
  /\ issued = prefetch_into(NothingIssued, bufs, 0, 0)
  /\ calls = 0
  /\ pipelines = 1
  /\ asked = <<>>

(* Mutant: the constructor does not start the first transfer. *)
unprimed ==
  /\ pipelines < MaxPipelines
  /\ bufs' \in Allocations
  /\ cur_buf' = 0
  /\ cur_name' = 0
  /\ calls' = 0
  /\ pipelines' = pipelines + 1
  /\ UNCHANGED <<issued, gpuVars, asked>>
(* __init__ of the next generate_* call's pipeline, wherever in a pass the  *)
(* previous one stopped (an exception of a layer leaves it half-way): the   *)
(* weight prefetched last is dropped.                                       *)
NewPipeline ==
  /\ pipelines < MaxPipelines
  /\ bufs' \in Allocations
  /\ cur_buf' = 0
  /\ cur_name' = 0
  /\ issued' = prefetch_into(issued, bufs', 0, 0)
  /\ calls' = 0
  /\ pipelines' = pipelines + 1
  /\ UNCHANGED <<gpuVars, asked>>

Launch(i, m, w) == Enqueue(i, Compute, Gemv(m, w))

(* Mutant: the mark precedes the launch of the kernel whose read it announces. *)
mark_then_launch(i, b, m, w) == Launch(mark_read_done(wait(i, b), b), m, w)
WaitLaunchMark(i, b, m, w) == mark_read_done(Launch(wait(i, b), m, w), b)

(* Mutant: no double buffering. *)
same_buffer(b) == b
OtherBuffer(b) == 1 - b

next_gemv ==
  LET next_buf == OtherBuffer(cur_buf)
      next_name == NextName(cur_name)
      launched == WaitLaunchMark(issued, cur_buf, bufs[cur_buf], cur_name)
  IN  /\ Len(asked) < MaxCalls
      /\ issued' = prefetch_into(launched, bufs, next_buf, next_name)
      /\ cur_buf' = next_buf
      /\ cur_name' = next_name
      /\ calls' = calls + 1
      /\ asked' = Append(asked, cur_name)
      /\ UNCHANGED <<gpuVars, bufs, pipelines>>

GpuStep(s) == StreamStep(s) /\ UNCHANGED hostVars

Next ==
  \/ NewPipeline
  \/ next_gemv
  \/ \E s \in Streams : GpuStep(s)

Fairness == \A s \in Streams : WF_vars(GpuStep(s))

Spec == Init /\ [][Next]_vars /\ Fairness

-----------------------------------------------------------------------------
TypeOK ==
  /\ StreamTypeOK
  /\ bufs \in Allocations
  /\ cur_buf \in Buffers
  /\ cur_name \in Weights
  /\ calls \in Nat
  /\ pipelines \in Nat
  /\ asked \in Seq(Weights)

(* While a GEMV reads a buffer's block no transfer writes it, and no two     *)
(* transfers write one block at once: the write-after-read hazard that       *)
(* prefetch (stream_manager.py:40-51) closes with read_done_events, and the  *)
(* read-after-write one that wait (stream_manager.py:62-69) closes.          *)
NoTransferDuringRead ==
  \A m \in Blocks : Copying(m) # {} => Reading(m) = {}

NoTransferConflict ==
  /\ NoTransferDuringRead
  /\ \A m \in Blocks : \A s, t \in Copying(m) : s = t

(* A running GEMV reads a whole copy of the weight its call named, although  *)
(* the host has long since moved cur_buf and cur_name on (next_gemv,         *)
(* generate.py:116-138).                                                     *)
GemvReadsItsWeight ==
  busy[Compute] => mem[Current(Compute).mem] = Current(Compute).weight

(* Double buffering does overlap: once compute has come to the call issued   *)
(* last, the transfer that call kicked off is not held back, so that it runs *)
(* concurrently with that call's GEMV (generate.py:117-121).                 *)
HeldBack(s) ==
  /\ Pending(s)
  /\ Current(s).op = "wait"
  /\ done[Current(s).event] < Current(s).ver

NextTransferOverlaps ==
  /\ calls > 0
  /\ head[Compute] + 3 > Len(issued.log[Compute])
  => \A b \in Buffers : ~ HeldBack(b)

(* When everything issued has run, the weight the next call names is already *)
(* in the buffer that call reads, also right after a new pipeline was built  *)
(* over a predecessor whose last transfer nobody consumed.                   *)
PrimedAhead == Quiescent => mem[bufs[cur_buf]] = cur_name

(* The buffers of a dropped pipeline are freed while its last prefetch may   *)
(* still write one of them, on a stream the allocator knows nothing of, and  *)
(* the next call may get that block as its KV cache or scratch tensor        *)
(* (generate.py:438-441).  Once compute is past the waits of the new         *)
(* pipeline's first two calls nothing of earlier pipelines is left on a copy *)
(* stream; the first row is appended behind three calls                      *)
(* (generate.py:158-168), and rows above the position are never read.        *)
Transfers(b) == (calls + 2 - b) \div 2
OldEntries(s) == Len(issued.log[s]) - 3 * (IF s = Compute THEN calls ELSE Transfers(s))
DroppedBuffersQuiet ==
  calls >= 2 /\ head[Compute] > OldEntries(Compute) + 4
    => \A b \in Buffers : head[b] > OldEntries(b)

(* The pipeline implements the unbuffered weight stream: GEMVs read the      *)
(* weights the calls named, in call order, and each issued GEMV finishes     *)
(* (no cycle of event waits), given only that the device's streams progress. *)
Abstract == INSTANCE WeightStream WITH Weights <- Weights, asked <- asked, outputs <- outputs
WeightsInOrder == Abstract!Spec
=============================================================================
