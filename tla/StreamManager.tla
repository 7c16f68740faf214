---------------------------- MODULE StreamManager ----------------------------
(***************************************************************************)
(* The copy streams and events of python/soinfer/offload/stream_manager.py *)
(* and the part of the CUDA runtime they rely on.                          *)
(*                                                                         *)
(* The host only enqueues: a method of StreamManager appends entries to    *)
(* the stream logs and returns.  Each stream executes its log in order and *)
(* on its own; entries of different streams interleave freely except where *)
(* a "wait" entry holds its stream back until an event version is done.    *)
(* A wait captures the version recorded last when it is issued; version 0  *)
(* is the event that was never recorded, on which a wait is a no-op.       *)
(* A copy and a GEMV take two steps, so that a transfer overlapping a read *)
(* is a state of the model; while a copy runs its block holds Torn.        *)
(***************************************************************************)
EXTENDS Naturals, Sequences

CONSTANTS
  NumBuffers,  \* the num_buffers argument of the constructor
  Blocks,      \* blocks of device memory a transfer can target
  Weights,     \* the host matrices that can be transferred
  Torn,        \* content of a block a transfer is writing
  Empty        \* content of a block nothing was transferred to

ASSUME NumBuffersAssumption == NumBuffers \in Nat \ {0}
ASSUME ContentAssumption == Torn \notin Weights /\ Empty \notin Weights

Buffers == 0 .. NumBuffers - 1
Compute == NumBuffers               \* the default stream
Streams == 0 .. NumBuffers          \* stream b copies into buffer b

Copied(b)   == <<"copied", b>>      \* self.events[b]
ReadDone(b) == <<"read_done", b>>   \* self.read_done_events[b]
Events == {"copied", "read_done"} \X Buffers

(* Entries of a stream's log. *)
Wait(e, v)   == [op |-> "wait", event |-> e, ver |-> v]
Record(e, v) == [op |-> "record", event |-> e, ver |-> v]
Copy(m, w)   == [op |-> "copy", mem |-> m, weight |-> w]
Gemv(m, w)   == [op |-> "gemv", mem |-> m, weight |-> w]

Entries == [op : {"wait", "record"}, event : Events, ver : Nat]
             \cup [op : {"copy", "gemv"}, mem : Blocks, weight : Weights]

VARIABLES
  issued,   \* what the host has enqueued: .log per stream, .recorded per event
  head,     \* per stream, the position of the entry it executes next
  busy,     \* per stream, whether that entry is a copy or GEMV under way
  done,     \* per event, the last version the device has reached
  mem,      \* per block, the weight it holds
  outputs   \* what each finished GEMV read, in the order they finished

gpuVars == <<head, busy, done, mem, outputs>>

-----------------------------------------------------------------------------
(* Host side: the methods, as functions of what was issued before.         *)

NothingIssued == [log      |-> [s \in Streams |-> <<>>],
                  recorded |-> [e \in Events |-> 0]]

Enqueue(i, s, entry) == [i EXCEPT !.log[s] = Append(@, entry)]

WaitEvent(i, s, e) == Enqueue(i, s, Wait(e, i.recorded[e]))

RecordEvent(i, s, e) ==
  LET v == i.recorded[e] + 1
  IN  [log      |-> [i.log EXCEPT ![s] = Append(@, Record(e, v))],
       recorded |-> [i.recorded EXCEPT ![e] = v]]

(* Mutants: no wait for the previous read; completion recorded before the copy. *)
prefetch_no_wait(i, b, m, w) ==
  RecordEvent(Enqueue(i, b, Copy(m, w)), b, Copied(b))
prefetch_record_first(i, b, m, w) ==
  Enqueue(RecordEvent(WaitEvent(i, b, ReadDone(b)), b, Copied(b)), b, Copy(m, w))
prefetch(i, b, m, w) ==
  RecordEvent(Enqueue(WaitEvent(i, b, ReadDone(b)), b, Copy(m, w)), b, Copied(b))

(* Mutant: the caller does not wait for the transfer. *)
no_wait(i, b) == Enqueue(i, Compute, Wait(Copied(b), 0))
wait(i, b) == WaitEvent(i, Compute, Copied(b))

mark_read_done(i, b) == RecordEvent(i, Compute, ReadDone(b))

-----------------------------------------------------------------------------
(* Device side: one stream's progress.                                     *)

Pending(s) == head[s] <= Len(issued.log[s])
Current(s) == issued.log[s][head[s]]
Advance(s) == head' = [head EXCEPT ![s] = @ + 1]

PassWait(s) ==
  /\ Pending(s)
  /\ Current(s).op = "wait"
  /\ done[Current(s).event] >= Current(s).ver
  /\ Advance(s)
  /\ UNCHANGED <<busy, done, mem, outputs>>

ReachRecord(s) ==
  /\ Pending(s)
  /\ Current(s).op = "record"
  /\ done' = [done EXCEPT ![Current(s).event] = Current(s).ver]
  /\ Advance(s)
  /\ UNCHANGED <<busy, mem, outputs>>

StartCopy(s) ==
  /\ Pending(s)
  /\ Current(s).op = "copy"
  /\ ~ busy[s]
  /\ busy' = [busy EXCEPT ![s] = TRUE]
  /\ mem' = [mem EXCEPT ![Current(s).mem] = Torn]
  /\ UNCHANGED <<head, done, outputs>>

FinishCopy(s) ==
  /\ Pending(s)
  /\ Current(s).op = "copy"
  /\ busy[s]
  /\ busy' = [busy EXCEPT ![s] = FALSE]
  /\ mem' = [mem EXCEPT ![Current(s).mem] = Current(s).weight]
  /\ Advance(s)
  /\ UNCHANGED <<done, outputs>>

StartGemv(s) ==
  /\ Pending(s)
  /\ Current(s).op = "gemv"
  /\ ~ busy[s]
  /\ busy' = [busy EXCEPT ![s] = TRUE]
  /\ UNCHANGED <<head, done, mem, outputs>>

FinishGemv(s) ==
  /\ Pending(s)
  /\ Current(s).op = "gemv"
  /\ busy[s]
  /\ busy' = [busy EXCEPT ![s] = FALSE]
  /\ outputs' = Append(outputs, mem[Current(s).mem])
  /\ Advance(s)
  /\ UNCHANGED <<done, mem>>

StreamStep(s) ==
  /\ \/ PassWait(s) \/ ReachRecord(s)
     \/ StartCopy(s) \/ FinishCopy(s)
     \/ StartGemv(s) \/ FinishGemv(s)
  /\ UNCHANGED issued

GpuInit ==
  /\ head = [s \in Streams |-> 1]
  /\ busy = [s \in Streams |-> FALSE]
  /\ done = [e \in Events |-> 0]
  /\ mem = [m \in Blocks |-> Empty]
  /\ outputs = <<>>

-----------------------------------------------------------------------------
StreamTypeOK ==
  /\ issued \in [log : [Streams -> Seq(Entries)], recorded : [Events -> Nat]]
  /\ head \in [Streams -> Nat \ {0}]
  /\ busy \in [Streams -> BOOLEAN]
  /\ done \in [Events -> Nat]
  /\ mem \in [Blocks -> Weights \cup {Torn, Empty}]
  /\ outputs \in Seq(Weights \cup {Torn, Empty})

Quiescent == \A s \in Streams : ~ Pending(s)

(* The copies and the GEMV under way. *)
Copying(m) == {s \in Streams : busy[s] /\ Current(s).op = "copy" /\ Current(s).mem = m}
Reading(m) == {s \in Streams : busy[s] /\ Current(s).op = "gemv" /\ Current(s).mem = m}
=============================================================================
