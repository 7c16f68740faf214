-------------------------------- MODULE DipMlp --------------------------------
(***************************************************************************)
(* The MLP half of run_decoder_layer_dip and run_decoder_layer_cached_dip  *)
(* (python/soinfer/runtime/generate.py): select dip_k channels on the GPU, *)
(* bring the rows of up_proj and down_proj_T that are not there yet, and   *)
(* run the two sparse GEMVs.  The host enqueues on one in-order stream and *)
(* writes pinned staging buffers the stream's copies read later; a cache   *)
(* miss gets its place in the staging buffer from an atomicAdd the threads *)
(* of build_dip_descriptors_kernel reach in any order.                     *)
(*                                                                         *)
(* A row of either matrix is the pair of its layer and its channel, and so *)
(* is a row of its scales, which stay on the device and are picked there.  *)
(***************************************************************************)
EXTENDS Integers, Sequences, FiniteSets, SequencesExt, FiniteSetsExt

CONSTANTS
  NumLayers,   \* model.num_layers
  I,           \* intermediate_size
  dip_k,       \* also the max_k of DipBuffers.make
  MaxTokens,   \* bound: tokens of one generate_* or calibrate_* call
  Unset        \* content of memory not written yet

ASSUME DipAssumption ==
  /\ NumLayers \in Nat \ {0}
  /\ I \in Nat \ {0}
  /\ dip_k \in 1 .. I
  /\ MaxTokens \in Nat \ {0}
  /\ Unset \notin [staging : BOOLEAN, offset : 0 .. I]

Layers == 0 .. NumLayers - 1
Channels == 0 .. I - 1
Picks == 0 .. dip_k - 1        \* positions in the selection, rows of the buffers
Roles == {"up", "down"}
Rows == Layers \X Channels

VARIABLES
  cached,      \* run_decoder_layer_cached_dip rather than _dip
  hot,         \* per layer, HotCache.hot_indices as a set
  pc, token, layer,
  rows,        \* idx_cpu, or miss_idx_cpu: the channels to gather
  staging,     \* per role, the pinned buffer
  gpu,         \* per role, the device buffer
  queue,       \* what the stream has still to do
  idx,         \* device: the selection, in ascending order
  descriptors, miss_channels, miss_count,   \* device, int32 tensors
  result,      \* per role, the rows and scales the GEMV that finished last read, and for whom
  channel_counts, trace, miss_bytes,
  picked,      \* per layer, the selections made: what the counters are checked against
  copied       \* rows copied to the device

config == <<cached, hot>>
host == <<pc, token, layer, rows, staging, trace, miss_bytes>>
selection == <<idx, descriptors, miss_channels, miss_count>>
device == <<gpu, selection, result, channel_counts, picked, copied>>
vars == <<config, host, queue, device>>

-----------------------------------------------------------------------------
(* HotCache: the hot channels' rows in ascending order, and the slot of each. *)
Place(S, c) == Cardinality({d \in S : d < c})
AtPlace(S, p) == CHOOSE c \in S : Place(S, c) = p
(* Mutant: the cache is built but never consulted. *)
never_cached(l, c) == -1
slot_of(l, c) == IF c \in hot[l] THEN Place(hot[l], c) ELSE -1
CacheRow(l, slot) == <<l, AtPlace(hot[l], slot)>>
CacheScale(l, slot) == <<l, AtPlace(hot[l], slot)>>

(* A descriptor: bit 31 tells staging from cache, the rest is the offset. *)
FromCache(slot) == [staging |-> FALSE, offset |-> slot]
FromStaging(pos) == [staging |-> TRUE, offset |-> pos]
NoSelection == [i \in Picks |-> Unset]

Init ==
  /\ cached \in BOOLEAN
  /\ hot \in [Layers -> SUBSET Channels]
  /\ ~ cached => hot = [l \in Layers |-> {}]
  /\ pc = "select" /\ token = 0 /\ layer = 0
  /\ rows = <<>>
  /\ staging = [r \in Roles |-> NoSelection]
  /\ gpu = staging
  /\ queue = <<>>
  /\ idx = NoSelection /\ descriptors = NoSelection
  /\ miss_channels = NoSelection /\ miss_count = 0
  /\ result = [r \in Roles |-> <<>>]
  /\ channel_counts = [l \in Layers |-> [c \in Channels |-> 0]]
  /\ trace = [l \in Layers |-> <<>>]
  /\ miss_bytes = [l \in Layers |-> 0]
  /\ picked = trace
  /\ copied = 0

-----------------------------------------------------------------------------
(* Host.                                                                   *)

Topk == [op |-> "topk", layer |-> layer]
Count == [op |-> "count", layer |-> layer]
Memset == [op |-> "memset"]
Describe == [op |-> "describe", layer |-> layer]
CopyRows(r, n) == [op |-> "copy", role |-> r, n |-> n]
Gemv(r) == [op |-> "gemv", role |-> r, layer |-> layer]

Select ==
  /\ pc = "select"
  /\ token < MaxTokens
  /\ queue' = queue \o IF cached THEN <<Topk, Memset, Describe>> ELSE <<Topk, Count>>
  /\ pc' = "fetch"
  /\ UNCHANGED <<config, token, layer, rows, staging, trace, miss_bytes, device>>

Synchronized == queue = <<>>

(* idx.cpu(), or miss_count.item() and miss_channels[:mc].cpu(). *)
Fetch ==
  /\ pc = "fetch"
  /\ Synchronized
  /\ rows' = IF cached THEN [i \in 1 .. miss_count |-> miss_channels[i - 1]]
                       ELSE [i \in 1 .. dip_k |-> idx[i - 1]]
  /\ trace' = IF cached THEN trace ELSE [trace EXCEPT ![layer] = Append(@, rows')]
  /\ pc' = "up"
  /\ UNCHANGED <<config, token, layer, staging, miss_bytes, queue, device>>

(* Mutant: one staging buffer for both matrices. *)
shared_staging(r) == "up"
StagingOf(r) == r

(* launch_gather_rows_staged: the host copies the rows, the stream the buffer. *)
gather_rows_staged(r) ==
  /\ pc = r
  /\ staging' = [staging EXCEPT ![StagingOf(r)] =
       [i \in Picks |-> IF i < Len(rows) THEN <<layer, rows[i + 1]>> ELSE @[i]]]
  /\ queue' = Append(queue, CopyRows(r, Len(rows)))
  /\ pc' = IF r = "up" THEN "down" ELSE "launch"
  /\ UNCHANGED <<config, token, layer, rows, trace, miss_bytes, device>>

(* Mutant: the down projection's rows are not counted. *)
up_only(n) == n
MissRows(n) == 2 * n

Launch ==
  /\ pc = "launch"
  /\ Synchronized
  /\ queue' = queue \o <<Gemv("up"), Gemv("down")>>
  /\ miss_bytes' = IF cached THEN [miss_bytes EXCEPT ![layer] = @ + MissRows(Len(rows))]
                             ELSE miss_bytes
  /\ layer' = (layer + 1) % NumLayers
  /\ token' = IF layer' = 0 THEN token + 1 ELSE token
  /\ pc' = "select"
  /\ UNCHANGED <<config, rows, staging, trace, device>>

-----------------------------------------------------------------------------
(* The stream.                                                             *)

Executes(op) == queue # <<>> /\ queue[1].op = op
Dequeue == queue' = Tail(queue)

RunTopk ==
  /\ Executes("topk")
  /\ \E S \in kSubset(dip_k, Channels) :
       /\ idx' = [i \in Picks |-> AtPlace(S, i)]
       /\ picked' = [picked EXCEPT ![queue[1].layer] = Append(@, S)]
  /\ Dequeue
  /\ UNCHANGED <<config, host, gpu, descriptors, miss_channels, miss_count,
                 result, channel_counts, copied>>

(* Fresh tensors, of which only the counter is cleared. *)
RunMemset ==
  /\ Executes("memset")
  /\ descriptors' = NoSelection
  /\ miss_channels' = NoSelection
  /\ miss_count' = 0
  /\ Dequeue
  /\ UNCHANGED <<config, host, gpu, idx, result, channel_counts, picked, copied>>

(* Mutant: the histogram of the wrong layer. *)
first_layer(l) == 0
CountedLayer(l) == l

RunCount ==
  /\ Executes("count")
  /\ channel_counts' = [channel_counts EXCEPT ![CountedLayer(queue[1].layer)] =
       [c \in Channels |-> @[c] + Cardinality({i \in Picks : idx[i] = c})]]
  /\ Dequeue
  /\ UNCHANGED <<config, host, gpu, selection, result, picked, copied>>

(* Mutant: misses are stored at their position in the selection. *)
uncompacted(i, count) == i
MissPos(i, count) == count

(* One thread of build_dip_descriptors_kernel. *)
DescribeThread(i) ==
  LET slot == slot_of(queue[1].layer, idx[i])
      pos == MissPos(i, miss_count)
  IN  /\ Executes("describe")
      /\ descriptors[i] = Unset
      /\ \/ /\ slot >= 0
            /\ descriptors' = [descriptors EXCEPT ![i] = FromCache(slot)]
            /\ UNCHANGED <<miss_channels, miss_count>>
         \/ /\ slot < 0
            /\ descriptors' = [descriptors EXCEPT ![i] = FromStaging(pos)]
            /\ miss_channels' = [miss_channels EXCEPT ![pos] = idx[i]]
            /\ miss_count' = miss_count + 1
      /\ UNCHANGED <<config, host, queue, gpu, idx, result, channel_counts, picked, copied>>

EndDescribe ==
  /\ Executes("describe")
  /\ \A i \in Picks : descriptors[i] # Unset
  /\ Dequeue
  /\ UNCHANGED <<config, host, device>>

RunCopy ==
  /\ Executes("copy")
  /\ LET r == queue[1].role
     IN  gpu' = [gpu EXCEPT ![r] =
           [i \in Picks |-> IF i < queue[1].n THEN staging[StagingOf(r)][i] ELSE @[i]]]
  /\ copied' = copied + queue[1].n
  /\ Dequeue
  /\ UNCHANGED <<config, host, selection, result, channel_counts, picked>>

(* The row the GEMV of role r reads for the i-th selected channel. *)
RowFor(r, l, i) ==
  IF ~ cached THEN gpu[r][i]
  ELSE IF descriptors[i].staging THEN gpu[r][descriptors[i].offset]
  ELSE CacheRow(l, descriptors[i].offset)

(* Mutant: the scales of the missed rows are picked by the selection. *)
by_selection(l, p) == <<l, idx[p]>>
(* The index_select of the scales of the gathered rows: at position p. *)
StagingScale(l, p) == <<l, IF cached THEN miss_channels[p] ELSE idx[p]>>

(* And the scales it multiplies that row with. *)
ScaleFor(l, i) ==
  IF ~ cached THEN StagingScale(l, i)
  ELSE IF descriptors[i].staging THEN StagingScale(l, descriptors[i].offset)
  ELSE CacheScale(l, descriptors[i].offset)

RunGemv ==
  /\ Executes("gemv")
  /\ LET r == queue[1].role
         l == queue[1].layer
     IN  result' = [result EXCEPT ![r] =
           [i \in Picks |-> [wanted |-> <<l, idx[i]>>, read |-> RowFor(r, l, i), scale |-> ScaleFor(l, i)]]]
  /\ Dequeue
  /\ UNCHANGED <<config, host, gpu, selection, channel_counts, picked, copied>>

StreamStep ==
  \/ RunTopk \/ RunMemset \/ RunCount \/ EndDescribe \/ RunCopy \/ RunGemv
  \/ \E i \in Picks : DescribeThread(i)

HostStep == Select \/ Fetch \/ (\E r \in Roles : gather_rows_staged(r)) \/ Launch

Finished == token = MaxTokens /\ Synchronized /\ UNCHANGED vars

Next == HostStep \/ StreamStep \/ Finished

Spec == Init /\ [][Next]_vars

-----------------------------------------------------------------------------
(* Both sparse GEMVs read, in the order of the selection (their order of     *)
(* summation), the rows of the selected channels of their own layer, each    *)
(* with its own scales: across the cache, the miss list in whatever order    *)
(* the threads were served, the staging buffers reused by every layer, the   *)
(* asynchronous copies and the scales picked apart from the rows             *)
(* (generate.py:286-308, 372-402).                                           *)
ReadsSelectedRows ==
  \A r \in Roles : \A i \in DOMAIN result[r] :
    /\ result[r][i].read = result[r][i].wanted
    /\ result[r][i].scale = result[r][i].wanted

(* The host never rewrites a staging buffer a queued copy has still to read. *)
StagingNotInFlight ==
  pc \in Roles =>
    ~ \E j \in DOMAIN queue : /\ queue[j].op = "copy"
                              /\ StagingOf(queue[j].role) = StagingOf(pc)

(* Between tokens, the bytes reported are those transferred: the closed form *)
(* of dip_bytes_per_token (generate.py:407-426) without a cache, the counter *)
(* of generate.py:390-391 with one.  In rows, up and down alike.             *)
dip_rows_per_token == NumLayers * 2 * dip_k

ReportedBytesMatch ==
  pc = "select" /\ layer = 0 /\ Synchronized =>
    copied = IF cached THEN MapThenSumSet(LAMBDA l : miss_bytes[l], Layers)
                       ELSE token * dip_rows_per_token

(* Only what the cache does not hold is transferred, and each row once.      *)
OnlyMissesTransferred ==
  cached => \A l \in Layers :
    pc = "select" =>
      miss_bytes[l] = 2 * MapThenSumSet(LAMBDA t : Cardinality(picked[l][t] \ hot[l]), DOMAIN picked[l])

(* The two products of calibration agree once the stream has caught up: a    *)
(* channel's count is the number of tokens whose trace entry holds it        *)
(* (generate.py:280-284, 589-591).                                           *)
CountsMatchTrace ==
  ~ cached /\ Synchronized /\ pc = "select" =>
    \A l \in Layers : \A c \in Channels :
      channel_counts[l][c] = Cardinality({t \in DOMAIN trace[l] : c \in ToSet(trace[l][t])})
=============================================================================
