----------------------------- MODULE WeightLoader -----------------------------
(***************************************************************************)
(* load_streaming_model of python/soinfer/runtime/loader.py and, under it, *)
(* stream_load_layers of python/soinfer/offload/load_hf_checkpoint.py.     *)
(* A first pass over the shapes sizes the arena; a second one quantizes    *)
(* each matrix, pads its rows to whole quantization groups, packs them and *)
(* registers them, with an extra transposed copy of the down projection    *)
(* when asked.  The tensors that stay on the GPU follow, and the model is  *)
(* put together from what was loaded.  An exception ends the load.         *)
(*                                                                         *)
(* PackGroup values pack into PackBytes bytes (pack.py: 8 into 4).         *)
(***************************************************************************)
EXTENDS WeightStore, SequencesExt

CONSTANTS
  LinearSuffixes,  \* LINEAR_SUFFIXES; the last one is the down projection
  Dims,         \* bound: the dimensions of the matrices
  GroupSizes,   \* bound: values of group_size
  NumLayers,    \* bound: num_hidden_layers of config.json
  PackGroup, PackBytes,
  None          \* nothing

DownT == "down_proj_T"

ASSUME LoaderAssumption ==
  /\ LinearSuffixes \in Seq(STRING) /\ Len(LinearSuffixes) > 0
  /\ IsInjective(LinearSuffixes) /\ DownT \notin ToSet(LinearSuffixes)
  /\ Dims \subseteq Nat \ {0} /\ GroupSizes \subseteq Nat \ {0}
  /\ NumLayers \in Nat \ {0}
  /\ PackGroup \in Nat \ {0} /\ PackBytes \in Nat \ {0}
  /\ \A g \in GroupSizes : g % PackGroup = 0

VARIABLES
  shape,       \* the checkpoint: suffix -> <<n, k>>
  absent,      \* a tensor weight_map does not list (tied or cut checkpoints), or None
  group_size, include_down_proj_t,
  matrices,    \* name -> [n, k, packed_k, num_groups]: LoadedMatrix without its handle
  resident,    \* the tensors moved to the GPU, in order
  model,       \* the StreamingModel returned, or None
  status       \* "planning", "streaming", "resident", "loaded" or "failed"

inputs == <<shape, absent, group_size, include_down_proj_t>>
vars == <<storeVars, inputs, matrices, resident, model, status>>

Down == Last(LinearSuffixes)
CeilDiv(a, b) == (a + b - 1) \div b
Transposed(nk) == <<nk[2], nk[1]>>

(* Groups of one row, the last one padded with zeros *)
Groups(k) == CeilDiv(k, group_size)

(* _packed_int4_bytes, for one row and for a matrix *)
PackedRow(k) == CeilDiv(k, PackGroup) * PackBytes
PackedBytes(nk) == nk[1] * PackedRow(nk[2])

(* What the linear matrices of one layer take. *)
LayerBytes(shp) == SumFunction([s \in ToSet(LinearSuffixes) |-> PackedBytes(shp[s])])

(* Mutant: the transposed copies are forgotten. *)
plan_without_transposed(shp, with_t) == NumLayers * LayerBytes(shp)
plan_arena_bytes(shp, with_t) ==
  NumLayers * (LayerBytes(shp) + IF with_t THEN PackedBytes(Transposed(shp[Down])) ELSE 0)

(* What quantize and pack_int4 make of an [n, k] matrix. *)
quantize_and_pack(nk) ==
  [n |-> nk[1], k |-> nk[2],
   packed_k |-> Groups(nk[2]) * group_size, num_groups |-> Groups(nk[2])]

(* The names in the order they are registered. *)
LayerOrder(l) ==
  [i \in 1 .. Len(LinearSuffixes) |-> <<l, LinearSuffixes[i]>>]
    \o IF include_down_proj_t THEN << <<l, DownT>> >> ELSE <<>>
LoadOrder == FlattenSeq([l \in 1 .. NumLayers |-> LayerOrder(l)])

ShapeOf(name) ==
  IF name[2] = DownT THEN Transposed(shape[Down]) ELSE shape[name[2]]

(* The tensors load_streaming_model moves to the GPU, in its order. *)
norm_names == <<"input_layernorm", "post_attention_layernorm", "q_norm", "k_norm">>
SmallOrder ==
  [i \in 1 .. 3 |-> <<0, <<"embed_tokens", "lm_head", "norm">>[i]>>]
    \o FlattenSeq([l \in 1 .. NumLayers |->
                     [i \in DOMAIN norm_names |-> <<l, norm_names[i]>>]])

(* What the safetensors files have: there is no transposed tensor in them. *)
LinearNames == (1 .. NumLayers) \X ToSet(LinearSuffixes)

ASSUME NoneAssumption == None \notin LinearNames \cup ToSet(SmallOrder)

-----------------------------------------------------------------------------
Init ==
  /\ shape \in [ToSet(LinearSuffixes) -> Dims \X Dims]
  /\ absent \in {None} \cup LinearNames \cup ToSet(SmallOrder)
  /\ group_size \in GroupSizes
  /\ include_down_proj_t \in BOOLEAN
  /\ NoStore
  /\ matrices = NoHandles /\ resident = <<>>
  /\ model = None
  /\ status = "planning"

Raise == status' = "failed" /\ UNCHANGED <<storeVars, inputs, matrices, resident, model>>

(* The first pass; a matrix that is not listed is noticed here. *)
Plan ==
  /\ status = "planning"
  /\ absent \notin LinearNames
  /\ Allocate(plan_arena_bytes(shape, include_down_proj_t))
  /\ status' = "streaming"
  /\ UNCHANGED <<inputs, matrices, resident, model>>

PlanRaises == status = "planning" /\ absent \in LinearNames /\ Raise

NextName == LoadOrder[Cardinality(DOMAIN matrices) + 1]

Load ==
  LET m == quantize_and_pack(ShapeOf(NextName))
      rest == Len(LoadOrder) - Cardinality(DOMAIN matrices) - 1
  IN  /\ status = "streaming"
      /\ register(NextName, m.n, PackedRow(m.packed_k))
      /\ matrices' = Put(matrices, NextName, m)
      /\ status' = IF rest = 0 THEN "resident" ELSE "streaming"
      /\ UNCHANGED <<inputs, resident, model>>

RegisterRaises ==
  LET m == quantize_and_pack(ShapeOf(NextName))
  IN  /\ status = "streaming"
      /\ ~ CanRegister(NextName, m.n, PackedRow(m.packed_k))
      /\ Raise

NextSmall == SmallOrder[Len(resident) + 1]

load_small_to_gpu ==
  /\ status = "resident" /\ Len(resident) < Len(SmallOrder)
  /\ NextSmall # absent
  /\ resident' = Append(resident, NextSmall)
  /\ UNCHANGED <<storeVars, inputs, matrices, model, status>>

SmallRaises ==
  /\ status = "resident" /\ Len(resident) < Len(SmallOrder)
  /\ NextSmall = absent
  /\ Raise

(* Mutant: the default of StreamingModel, whatever was asked for. *)
default_group_size(g) == CHOOSE d \in GroupSizes : \A h \in GroupSizes : h <= d
ModelGroupSize(g) == g

StreamingModel ==
  /\ status = "resident" /\ Len(resident) = Len(SmallOrder)
  /\ model' = [num_layers |-> NumLayers, group_size |-> ModelGroupSize(group_size)]
  /\ status' = "loaded"
  /\ UNCHANGED <<storeVars, inputs, matrices, resident>>

Next ==
  \/ Plan \/ PlanRaises \/ Load \/ RegisterRaises
  \/ load_small_to_gpu \/ SmallRaises \/ StreamingModel

Spec == Init /\ [][Next]_vars

-----------------------------------------------------------------------------
(* The length of every row is a multiple of u values. *)
RowsAreWhole(u) ==
  \A x \in ToSet(LoadOrder) : ShapeOf(x)[2] % u = 0

(* For a complete checkpoint of whole quantization groups, as those of the   *)
(* supported models, the two passes agree: no registration overflows and the *)
(* arena ends up exactly full (load_hf_checkpoint.py:63-87 plans from shapes *)
(* what 93-148 registers from packed data).  A checkpoint that lacks a       *)
(* matrix is turned down before the arena is pinned.                         *)
PlanFitsWholeGroups ==
  /\ RowsAreWhole(group_size) /\ absent = None =>
       /\ status # "failed"
       /\ status \in {"resident", "loaded"} => write_offset = bytes_total
  /\ absent \in LinearNames => bytes_total = 0

(* A model that is handed out serves.  All its tensors are there, and the    *)
(* scales are found with the group size they were computed with, which an    *)
(* earlier version lost on its way (generate.py:34-43).  If its rows are     *)
(* whole words, none was padded: the x a layer passes has the K values the   *)
(* GEMV binding demands of it (next_gemv passes packed_k, generate.py:127).  *)
LoadedModelServes ==
  model # None =>
    /\ absent = None
    /\ DOMAIN handles = ToSet(LoadOrder) /\ resident = SmallOrder
    /\ \A x \in DOMAIN matrices :
         LET m == matrices[x]
         IN  /\ handles[x].num_rows = m.n
             /\ handles[x].row_nbytes = PackedRow(m.packed_k)
             /\ CeilDiv(m.packed_k, model.group_size) = m.num_groups
             /\ RowsAreWhole(PackGroup) => m.packed_k = m.k

(* load_hf_checkpoint.py:66-68 says that the first pass computes "the exact  *)
(* pinned arena size needed".                                                *)
PlanIsExact ==
  status # "planning" /\ absent = None =>
    /\ status # "failed"
    /\ status = "loaded" => write_offset = bytes_total
=============================================================================
