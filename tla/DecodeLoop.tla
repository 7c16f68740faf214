------------------------------ MODULE DecodeLoop ------------------------------
(***************************************************************************)
(* The token loops of python/soinfer/runtime/generate.py - generate_*,     *)
(* teacher_forced_nll and calibrate_* - with the decoder layers they run   *)
(* and the K and V caches between tokens.                                  *)
(*                                                                         *)
(* Vectors are symbolic: a hidden state is the record of the weights and   *)
(* rows it was computed from, so that two of them are equal only if the    *)
(* same computation led to them.  The pipeline is what WeightPipeline      *)
(* promises: next_gemv takes no name, each call gets the next matrix of    *)
(* the cyclic sequence.  The token of argmax is any token.  Which rows of  *)
(* up_proj and down_proj_T a sparse layer reads is the matter of DipMlp.   *)
(***************************************************************************)
EXTENDS Integers, Sequences, SequencesExt

CONSTANTS
  NumLayers,    \* model.num_layers
  max_seq_len,  \* rows of a cache
  Tokens,       \* the vocabulary
  MaxInput,     \* bound: length of prompt_ids and token_ids
  MaxNew,       \* bound: n_new
  None, Zero    \* Python's None; a row torch.zeros left

ASSUME DecodeAssumption ==
  /\ NumLayers \in Nat \ {0} /\ max_seq_len \in Nat \ {0}
  /\ MaxInput \in Nat /\ MaxNew \in Nat
  /\ None \notin Tokens

Layers == 0 .. NumLayers - 1
Positions == 0 .. max_seq_len - 1

VARIABLES
  call,        \* the function called and its arguments
  pipeline,    \* [layer_fn, next]; held: by the caller; whole: at the start of a pass when the call began
  pc, layer, pos,
  x,           \* the hidden state
  kv,          \* k_caches and v_caches: per layer and position
  all_tokens,
  scored,      \* teacher_forced_nll: the tokens whose log-probability was added up
  status       \* how the last call ended

vars == <<call, pipeline, pc, layer, pos, x, kv, all_tokens, scored, status>>

-----------------------------------------------------------------------------
(* The order of a pass, and the matrices a layer function asks for.        *)

LINEAR_SUFFIXES == <<"q", "k", "v", "o", "gate", "up", "down">>
DIP_DENSE_SUFFIXES == <<"q", "k", "v", "o", "gate">>

LayerFns == {"streaming", "dip", "cached_dip"}

(* Mutant: the default of WeightPipeline also for the sparse layers. *)
default_suffixes(layer_fn) == LINEAR_SUFFIXES
suffixes(layer_fn) ==
  IF layer_fn = "streaming" THEN LINEAR_SUFFIXES ELSE DIP_DENSE_SUFFIXES

per_token_sequence(layer_fn) ==
  LET n == Len(suffixes(layer_fn))
  IN  [i \in 1 .. NumLayers * n |-> <<(i - 1) \div n, suffixes(layer_fn)[((i - 1) % n) + 1]>>]

PassLength == Len(per_token_sequence(pipeline.layer_fn))

(* The matrices the next n calls of next_gemv multiply with. *)
Drawn(n) ==
  [i \in 1 .. n |-> per_token_sequence(pipeline.layer_fn)[((pipeline.next + i - 1) % PassLength) + 1]]

After(n) == (pipeline.next + n) % PassLength

(* next_gemv is called once for each of these in a layer. *)
NumGemvs(layer_fn) == IF layer_fn = "streaming" THEN 7 ELSE 5

Embed(t) == [token |-> t]
NoHidden == [token |-> None]   \* x = None

(* K and V of one position; k is normed per head and rotated by p. *)
KvRow(W, l, h, p) == [of |-> h, k |-> <<W[2], l, p>>, v |-> W[3]]

(* h2: the attention of q, normed and rotated, over the rows, and o_proj. *)
Attention(W, l, h, rows, p) == [of |-> h, norms |-> l, q |-> <<W[1], p>>, kv |-> rows, o |-> W[4]]

(* The MLP on top of h2, from the matrices the rows of up and down are of. *)
Mlp(h2, l, gate, up, down) == [h2 |-> h2, norms |-> l, gate |-> gate, up |-> up, down |-> down]

run_decoder_layer_streaming(W, l, h, rows, p) ==
  Mlp(Attention(W, l, h, rows, p), l, W[5], {W[6]}, {W[7]})

run_decoder_layer_dip(W, l, h, rows, p) ==
  Mlp(Attention(W, l, h, rows, p), l, W[5], {<<l, "up">>}, {<<l, "down_T">>})

(* caches[l], by the layer whose rows it was built from. *)
HotCacheOf(l) == l
run_decoder_layer_cached_dip(W, l, h, rows, p) ==
  Mlp(Attention(W, l, h, rows, p), l, W[5],
      {<<m, "up">> : m \in {l, HotCacheOf(l)}}, {<<m, "down_T">> : m \in {l, HotCacheOf(l)}})

LayerOut(layer_fn, W, l, h, rows, p) ==
  CASE layer_fn = "streaming"  -> run_decoder_layer_streaming(W, l, h, rows, p)
    [] layer_fn = "dip"        -> run_decoder_layer_dip(W, l, h, rows, p)
    [] layer_fn = "cached_dip" -> run_decoder_layer_cached_dip(W, l, h, rows, p)

-----------------------------------------------------------------------------
NewCaches == [l \in Layers |-> [p \in Positions |-> Zero]]

Init ==
  /\ call = [loop |-> "generate", layer_fn |-> "streaming", input |-> <<>>, n_new |-> 0, eos |-> None]
  /\ pipeline = [layer_fn |-> "streaming", next |-> 0, held |-> FALSE, whole |-> TRUE]
  /\ pc = "idle" /\ layer = 0 /\ pos = 0
  /\ x = NoHidden /\ kv = NewCaches
  /\ all_tokens = <<>> /\ scored = <<>>
  /\ status = "none"

generate(layer_fn) ==
  [loop : {"generate"}, layer_fn : {layer_fn}, input : BoundedSeq(Tokens, MaxInput),
   n_new : 0 .. MaxNew, eos : Tokens \cup {None}]
generate_streaming == generate("streaming")
generate_dip == generate("dip")
generate_cached_dip == generate("cached_dip")

FedOnly(loop, layer_fns) ==
  [loop : {loop}, layer_fn : layer_fns, input : BoundedSeq(Tokens, MaxInput),
   n_new : {0}, eos : {None}]
teacher_forced_nll == FedOnly("score", LayerFns)
calibrate_channel_frequencies == FedOnly("calibrate", {"dip"})

Calls == generate_streaming \cup generate_dip \cup generate_cached_dip
           \cup teacher_forced_nll \cup calibrate_channel_frequencies

(* generate_* and calibrate_* build a pipeline; the one of teacher_forced_nll *)
(* is in the caller's closure, new or left from an earlier call.              *)
Begin ==
  /\ pc = "idle"
  /\ \E c \in Calls :
       /\ call' = c
       /\ all_tokens' = c.input
       /\ \/ pipeline' = [layer_fn |-> c.layer_fn, next |-> 0, held |-> c.loop = "score", whole |-> TRUE]
          \/ /\ c.loop = "score" /\ pipeline.held /\ pipeline.layer_fn = c.layer_fn
             /\ pipeline' = [pipeline EXCEPT !.whole = (@ /\ pipeline.next = 0)]
  /\ pc' = "embed" /\ layer' = 0 /\ pos' = 0
  /\ x' = NoHidden /\ kv' = NewCaches
  /\ scored' = <<>>
  /\ status' = "none"

Return == pc' = "idle" /\ status' = "returned"
Throw == pc' = "idle" /\ status' = "raised"

(* The tokens fed before anything is drawn: all but the last when scoring. *)
Fed == IF call.loop = "score" /\ call.input # <<>> THEN Front(call.input) ELSE call.input

Generating == Len(all_tokens) > Len(call.input)

EmbedNext ==
  /\ pc = "embed"
  /\ pos < Len(Fed)
  /\ x' = Embed(Fed[pos + 1])
  /\ pc' = "layer"
  /\ UNCHANGED <<call, pipeline, layer, pos, kv, all_tokens, scored, status>>

(* Mutants: the last position of the prompt again, or one past the next. *)
last_index(n) == n - 1
one_past(n) == n + 1
StartPos(n) == n

(* The first loop is over; the mean over no token divides by zero. *)
EndInput ==
  /\ pc = "embed"
  /\ pos = Len(Fed)
  /\ \/ /\ call.loop = "generate"
        /\ pc' = "head" /\ pos' = StartPos(Len(Fed))
        /\ UNCHANGED status
     \/ /\ call.loop = "calibrate" \/ (call.loop = "score" /\ Fed # <<>>)
        /\ Return
        /\ UNCHANGED pos
     \/ /\ call.loop = "score" /\ Fed = <<>>
        /\ Throw
        /\ UNCHANGED pos
  /\ UNCHANGED <<call, pipeline, layer, x, kv, all_tokens, scored>>

CurLen(p) == p + 1   \* attention reaches the row just appended

(* run_decoder_layer_*: projections, append, attention, MLP. *)
RunLayer ==
  LET W == Drawn(NumGemvs(call.layer_fn))
      cache == [kv[layer] EXCEPT ![pos] = KvRow(W, layer, x, pos)]
      last == layer = NumLayers - 1
      drawing == call.loop = "score" \/ Generating
  IN  /\ pc = "layer"
      /\ pos < max_seq_len
      /\ kv' = [kv EXCEPT ![layer] = cache]
      /\ x' = LayerOut(call.layer_fn, W, layer, x, [t \in 1 .. CurLen(pos) |-> cache[t - 1]], pos)
      /\ pipeline' = [pipeline EXCEPT !.next = After(NumGemvs(call.layer_fn))]
      /\ layer' = IF last THEN 0 ELSE layer + 1
      /\ pc' = IF ~ last THEN "layer" ELSE IF drawing THEN "head" ELSE "embed"
      /\ pos' = IF last /\ call.loop # "score" THEN pos + 1 ELSE pos
      /\ UNCHANGED <<call, all_tokens, scored, status>>

(* kv_cache_append turns down a position past the cache, after q, k and v. *)
AppendRaises ==
  /\ pc = "layer"
  /\ pos >= max_seq_len
  /\ pipeline' = [pipeline EXCEPT !.next = After(3)]
  /\ Throw
  /\ UNCHANGED <<call, layer, pos, x, kv, all_tokens, scored>>

(* Mutant: the token just fed is scored. *)
token_fed(p) == p + 1
Target(p) == p + 2

Score ==
  /\ pc = "head"
  /\ call.loop = "score"
  /\ scored' = Append(scored, call.input[Target(pos)])
  /\ pos' = pos + 1
  /\ pc' = "embed"
  /\ UNCHANGED <<call, pipeline, layer, x, kv, all_tokens, status>>

NumNew == Len(all_tokens) - Len(call.input)

(* Mutant: eos does not end the loop. *)
never_stops(t) == FALSE
Stops(t) == call.eos # None /\ t = call.eos

Draw(t) ==
  /\ pc = "head"
  /\ call.loop = "generate"
  /\ NumNew < call.n_new
  /\ x # NoHidden
  /\ all_tokens' = Append(all_tokens, t)
  /\ \/ /\ Stops(t)
        /\ Return
        /\ UNCHANGED x
     \/ /\ ~ Stops(t)
        /\ x' = Embed(t) /\ pc' = "layer"
        /\ UNCHANGED status
  /\ UNCHANGED <<call, pipeline, layer, pos, kv, scored>>

(* An empty prompt leaves no hidden state to draw from. *)
DrawRaises ==
  /\ pc = "head"
  /\ call.loop = "generate"
  /\ NumNew < call.n_new
  /\ x = NoHidden
  /\ Throw
  /\ UNCHANGED <<call, pipeline, layer, pos, x, kv, all_tokens, scored>>

EndLoop ==
  /\ pc = "head"
  /\ call.loop = "generate"
  /\ NumNew = call.n_new
  /\ Return
  /\ UNCHANGED <<call, pipeline, layer, pos, x, kv, all_tokens, scored>>

Next ==
  \/ Begin \/ EmbedNext \/ EndInput
  \/ RunLayer \/ AppendRaises
  \/ Score \/ DrawRaises \/ EndLoop
  \/ \E t \in Tokens : Draw(t)

Spec == Init /\ [][Next]_vars

-----------------------------------------------------------------------------
(* The hidden states of the whole sequence computed at once, without caches, *)
(* each layer with its own matrices: what a decoder is defined to compute.   *)
Own(l) == [i \in DOMAIN LINEAR_SUFFIXES |-> <<l, LINEAR_SUFFIXES[i]>>]
Layer(layer_fn, l, h, rows, p) ==
  IF layer_fn = "streaming" THEN run_decoder_layer_streaming(Own(l), l, h, rows, p)
  ELSE run_decoder_layer_dip(Own(l), l, h, rows, p)

Hidden(layer_fn, toks) ==
  LET H[l \in 0 .. NumLayers] ==
        [p \in DOMAIN toks |->
           IF l = 0 THEN Embed(toks[p])
           ELSE Layer(layer_fn, l - 1, H[l - 1][p],
                      [t \in 1 .. p |-> KvRow(Own(l - 1), l - 1, H[l - 1][t], t - 1)], p - 1)]
  IN  H[NumLayers]

(* Token by token, with the caches and the anonymous pipeline between the    *)
(* tokens, the loops compute what the whole sequence at once gives: whatever *)
(* is drawn or scored next depends on every token before it, at its own      *)
(* position, and on each matrix in its own role; a hot cache changes where   *)
(* rows come from, not what is computed (generate.py:430-464, 546-576).  For *)
(* a pipeline that stood at the start of a pass, as one does unless an       *)
(* earlier call over it raised.                                              *)
Prefix == IF call.loop = "score" THEN SubSeq(call.input, 1, pos + 1) ELSE all_tokens

LogitsSeeWholePrefix ==
  pipeline.whole /\ pc = "head" /\ x # NoHidden => x = Last(Hidden(call.layer_fn, Prefix))

(* A call that returns leaves its pipeline at the start of a pass, so that   *)
(* the next teacher_forced_nll over it (generate.py:555-560) is aligned; no  *)
(* name is ever passed that would bring it back.                             *)
ReturnsBetweenPasses ==
  pipeline.whole /\ status = "returned" => pipeline.next = 0

(* The tokens drawn follow the prompt and end with the first end-of-sequence *)
(* token, or all n_new of them are there (generate.py:432-436); an           *)
(* end-of-sequence token of the prompt ends nothing.                         *)
EndsAtEosOrBudget ==
  status = "returned" /\ call.loop = "generate" =>
    LET new == SubSeq(all_tokens, Len(call.input) + 1, Len(all_tokens))
    IN  /\ IsPrefix(call.input, all_tokens)
        /\ \A i \in DOMAIN new : new[i] = call.eos => i = Len(new)
        /\ Len(new) = call.n_new \/ (new # <<>> /\ Last(new) = call.eos)

(* A call whose tokens fit into the caches does not fail, and one of more    *)
(* tokens fails rather than to write past them (bindings.cpp:462): the       *)
(* token drawn last needs a row as well (generate.py:460-463).               *)
FailsOnlyPastCapacity ==
  /\ status = "raised" /\ Fed # <<>> => Len(Fed) + call.n_new > max_seq_len
  /\ status = "returned" => Len(Fed) <= max_seq_len

(* Each token but the first is scored once, in order (generate.py:546-549).  *)
ScoresEveryNextToken ==
  status = "returned" /\ call.loop = "score" => scored = Tail(call.input)
=============================================================================
