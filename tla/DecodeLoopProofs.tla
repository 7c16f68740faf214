--------------------------- MODULE DecodeLoopProofs ---------------------------
(***************************************************************************)
(* Theorems about DecodeLoop, for any number of layers, tokens, cache rows *)
(* and calls: how calls end, what they score and draw, and that decoding   *)
(* with caches computes what the whole sequence at once gives.             *)
(***************************************************************************)
EXTENDS DecodeLoop, NumberLemmas, SequenceTheorems

Shape ==
  /\ call.loop \in {"generate", "score", "calibrate"} /\ call.layer_fn \in LayerFns
  /\ call.input \in Seq(Tokens) /\ call.n_new \in Nat
  /\ call.loop # "generate" => call.n_new = 0

DTypes ==
  /\ Shape
  /\ pc \in {"idle", "embed", "layer", "head"} /\ layer \in Layers /\ pos \in Nat
  /\ all_tokens \in Seq(Tokens) /\ scored \in Seq(Tokens)
  /\ DOMAIN kv = Layers /\ \A l \in Layers : DOMAIN kv[l] = Positions

(* Where each step of a call finds the position and the tokens.              *)
Feeding == all_tokens = call.input /\ pos < Len(Fed) /\ pos <= max_seq_len
Where ==
  /\ pc \in {"embed", "head"} => layer = 0
  /\ pc # "idle" => status = "none"
  /\ pc = "embed" => all_tokens = call.input /\ pos <= Len(Fed) /\ pos <= max_seq_len
  /\ pc = "layer" => \/ Feeding
                     \/ /\ call.loop = "generate" /\ Generating
                        /\ pos + 1 = Len(all_tokens) /\ Len(call.input) <= max_seq_len
  /\ pc = "head" => \/ call.loop = "score" /\ Feeding /\ pos < max_seq_len
                    \/ /\ call.loop = "generate"
                       /\ pos = Len(all_tokens) /\ Len(call.input) <= max_seq_len

(* The tokens are those of the caller and then ones that end nothing.        *)
Growing ==
  pc # "idle" =>
    /\ Len(call.input) <= Len(all_tokens)
    /\ \A i \in 1 .. Len(call.input) : all_tokens[i] = call.input[i]
    /\ NumNew <= call.n_new
    /\ \A i \in Len(call.input) + 1 .. Len(all_tokens) : ~ Stops(all_tokens[i])

(* A hidden state is there after the first position.                         *)
HiddenThere ==
  call.loop # "score" /\ pc \in {"embed", "head"} => (x = NoHidden <=> pos = 0)

Scoring ==
  pc # "idle" /\ call.loop = "score" =>
    Len(scored) = pos /\ \A i \in 1 .. pos : scored[i] = call.input[i + 1]

Ended == EndsAtEosOrBudget /\ FailsOnlyPastCapacity /\ ScoresEveryNextToken

Control == DTypes /\ Where /\ Growing /\ HiddenThere /\ Scoring /\ (pc = "idle" => Ended)

-----------------------------------------------------------------------------
(* What the arguments of a call are.                                         *)
LEMMA CallShape ==
  ASSUME NEW c \in Calls
  PROVE  /\ c.loop \in {"generate", "score", "calibrate"} /\ c.layer_fn \in LayerFns
         /\ c.input \in Seq(Tokens) /\ c.n_new \in Nat
         /\ c.loop # "generate" => c.n_new = 0
<1>1. \A s \in BoundedSeq(Tokens, MaxInput) : s \in Seq(Tokens)
  BY DecodeAssumption DEF BoundedSeq, SeqOf
<1>2. 0 .. MaxNew \subseteq Nat
  OBVIOUS
<1>3. ASSUME NEW f \in LayerFns, c \in generate(f)
      PROVE  /\ c.loop = "generate" /\ c.layer_fn = f
             /\ c.input \in BoundedSeq(Tokens, MaxInput) /\ c.n_new \in 0 .. MaxNew
  BY <1>3 DEF generate
<1>4. ASSUME NEW S, NEW n, c \in FedOnly(n, S)
      PROVE  /\ c.loop = n /\ c.layer_fn \in S
             /\ c.input \in BoundedSeq(Tokens, MaxInput) /\ c.n_new = 0
  BY <1>4 DEF FedOnly
<1>5. CASE \E f \in LayerFns : c \in generate(f)
  BY <1>1, <1>2, <1>3, <1>5
<1>6. CASE c \in FedOnly("score", LayerFns) \/ c \in FedOnly("calibrate", {"dip"})
  BY <1>1, <1>4, <1>6 DEF LayerFns
<1>7. QED
  BY <1>5, <1>6 DEF Calls, generate_streaming, generate_dip, generate_cached_dip, teacher_forced_nll,
                    calibrate_channel_frequencies, LayerFns

(* The tokens fed before anything is drawn.                                  *)
LEMMA FedFacts ==
  ASSUME Shape
  PROVE  /\ Len(Fed) \in Nat /\ Len(Fed) <= Len(call.input)
         /\ call.loop # "score" => Fed = call.input
         /\ call.loop = "score" /\ call.input # <<>> => Len(Fed) = Len(call.input) - 1
         /\ call.input = <<>> => Fed = <<>>
         /\ \A i \in 1 .. Len(Fed) : Fed[i] = call.input[i] /\ Fed[i] \in Tokens
         /\ Fed # <<>> => Len(Fed) > 0
<1>1. CASE call.loop = "score" /\ call.input # <<>>
  <2>1. /\ Len(call.input) \in Nat /\ Len(call.input) >= 1
        /\ \A i \in 1 .. Len(call.input) : call.input[i] \in Tokens
    BY <1>1 DEF Shape
  <2>2. Fed = SubSeq(call.input, 1, Len(call.input) - 1)
    BY <1>1 DEF Fed, Front
  <2>3. /\ Fed \in Seq(Tokens) /\ Len(Fed) = Len(call.input) - 1
        /\ \A i \in 1 .. Len(call.input) - 1 : Fed[i] = call.input[i]
    BY <2>1, <2>2 DEF Shape
  <2>4. Fed # <<>> => Len(Fed) > 0
    BY <2>3
  <2>5. QED
    BY <1>1, <2>1, <2>3, <2>4
<1>2. CASE ~ (call.loop = "score" /\ call.input # <<>>)
  <2>1. Fed = call.input /\ Len(call.input) \in Nat
    BY <1>2 DEF Fed, Shape
  <2>2. Fed # <<>> => Len(Fed) > 0
    BY <2>1 DEF Shape
  <2>3. \A i \in 1 .. Len(Fed) : Fed[i] \in Tokens
    BY <2>1 DEF Shape
  <2>4. QED
    BY <1>2, <2>1, <2>2, <2>3
<1>3. QED
  BY <1>1, <1>2

(* The invariant holds at the start.                                          *)
LEMMA ControlInit == Init => Control
<1> SUFFICES ASSUME Init PROVE Control
  OBVIOUS
<1>1. DTypes
  BY DecodeAssumption DEF Init, DTypes, Shape, LayerFns, NewCaches, Layers
<1>2. Ended
  BY DEF Init, Ended, EndsAtEosOrBudget, FailsOnlyPastCapacity, ScoresEveryNextToken
<1>3. QED
  BY <1>1, <1>2 DEF Init, Control, Where, Growing, HiddenThere, Scoring

(* The action Begin keeps the invariant.                                     *)
LEMMA BeginKeeps == Control /\ Begin => Control'
<1> SUFFICES ASSUME Control, Begin PROVE Control'
  OBVIOUS
<1>1. PICK c \in Calls : call' = c /\ all_tokens' = c.input
  BY DEF Begin
<1>2. /\ pc' = "embed" /\ layer' = 0 /\ pos' = 0 /\ x' = NoHidden /\ kv' = NewCaches
      /\ scored' = <<>> /\ status' = "none"
  BY DEF Begin
<1>3. Shape'
  BY <1>1, CallShape DEF Shape
<1>4. DTypes'
  BY <1>1, <1>2, <1>3, DecodeAssumption DEF DTypes, Shape, NewCaches, Layers
<1>5. Len(Fed)' \in Nat
  BY <1>3, FedFacts
<1>6. Where'
  BY <1>1, <1>2, <1>5, DecodeAssumption DEF Where
<1>7. Growing'
  BY <1>1, <1>2, <1>3 DEF Growing, Shape, NumNew
<1>8. HiddenThere' /\ Scoring'
  BY <1>2 DEF HiddenThere, Scoring
<1>9. QED
  BY <1>2, <1>4, <1>6, <1>7, <1>8 DEF Control

(* What a step that leaves the caller's arguments alone leaves alone.        *)
LEMMA CallStays ==
  ASSUME call' = call
  PROVE  Fed' = Fed /\ (Shape => Shape') /\ \A t : Stops(t)' = Stops(t)
BY DEF Fed, Shape, Stops

(* The action Embed keeps the invariant.                                     *)
LEMMA EmbedKeeps == Control /\ EmbedNext => Control'
<1> SUFFICES ASSUME Control, EmbedNext PROVE Control'
  OBVIOUS
<1>1. /\ pc = "embed" /\ pos < Len(Fed) /\ x' = Embed(Fed[pos + 1]) /\ pc' = "layer"
      /\ UNCHANGED <<call, pipeline, layer, pos, kv, all_tokens, scored, status>>
  BY DEF EmbedNext
<1>2. Fed' = Fed /\ (Shape => Shape') /\ \A t : Stops(t)' = Stops(t)
  BY <1>1, CallStays
<1>3. DTypes'
  BY <1>1, <1>2 DEF Control, DTypes
<1>4. Where'
  BY <1>1, <1>2 DEF Control, Where, Feeding
<1>5. Growing'
  BY <1>1, <1>2 DEF Control, Growing, NumNew
<1>6. HiddenThere' /\ Scoring'
  BY <1>1 DEF Control, HiddenThere, Scoring
<1>7. QED
  BY <1>1, <1>3, <1>4, <1>5, <1>6 DEF Control

(* A call that ends on the tokens fed has drawn none.                        *)
LEMMA PrefixOfItself ==
  ASSUME NEW S, NEW s \in Seq(S)
  PROVE  IsPrefix(s, s) /\ SubSeq(s, Len(s) + 1, Len(s)) = <<>>
BY DEF IsPrefix

(* The action EndInput keeps the invariant.                                  *)
LEMMA EndInputKeeps == Control /\ EndInput => Control'
<1> SUFFICES ASSUME Control, EndInput PROVE Control'
  OBVIOUS
<1>1. /\ pc = "embed" /\ pos = Len(Fed)
      /\ UNCHANGED <<call, pipeline, layer, x, kv, all_tokens, scored>>
  BY DEF EndInput
<1>2. Fed' = Fed /\ (Shape => Shape') /\ \A t : Stops(t)' = Stops(t)
  BY <1>1, CallStays
<1>3. Shape /\ layer = 0 /\ status = "none" /\ all_tokens = call.input /\ pos <= max_seq_len
  BY <1>1 DEF Control, DTypes, Where
<1>4. /\ Len(Fed) \in Nat
      /\ call.loop # "score" => Fed = call.input
      /\ call.loop = "score" /\ call.input # <<>> => Len(Fed) = Len(call.input) - 1
      /\ call.input = <<>> => Fed = <<>>
      /\ Fed # <<>> => Len(Fed) > 0
  BY <1>3, FedFacts
<1>5. CASE call.loop = "generate" /\ pc' = "head" /\ pos' = StartPos(Len(Fed)) /\ UNCHANGED status
  <2>1. DTypes'
    BY <1>1, <1>2, <1>4, <1>5 DEF Control, DTypes, StartPos
  <2>2. Where'
    BY <1>1, <1>2, <1>3, <1>4, <1>5 DEF Where, StartPos
  <2>3. Growing'
    BY <1>1, <1>2, <1>5 DEF Control, Growing, NumNew
  <2>4. HiddenThere' /\ Scoring'
    BY <1>1, <1>5 DEF Control, HiddenThere, Scoring, StartPos
  <2>5. QED
    BY <1>5, <2>1, <2>2, <2>3, <2>4 DEF Control
<1>6. CASE /\ call.loop = "calibrate" \/ (call.loop = "score" /\ Fed # <<>>)
           /\ Return /\ UNCHANGED pos
  <2>1. DTypes'
    BY <1>1, <1>2, <1>6 DEF Control, DTypes, Return
  <2>2. Where' /\ Growing' /\ HiddenThere' /\ Scoring'
    BY <1>1, <1>3, <1>6 DEF Where, Growing, HiddenThere, Scoring, Return
  <2>3. EndsAtEosOrBudget'
    BY <1>1, <1>6 DEF EndsAtEosOrBudget
  <2>4. FailsOnlyPastCapacity'
    BY <1>1, <1>2, <1>3, <1>6 DEF FailsOnlyPastCapacity, Return
  <2>5. ScoresEveryNextToken'
    <3>1. SUFFICES ASSUME call.loop = "score", call.input # <<>> PROVE scored = Tail(call.input)
      BY <1>1, <1>4, <1>6 DEF ScoresEveryNextToken
    <3>2. /\ Len(scored) = Len(call.input) - 1
          /\ \A i \in 1 .. Len(call.input) - 1 : scored[i] = call.input[i + 1]
      BY <1>1, <1>4, <3>1 DEF Control, Scoring
    <3>3. scored \in Seq(Tokens) /\ call.input \in Seq(Tokens)
      BY <1>3 DEF Control, DTypes, Shape
    <3>4. /\ Tail(call.input) \in Seq(Tokens) /\ Len(Tail(call.input)) = Len(call.input) - 1
          /\ \A i \in 1 .. Len(call.input) - 1 : Tail(call.input)[i] = call.input[i + 1]
      BY <3>1, <3>3, HeadTailProperties
    <3>5. QED
      BY <3>2, <3>3, <3>4, SeqEqual
  <2>6. QED
    BY <2>1, <2>2, <2>3, <2>4, <2>5 DEF Control, Ended
<1>7. CASE call.loop = "score" /\ Fed = <<>> /\ Throw /\ UNCHANGED pos
  <2>1. DTypes'
    BY <1>1, <1>2, <1>7 DEF Control, DTypes, Throw
  <2>2. Where' /\ Growing' /\ HiddenThere' /\ Scoring'
    BY <1>1, <1>3, <1>7 DEF Where, Growing, HiddenThere, Scoring, Throw
  <2>3. Ended'
    BY <1>1, <1>2, <1>7 DEF Ended, EndsAtEosOrBudget, FailsOnlyPastCapacity, ScoresEveryNextToken, Throw
  <2>4. QED
    BY <2>1, <2>2, <2>3 DEF Control
<1>8. QED
  BY <1>5, <1>6, <1>7 DEF EndInput

(* A hidden state is not the lack of one.                                    *)
LEMMA LayerOutThere ==
  ASSUME NEW f \in LayerFns, NEW W, NEW l, NEW h, NEW rows, NEW p
  PROVE  LayerOut(f, W, l, h, rows, p) # NoHidden
<1>1. \A h2, gate, up, down : Mlp(h2, l, gate, up, down) # NoHidden
  BY DEF Mlp, NoHidden
<1>2. QED
  BY <1>1 DEF LayerOut, LayerFns, run_decoder_layer_streaming, run_decoder_layer_dip,
              run_decoder_layer_cached_dip

(* The action Run keeps the invariant.                                       *)
LEMMA RunKeeps == Control /\ RunLayer => Control'
<1> SUFFICES ASSUME Control, RunLayer PROVE Control'
  OBVIOUS
<1>1. /\ pc = "layer" /\ pos < max_seq_len
      /\ UNCHANGED <<call, all_tokens, scored, status>>
  BY DEF RunLayer
<1> DEFINE last == layer = NumLayers - 1
<1>2. /\ layer' = IF last THEN 0 ELSE layer + 1
      /\ pc' = IF ~ last THEN "layer" ELSE IF call.loop = "score" \/ Generating THEN "head" ELSE "embed"
      /\ pos' = IF last /\ call.loop # "score" THEN pos + 1 ELSE pos
  BY DEF RunLayer
<1>3. Fed' = Fed /\ (Shape => Shape') /\ \A t : Stops(t)' = Stops(t)
  BY <1>1, CallStays
<1>4. Shape /\ status = "none" /\ layer \in 0 .. NumLayers - 1 /\ pos \in Nat
  BY <1>1 DEF Control, DTypes, Where, Layers
<1>5. /\ Len(Fed) \in Nat /\ Len(Fed) <= Len(call.input)
      /\ call.loop # "score" => Fed = call.input
  BY <1>4, FedFacts
<1>6. x' # NoHidden
  <2>1. PICK W, rows : x' = LayerOut(call.layer_fn, W, layer, x, rows, pos)
    BY DEF RunLayer
  <2>2. QED
    BY <1>4, <2>1, LayerOutThere DEF Shape
<1>7. \/ Feeding
      \/ /\ call.loop = "generate" /\ Generating
         /\ pos + 1 = Len(all_tokens) /\ Len(call.input) <= max_seq_len
  BY <1>1 DEF Control, Where
<1>8. DTypes'
  <2>1. DOMAIN kv' = DOMAIN kv /\ \A l \in DOMAIN kv : DOMAIN kv'[l] = DOMAIN kv[l]
    BY DEF RunLayer
  <2>2. layer' \in Layers /\ pos' \in Nat /\ pc' \in {"idle", "embed", "layer", "head"}
    BY <1>2, <1>4, DecodeAssumption DEF Layers
  <2>3. QED
    BY <1>1, <1>3, <2>1, <2>2 DEF Control, DTypes
<1>9. Generating' = Generating /\ (Feeding => all_tokens' = call'.input) /\ (Feeding => ~ Generating)
  BY <1>1, <1>4 DEF Generating, Feeding, Shape
<1>10. Len(all_tokens) \in Nat /\ Len(call.input) \in Nat /\ max_seq_len \in Nat
  BY <1>4, DecodeAssumption DEF Control, DTypes, Shape
<1>11. Where'
  <2>1. CASE ~ last
    BY <1>1, <1>2, <1>3, <1>4, <1>7, <1>9, <2>1 DEF Where, Feeding
  <2>2. CASE last /\ Feeding
    BY <1>1, <1>2, <1>3, <1>4, <1>5, <1>9, <1>10, <2>2 DEF Where, Feeding, Shape
  <2>3. CASE last /\ ~ Feeding
    BY <1>1, <1>2, <1>3, <1>4, <1>5, <1>7, <1>9, <1>10, <2>3 DEF Where
  <2>4. QED
    BY <2>1, <2>2, <2>3
<1>12. Growing'
  BY <1>1, <1>3 DEF Control, Growing, NumNew
<1>13. HiddenThere'
  BY <1>1, <1>2, <1>4, <1>6 DEF HiddenThere
<1>14. Scoring'
  BY <1>1, <1>2 DEF Control, Scoring
<1>15. pc' # "idle"
  BY <1>2
<1>16. QED
  BY <1>8, <1>11, <1>12, <1>13, <1>14, <1>15 DEF Control

(* The action AppendRaises keeps the invariant.                              *)
LEMMA AppendRaisesKeeps == Control /\ AppendRaises => Control'
<1> SUFFICES ASSUME Control, AppendRaises PROVE Control'
  OBVIOUS
<1>1. /\ pc = "layer" /\ pos >= max_seq_len /\ pc' = "idle" /\ status' = "raised"
      /\ UNCHANGED <<call, layer, pos, x, kv, all_tokens, scored>>
  BY DEF AppendRaises, Throw
<1>2. Fed' = Fed /\ (Shape => Shape')
  BY <1>1, CallStays
<1>3. Shape /\ pos \in Nat /\ all_tokens \in Seq(Tokens) /\ layer \in Layers
  BY DEF Control, DTypes
<1>4. Len(Fed) \in Nat /\ (call.loop # "score" => Fed = call.input)
  BY <1>3, FedFacts
<1>5. DTypes'
  BY <1>1, <1>2 DEF Control, DTypes
<1>6. Where' /\ Growing' /\ HiddenThere' /\ Scoring'
  BY <1>1 DEF Control, Where, Growing, HiddenThere, Scoring
<1>7. Len(Fed) + call.n_new > max_seq_len
  <2>1. call.n_new \in Nat /\ Len(call.input) \in Nat /\ Len(all_tokens) \in Nat /\ max_seq_len \in Nat
    BY <1>3, DecodeAssumption DEF Shape
  <2>2. CASE Feeding
    BY <1>1, <1>3, <1>4, <2>1, <2>2 DEF Feeding
  <2>3. CASE ~ Feeding
    <3>1. call.loop = "generate" /\ pos + 1 = Len(all_tokens) /\ Len(call.input) <= max_seq_len
      BY <1>1, <2>3 DEF Control, Where
    <3>2. Len(all_tokens) - Len(call.input) <= call.n_new
      BY <1>1 DEF Control, Growing, NumNew
    <3>3. QED
      BY <1>1, <1>3, <1>4, <2>1, <3>1, <3>2
  <2>4. QED
    BY <2>2, <2>3
<1>8. Ended'
  BY <1>1, <1>2, <1>7 DEF Ended, EndsAtEosOrBudget, FailsOnlyPastCapacity, ScoresEveryNextToken
<1>9. QED
  BY <1>5, <1>6, <1>8 DEF Control

(* The action Score keeps the invariant.                                     *)
LEMMA ScoreKeeps == Control /\ Score => Control'
<1> SUFFICES ASSUME Control, Score PROVE Control'
  OBVIOUS
<1>1. /\ pc = "head" /\ call.loop = "score" /\ scored' = Append(scored, call.input[pos + 2])
      /\ pos' = pos + 1 /\ pc' = "embed"
      /\ UNCHANGED <<call, pipeline, layer, x, kv, all_tokens, status>>
  BY DEF Score, Target
<1>2. Fed' = Fed /\ (Shape => Shape') /\ \A t : Stops(t)' = Stops(t)
  BY <1>1, CallStays
<1>3. Shape /\ pos \in Nat /\ scored \in Seq(Tokens) /\ Feeding /\ pos < max_seq_len /\ layer = 0
  BY <1>1 DEF Control, DTypes, Where
<1>4. Len(Fed) \in Nat /\ (call.input # <<>> => Len(Fed) = Len(call.input) - 1)
      /\ (call.input = <<>> => Fed = <<>>)
  BY <1>1, <1>3, FedFacts
<1>5. Len(call.input) \in Nat /\ pos < Len(Fed) /\ max_seq_len \in Nat
  BY <1>3, DecodeAssumption DEF Shape, Feeding
<1>6. call.input # <<>> /\ pos + 2 \in 1 .. Len(call.input)
  BY <1>3, <1>4, <1>5
<1>7. call.input[pos + 2] \in Tokens
  BY <1>3, <1>6 DEF Shape
<1>8. scored' \in Seq(Tokens) /\ Len(scored') = Len(scored) + 1
      /\ \A i \in 1 .. Len(scored') : scored'[i] = IF i = Len(scored) + 1 THEN call.input[pos + 2] ELSE scored[i]
  BY <1>1, <1>3, <1>7, AppendProperties
<1>9. DTypes'
  BY <1>1, <1>2, <1>3, <1>8 DEF Control, DTypes
<1>10. Where'
  BY <1>1, <1>2, <1>3, <1>5 DEF Control, Where, Feeding
<1>11. Growing'
  BY <1>1, <1>2 DEF Control, Growing, NumNew
<1>12. Scoring'
  <2>1. Len(scored) = pos /\ \A i \in 1 .. pos : scored[i] = call.input[i + 1]
    BY <1>1 DEF Control, Scoring
  <2>2. \A i \in 1 .. pos + 1 : scored'[i] = call.input[i + 1]
    BY <1>3, <1>8, <2>1
  <2>3. QED
    BY <1>1, <1>8, <2>1, <2>2 DEF Scoring
<1>13. QED
  BY <1>1, <1>9, <1>10, <1>11, <1>12 DEF Control, HiddenThere

(* The tokens behind a prefix.                                               *)
LEMMA BehindPrefix ==
  ASSUME NEW s \in Seq(Tokens), NEW p \in Seq(Tokens), Len(p) <= Len(s),
         \A i \in 1 .. Len(p) : s[i] = p[i]
  PROVE  /\ IsPrefix(p, s)
         /\ SubSeq(s, Len(p) + 1, Len(s)) \in Seq(Tokens)
         /\ Len(SubSeq(s, Len(p) + 1, Len(s))) = Len(s) - Len(p)
         /\ \A i \in 1 .. Len(s) - Len(p) : SubSeq(s, Len(p) + 1, Len(s))[i] = s[Len(p) + i]
<1>1. Len(p) \in Nat /\ Len(s) \in Nat
  OBVIOUS
<1>2. SubSeq(p, 1, Len(p)) = SubSeq(s, 1, Len(p))
  <2>1. /\ SubSeq(p, 1, Len(p)) \in Seq(Tokens) /\ Len(SubSeq(p, 1, Len(p))) = Len(p)
        /\ \A i \in 1 .. Len(p) : SubSeq(p, 1, Len(p))[i] = p[i]
    BY <1>1
  <2>2. /\ SubSeq(s, 1, Len(p)) \in Seq(Tokens) /\ Len(SubSeq(s, 1, Len(p))) = Len(p)
        /\ \A i \in 1 .. Len(p) : SubSeq(s, 1, Len(p))[i] = s[i]
    BY <1>1
  <2>3. QED
    BY <2>1, <2>2, SeqEqual
<1>3. /\ \A i \in Len(p) + 1 .. Len(s) : s[i] \in Tokens
      /\ Len(p) + 1 \in Nat
  BY <1>1
<1>4. SubSeq(s, Len(p) + 1, Len(s)) = [i \in 1 .. Len(s) - Len(p) |-> s[Len(p) + i]]
  BY <1>1 DEF SubSeq
<1>5. QED
  BY <1>1, <1>2, <1>3, <1>4 DEF IsPrefix

(* Tokens behind a prefix of which only the last can be e.                   *)
EndsOn(s, p, e) ==
  LET new == SubSeq(s, Len(p) + 1, Len(s))
  IN  /\ IsPrefix(p, s)
      /\ Len(new) = Len(s) - Len(p)
      /\ \A i \in DOMAIN new : new[i] = e => i = Len(new)
      /\ Len(s) > Len(p) => new # <<>> /\ Last(new) = s[Len(s)]

(* A sequence ends on e if no token drawn before its last is e.              *)
LEMMA OnlyTheLast ==
  ASSUME NEW s \in Seq(Tokens), NEW p \in Seq(Tokens), NEW e, Len(p) <= Len(s),
         \A i \in 1 .. Len(p) : s[i] = p[i],
         \A i \in Len(p) + 1 .. Len(s) : i < Len(s) => s[i] # e
  PROVE  EndsOn(s, p, e)
<1>1. PICK new : new = SubSeq(s, Len(p) + 1, Len(s))
  OBVIOUS
<1>2. Len(p) \in Nat /\ Len(s) \in Nat
  OBVIOUS
<1>3. /\ IsPrefix(p, s) /\ new \in Seq(Tokens) /\ Len(new) = Len(s) - Len(p)
      /\ \A i \in 1 .. Len(s) - Len(p) : new[i] = s[Len(p) + i]
  BY <1>1, BehindPrefix
<1>4. DOMAIN new = 1 .. Len(new)
  BY <1>3
<1>5. \A i \in DOMAIN new : new[i] = e => i = Len(new)
  <2>1. SUFFICES ASSUME NEW i \in 1 .. Len(new), new[i] = e, i # Len(new) PROVE FALSE
    BY <1>4
  <2>2. Len(p) + i \in Len(p) + 1 .. Len(s) /\ Len(p) + i < Len(s) /\ i \in 1 .. Len(s) - Len(p)
    <3>1. PICK m \in Nat, n \in Nat : m = Len(p) /\ n = Len(s) /\ Len(new) = n - m
      BY <1>2, <1>3
    <3>2. i \in 1 .. n - m /\ i # n - m
      BY <2>1, <3>1
    <3>3. m + i \in m + 1 .. n /\ m + i < n
      BY <3>2
    <3>4. QED
      BY <3>1, <3>2, <3>3
  <2>3. new[i] = s[Len(p) + i]
    BY <1>3, <2>2
  <2>4. QED
    BY <2>1, <2>2, <2>3
<1>6. Len(s) > Len(p) => new # <<>> /\ Last(new) = s[Len(s)]
  BY <1>2, <1>3, <1>4 DEF Last
<1>7. /\ IsPrefix(p, s) /\ Len(new) = Len(s) - Len(p)
      /\ \A i \in DOMAIN new : new[i] = e => i = Len(new)
      /\ Len(s) > Len(p) => new # <<>> /\ Last(new) = s[Len(s)]
  BY <1>3, <1>5, <1>6
<1>8. QED
  BY <1>1, <1>7, Zenon DEF EndsOn

(* The action Draw keeps the invariant.                                      *)
LEMMA DrawKeeps == Control /\ (\E t \in Tokens : Draw(t)) => Control'
<1> SUFFICES ASSUME Control, NEW t \in Tokens, Draw(t) PROVE Control'
  OBVIOUS
<1>1. /\ pc = "head" /\ call.loop = "generate" /\ NumNew < call.n_new /\ x # NoHidden
      /\ all_tokens' = Append(all_tokens, t)
      /\ UNCHANGED <<call, pipeline, layer, pos, kv, scored>>
  BY DEF Draw
<1>2. Fed' = Fed /\ (Shape => Shape') /\ \A u : Stops(u)' = Stops(u)
  BY <1>1, CallStays
<1>3. /\ Shape /\ all_tokens \in Seq(Tokens) /\ pos \in Nat /\ layer = 0
      /\ pos = Len(all_tokens) /\ Len(call.input) <= max_seq_len /\ status = "none"
  BY <1>1 DEF Control, DTypes, Where
<1>4. Fed = call.input
  BY <1>1, <1>3, FedFacts
<1>5. /\ Len(call.input) \in Nat /\ Len(all_tokens) \in Nat /\ call.n_new \in Nat /\ max_seq_len \in Nat
      /\ Len(call.input) <= Len(all_tokens)
      /\ \A i \in 1 .. Len(call.input) : all_tokens[i] = call.input[i]
      /\ \A i \in Len(call.input) + 1 .. Len(all_tokens) : ~ Stops(all_tokens[i])
      /\ Len(all_tokens) - Len(call.input) < call.n_new
  BY <1>1, <1>3, DecodeAssumption DEF Control, Growing, NumNew, Shape
<1>6. /\ all_tokens' \in Seq(Tokens) /\ Len(all_tokens') = Len(all_tokens) + 1
      /\ \A i \in 1 .. Len(all_tokens) + 1 :
           all_tokens'[i] = IF i = Len(all_tokens) + 1 THEN t ELSE all_tokens[i]
  BY <1>1, <1>3, AppendProperties
<1>7. \A i \in 1 .. Len(call.input) : all_tokens'[i] = call.input[i]
  BY <1>5, <1>6
<1>8. CASE Stops(t) /\ Return /\ UNCHANGED x
  <2>1. DTypes'
    BY <1>1, <1>2, <1>6, <1>8 DEF Control, DTypes, Return
  <2>2. Where' /\ Growing' /\ HiddenThere' /\ Scoring'
    BY <1>1, <1>3, <1>8 DEF Where, Growing, HiddenThere, Scoring, Return
  <2>3. t = call.eos /\ call.eos # None
    BY <1>8 DEF Stops
  <2>4. EndsAtEosOrBudget'
    <3>1. PICK s \in Seq(Tokens) : s = all_tokens'
      BY <1>6
    <3>2. PICK p \in Seq(Tokens) : p = call.input
      BY <1>3 DEF Shape
    <3>3. Len(p) <= Len(s) /\ \A i \in 1 .. Len(p) : s[i] = p[i]
      BY <1>5, <1>6, <1>7, <3>1, <3>2
    <3>4. \A i \in Len(p) + 1 .. Len(s) : i < Len(s) => s[i] # call.eos
      BY <1>5, <1>6, <2>3, <3>1, <3>2 DEF Stops
    <3>5. EndsOn(s, p, call.eos)
      BY <3>3, <3>4, OnlyTheLast
    <3>6. Len(s) > Len(p) /\ s[Len(s)] = call.eos
      BY <1>5, <1>6, <2>3, <3>1, <3>2
    <3>7. QED
      BY <1>1, <3>1, <3>2, <3>5, <3>6 DEF EndsOn, EndsAtEosOrBudget
  <2>5. FailsOnlyPastCapacity' /\ ScoresEveryNextToken'
    BY <1>1, <1>2, <1>3, <1>4, <1>8 DEF FailsOnlyPastCapacity, ScoresEveryNextToken, Return
  <2>6. QED
    BY <2>1, <2>2, <2>4, <2>5 DEF Control, Ended
<1>9. CASE ~ Stops(t) /\ x' = Embed(t) /\ pc' = "layer" /\ UNCHANGED status
  <2>1. DTypes'
    BY <1>1, <1>2, <1>6, <1>9 DEF Control, DTypes
  <2>2. Where'
    BY <1>1, <1>3, <1>5, <1>6, <1>9 DEF Where, Generating
  <2>3. Growing'
    <3>1. \A i \in Len(call.input) + 1 .. Len(all_tokens) + 1 : ~ Stops(all_tokens'[i])
      BY <1>5, <1>6, <1>9
    <3>2. call' = call
      BY <1>1, <1>2
    <3>3. Len(call.input) <= Len(all_tokens') /\ Len(all_tokens') - Len(call.input) <= call.n_new
      <4>1. PICK m \in Nat, n \in Nat, k \in Nat :
              m = Len(call.input) /\ n = Len(all_tokens) /\ k = call.n_new
        BY <1>5
      <4>2. m <= n /\ n - m < k /\ Len(all_tokens') = n + 1
        BY <1>5, <1>6, <4>1
      <4>3. m <= n + 1 /\ (n + 1) - m <= k
        BY <4>2
      <4>4. Len(call.input) <= Len(all_tokens')
        BY <4>1, <4>2, <4>3, Zenon
      <4>5. Len(all_tokens') - Len(call.input) <= call.n_new
        <5>1. Len(all_tokens') - Len(call.input) = (n + 1) - m
          BY <4>1, <4>2, Zenon
        <5>2. QED
          BY <4>1, <4>3, <5>1, Zenon
      <4>6. QED
        BY <4>4, <4>5
    <3>4. NumNew' <= call'.n_new
      BY <3>2, <3>3 DEF NumNew
    <3>5. \A i \in Len(call'.input) + 1 .. Len(all_tokens') : ~ Stops(all_tokens[i])'
      BY <1>1, <1>6, <3>1 DEF Stops
    <3>6. \A i \in 1 .. Len(call'.input) : all_tokens'[i] = call'.input[i]
      BY <1>7, <3>2
    <3>7. QED
      BY <3>2, <3>3, <3>4, <3>5, <3>6 DEF Growing, Stops
  <2>4. HiddenThere' /\ Scoring'
    BY <1>1, <1>9 DEF HiddenThere, Scoring
  <2>5. QED
    BY <1>9, <2>1, <2>2, <2>3, <2>4 DEF Control
<1>10. QED
  BY <1>8, <1>9 DEF Draw

(* The action DrawRaises keeps the invariant.                                *)
LEMMA DrawRaisesKeeps == Control /\ DrawRaises => Control'
<1> SUFFICES ASSUME Control, DrawRaises PROVE Control'
  OBVIOUS
<1>1. /\ pc = "head" /\ call.loop = "generate" /\ x = NoHidden /\ pc' = "idle" /\ status' = "raised"
      /\ UNCHANGED <<call, pipeline, layer, pos, x, kv, all_tokens, scored>>
  BY DEF DrawRaises, Throw
<1>2. Fed' = Fed /\ (Shape => Shape')
  BY <1>1, CallStays
<1>3. DTypes'
  BY <1>1, <1>2 DEF Control, DTypes
<1>4. Where' /\ Growing' /\ HiddenThere' /\ Scoring'
  BY <1>1 DEF Control, Where, Growing, HiddenThere, Scoring
<1>5. Fed = <<>>
  <2>1. Shape /\ pos = 0 /\ pos = Len(all_tokens) /\ Len(call.input) <= Len(all_tokens)
    BY <1>1 DEF Control, DTypes, Where, HiddenThere, Growing
  <2>2. call.input = <<>>
    BY <2>1 DEF Shape
  <2>3. QED
    BY <2>1, <2>2, FedFacts
<1>6. Ended'
  BY <1>1, <1>2, <1>5 DEF Ended, EndsAtEosOrBudget, FailsOnlyPastCapacity, ScoresEveryNextToken
<1>7. QED
  BY <1>3, <1>4, <1>6 DEF Control

(* The action EndLoop keeps the invariant.                                   *)
LEMMA EndLoopKeeps == Control /\ EndLoop => Control'
<1> SUFFICES ASSUME Control, EndLoop PROVE Control'
  OBVIOUS
<1>1. /\ pc = "head" /\ call.loop = "generate" /\ NumNew = call.n_new
      /\ pc' = "idle" /\ status' = "returned"
      /\ UNCHANGED <<call, pipeline, layer, pos, x, kv, all_tokens, scored>>
  BY DEF EndLoop, Return
<1>2. Fed' = Fed /\ (Shape => Shape')
  BY <1>1, CallStays
<1>3. DTypes'
  BY <1>1, <1>2 DEF Control, DTypes
<1>4. Where' /\ Growing' /\ HiddenThere' /\ Scoring'
  BY <1>1 DEF Control, Where, Growing, HiddenThere, Scoring
<1>5. /\ Shape /\ all_tokens \in Seq(Tokens) /\ Len(call.input) <= max_seq_len
      /\ Len(call.input) <= Len(all_tokens)
      /\ \A i \in 1 .. Len(call.input) : all_tokens[i] = call.input[i]
      /\ Len(all_tokens) - Len(call.input) = call.n_new
      /\ \A i \in Len(call.input) + 1 .. Len(all_tokens) : ~ Stops(all_tokens[i])
  BY <1>1 DEF Control, DTypes, Where, Growing, NumNew
<1>6. Fed = call.input
  BY <1>1, <1>5, FedFacts
<1>7. EndsAtEosOrBudget'
  <2>1. PICK s \in Seq(Tokens) : s = all_tokens
    BY <1>5
  <2>2. PICK p \in Seq(Tokens) : p = call.input
    BY <1>5 DEF Shape
  <2>3. \A i \in Len(p) + 1 .. Len(s) : s[i] # call.eos
    <3>1. ASSUME NEW i \in Len(p) + 1 .. Len(s) PROVE s[i] # call.eos
      <4>1. s[i] \in Tokens /\ ~ Stops(s[i])
        BY <1>5, <2>1, <2>2
      <4>2. QED
        BY <4>1, DecodeAssumption DEF Stops
    <3>2. QED
      BY <3>1
  <2>4. EndsOn(s, p, call.eos)
    BY <1>5, <2>1, <2>2, <2>3, OnlyTheLast
  <2>5. QED
    BY <1>1, <1>5, <2>1, <2>2, <2>4 DEF EndsOn, EndsAtEosOrBudget
<1>8. FailsOnlyPastCapacity' /\ ScoresEveryNextToken'
  BY <1>1, <1>2, <1>5, <1>6 DEF FailsOnlyPastCapacity, ScoresEveryNextToken
<1>9. QED
  BY <1>3, <1>4, <1>7, <1>8 DEF Control, Ended

(* Every step keeps the invariant.                                           *)
LEMMA ControlStep == Control /\ [Next]_vars => Control'
<1>1. ASSUME Control, UNCHANGED vars PROVE Control'
  <2>1. Fed' = Fed /\ Shape' = Shape /\ \A t : Stops(t)' = Stops(t)
    BY <1>1 DEF vars, Fed, Shape, Stops
  <2>2. Ended' = Ended
    BY <1>1, <2>1 DEF vars, Ended, EndsAtEosOrBudget, FailsOnlyPastCapacity, ScoresEveryNextToken
  <2>3. QED
    BY <1>1, <2>1, <2>2 DEF Control, DTypes, Where, Feeding, Growing, NumNew, Generating, HiddenThere,
                            Scoring, vars
<1>2. QED
  BY <1>1, BeginKeeps, EmbedKeeps, EndInputKeeps, RunKeeps, AppendRaisesKeeps, ScoreKeeps, DrawKeeps,
     DrawRaisesKeeps, EndLoopKeeps DEF Next

(* Control holds of every behaviour.                                         *)
LEMMA ControlInvariance == Spec => []Control
BY ControlInit, ControlStep, PTL DEF Spec

(* Whoever still runs has not ended.                                         *)
LEMMA ControlImpliesEnded == Control => Ended
<1> SUFFICES ASSUME Control, pc # "idle" PROVE Ended
  BY DEF Control
<1>1. status = "none"
  BY DEF Control, Where
<1>2. QED
  BY <1>1 DEF Ended, EndsAtEosOrBudget, FailsOnlyPastCapacity, ScoresEveryNextToken

(* generate_* returns the prompt and then the tokens drawn, up to the first  *)
(* end-of-sequence token among them or all n_new (generate.py:432-436).      *)
THEOREM StopsWhenItShould == Spec => []EndsAtEosOrBudget
<1>1. Ended => EndsAtEosOrBudget
  BY DEF Ended
<1>2. QED
  BY <1>1, ControlInvariance, ControlImpliesEnded, PTL

(* A call raises over a prompt only if its tokens may outgrow the caches,    *)
(* and never returns over one that did (bindings.cpp:462).                   *)
THEOREM RaisesOnlyPastCapacity == Spec => []FailsOnlyPastCapacity
<1>1. Ended => FailsOnlyPastCapacity
  BY DEF Ended
<1>2. QED
  BY <1>1, ControlInvariance, ControlImpliesEnded, PTL

(* teacher_forced_nll adds up the log-probability of each token but the      *)
(* first, once and in order (generate.py:546-549).                           *)
THEOREM ScoresInOrder == Spec => []ScoresEveryNextToken
<1>1. Ended => ScoresEveryNextToken
  BY DEF Ended
<1>2. QED
  BY <1>1, ControlInvariance, ControlImpliesEnded, PTL

-----------------------------------------------------------------------------
(* A pass over the layers, and where in it the pipeline stands.              *)
PipelineType == [layer_fn : LayerFns, next : Nat, held : BOOLEAN, whole : BOOLEAN]

Aligned ==
  /\ pipeline \in PipelineType
  /\ pc # "idle" => pipeline.layer_fn = call.layer_fn
  /\ pc # "idle" /\ pipeline.whole => pipeline.next = layer * NumGemvs(call.layer_fn)
  /\ status = "returned" /\ pipeline.whole => pipeline.next = 0

(* Which layer and matrix a place in the cycle of names belongs to.          *)
LEMMA PositionInPass ==
  ASSUME NEW k \in {5, 7}, NEW l \in Layers, NEW i \in 1 .. k
  PROVE  /\ (l * k + i - 1) % (NumLayers * k) = (l * k + i) - 1
         /\ ((l * k + i) - 1) \div k = l /\ ((l * k + i) - 1) % k = i - 1
         /\ ((l * k + i) - 1) + 1 \in 1 .. NumLayers * k
<1>1. NumLayers \in Nat /\ l \in Nat /\ l < NumLayers
  BY DecodeAssumption DEF Layers
<1>2. CASE k = 5
  <2>1. (l * 5 + i) - 1 \in Nat /\ NumLayers * 5 \in Nat /\ (l * 5 + i) - 1 < NumLayers * 5 /\ i \in 1 .. 5
    BY <1>1, <1>2
  <2>2. \A a, b \in Nat : a < b => a % b = a
    OBVIOUS
  <2>3. ((l * 5 + i) - 1) % (NumLayers * 5) = (l * 5 + i) - 1
    BY <2>1, <2>2
  <2>4. ((l * 5 + i) - 1) \div 5 = l /\ ((l * 5 + i) - 1) % 5 = i - 1
    BY <1>1, <2>1
  <2>5. l * 5 + i - 1 = (l * 5 + i) - 1
    BY <1>1, <2>1
  <2>6. (l * 5 + i - 1) % (NumLayers * 5) = (l * 5 + i) - 1
    BY <2>3, <2>5, Zenon
  <2>7. ((l * 5 + i) - 1) + 1 \in 1 .. NumLayers * 5
    BY <2>1
  <2>8. QED
    BY <1>2, <2>4, <2>6, <2>7, Zenon
<1>3. CASE k = 7
  <2>1. (l * 7 + i) - 1 \in Nat /\ NumLayers * 7 \in Nat /\ (l * 7 + i) - 1 < NumLayers * 7 /\ i \in 1 .. 7
    BY <1>1, <1>3
  <2>2. \A a, b \in Nat : a < b => a % b = a
    OBVIOUS
  <2>3. ((l * 7 + i) - 1) % (NumLayers * 7) = (l * 7 + i) - 1
    BY <2>1, <2>2
  <2>4. ((l * 7 + i) - 1) \div 7 = l /\ ((l * 7 + i) - 1) % 7 = i - 1
    BY <1>1, <2>1
  <2>5. l * 7 + i - 1 = (l * 7 + i) - 1
    BY <1>1, <2>1
  <2>6. (l * 7 + i - 1) % (NumLayers * 7) = (l * 7 + i) - 1
    BY <2>3, <2>5, Zenon
  <2>7. ((l * 7 + i) - 1) + 1 \in 1 .. NumLayers * 7
    BY <2>1
  <2>8. QED
    BY <1>3, <2>4, <2>6, <2>7, Zenon
<1>4. QED
  BY <1>2, <1>3

(* A layer function asks for as many matrices as its layer has in a pass.    *)
LEMMA PassShape ==
  ASSUME NEW f \in LayerFns
  PROVE  /\ NumGemvs(f) \in {5, 7} /\ Len(suffixes(f)) = NumGemvs(f)
         /\ f = "streaming" => NumGemvs(f) = 7
         /\ \A i \in 1 .. NumGemvs(f) : suffixes(f)[i] = LINEAR_SUFFIXES[i]
         /\ Len(per_token_sequence(f)) = NumLayers * NumGemvs(f)
         /\ \A j \in 1 .. NumLayers * NumGemvs(f) :
              per_token_sequence(f)[j] =
                <<(j - 1) \div NumGemvs(f), suffixes(f)[((j - 1) % NumGemvs(f)) + 1]>>
<1>1. NumGemvs(f) \in {5, 7} /\ Len(suffixes(f)) = NumGemvs(f) /\ (f = "streaming" => NumGemvs(f) = 7)
  BY DEF NumGemvs, suffixes, LINEAR_SUFFIXES, DIP_DENSE_SUFFIXES
<1>2. \A i \in 1 .. NumGemvs(f) : suffixes(f)[i] = LINEAR_SUFFIXES[i]
  <2>1. CASE f = "streaming"
    BY <2>1 DEF suffixes
  <2>2. CASE f # "streaming"
    <3>1. NumGemvs(f) = 5 /\ suffixes(f) = DIP_DENSE_SUFFIXES
      BY <2>2 DEF NumGemvs, suffixes
    <3>2. \A i \in 1 .. 5 : i = 1 \/ i = 2 \/ i = 3 \/ i = 4 \/ i = 5
      OBVIOUS
    <3>3. QED
      BY <3>1, <3>2 DEF DIP_DENSE_SUFFIXES, LINEAR_SUFFIXES
  <2>3. QED
    BY <2>1, <2>2
<1>3. per_token_sequence(f) =
        [j \in 1 .. NumLayers * NumGemvs(f) |->
           <<(j - 1) \div NumGemvs(f), suffixes(f)[((j - 1) % NumGemvs(f)) + 1]>>]
  BY <1>1 DEF per_token_sequence
<1>4. NumLayers * NumGemvs(f) \in Nat
  BY <1>1, DecodeAssumption
<1>5. Len(per_token_sequence(f)) = NumLayers * NumGemvs(f)
  BY <1>3, <1>4
<1>6. QED
  BY <1>1, <1>2, <1>3, <1>5

(* At the start of a layer, the matrices drawn are its own.                  *)
LEMMA DrawnAreOwn ==
  ASSUME pipeline.layer_fn \in LayerFns, layer \in Layers,
         pipeline.next = layer * NumGemvs(pipeline.layer_fn)
  PROVE  /\ \A i \in 1 .. NumGemvs(pipeline.layer_fn) :
              Drawn(NumGemvs(pipeline.layer_fn))[i] = Own(layer)[i]
         /\ After(NumGemvs(pipeline.layer_fn)) =
              IF layer = NumLayers - 1 THEN 0 ELSE (layer + 1) * NumGemvs(pipeline.layer_fn)
<1>1. PICK f \in LayerFns : f = pipeline.layer_fn
  OBVIOUS
<1>2. PICK k \in {5, 7} : k = NumGemvs(f)
  BY PassShape
<1>3. PassLength = NumLayers * k
  BY <1>1, <1>2, PassShape DEF PassLength
<1>4. ASSUME NEW i \in 1 .. k PROVE Drawn(k)[i] = Own(layer)[i]
  <2>1. Drawn(k)[i] = per_token_sequence(f)[((layer * k + i - 1) % (NumLayers * k)) + 1]
    BY <1>1, <1>2, <1>3 DEF Drawn
  <2>2. PICK j : j = ((layer * k + i) - 1) + 1
    OBVIOUS
  <2>3. /\ Drawn(k)[i] = per_token_sequence(f)[j] /\ j \in 1 .. NumLayers * k
        /\ (j - 1) \div k = layer /\ (j - 1) % k = i - 1
    <3>1. layer * k + i \in Int
      BY DecodeAssumption DEF Layers
    <3>2. j - 1 = (layer * k + i) - 1
      BY <2>2, <3>1
    <3>3. /\ (layer * k + i - 1) % (NumLayers * k) = (layer * k + i) - 1
          /\ ((layer * k + i) - 1) \div k = layer /\ ((layer * k + i) - 1) % k = i - 1
          /\ ((layer * k + i) - 1) + 1 \in 1 .. NumLayers * k
      BY PositionInPass, Zenon
    <3>4. QED
      BY <2>1, <2>2, <3>2, <3>3, Zenon
  <2>4. per_token_sequence(f)[j] = <<layer, suffixes(f)[(i - 1) + 1]>>
    BY <1>2, <2>3, PassShape
  <2>5. (i - 1) + 1 = i /\ suffixes(f)[i] = LINEAR_SUFFIXES[i]
    BY <1>2, PassShape
  <2>6. i \in DOMAIN LINEAR_SUFFIXES
    <3>1. DOMAIN LINEAR_SUFFIXES = 1 .. 7
      BY DEF LINEAR_SUFFIXES
    <3>2. QED
      BY <3>1
  <2>7. QED
    BY <2>3, <2>4, <2>5, <2>6 DEF Own
<1>5. After(k) = IF layer = NumLayers - 1 THEN 0 ELSE (layer + 1) * k
  <2>1. After(k) = (layer * k + k) % (NumLayers * k)
    BY <1>1, <1>2, <1>3 DEF After
  <2>2. layer \in Nat /\ NumLayers \in Nat /\ layer < NumLayers
    BY DecodeAssumption DEF Layers
  <2>3. /\ layer * k + k \in Nat /\ NumLayers * k \in Nat /\ layer * k + k = (layer + 1) * k
        /\ NumLayers * k > 0
        /\ layer # NumLayers - 1 => layer * k + k < NumLayers * k
        /\ layer = NumLayers - 1 => layer * k + k = NumLayers * k
    BY <2>2
  <2>4. \A a, b \in Nat : (a < b => a % b = a) /\ (b > 0 => b % b = 0)
    OBVIOUS
  <2>5. QED
    BY <2>1, <2>3, <2>4
<1>6. QED
  BY <1>1, <1>2, <1>4, <1>5

(* The invariant holds at the start.                                          *)
LEMMA AlignedInit == Init => Aligned
BY DEF Init, Aligned, PipelineType, LayerFns

(* Every step keeps the invariant.                                           *)
LEMMA AlignedStep == Control /\ Aligned /\ [Next]_vars => Aligned'
<1> SUFFICES ASSUME Control, Aligned, [Next]_vars PROVE Aligned'
  OBVIOUS
<1>1. pipeline \in PipelineType /\ Shape /\ (pc # "idle" => status = "none")
  BY DEF Aligned, PipelineType, Control, DTypes, Where
<1>2. CASE Begin
  <2>1. PICK c \in Calls :
          /\ call' = c
          /\ \/ pipeline' = [layer_fn |-> c.layer_fn, next |-> 0, held |-> c.loop = "score", whole |-> TRUE]
             \/ /\ pipeline.layer_fn = c.layer_fn
                /\ pipeline' = [pipeline EXCEPT !.whole = (@ /\ pipeline.next = 0)]
    BY <1>2 DEF Begin
  <2>2. c.layer_fn \in LayerFns
    BY CallShape
  <2>3. pc' = "embed" /\ layer' = 0 /\ status' = "none"
    BY <1>2 DEF Begin
  <2>4. NumGemvs(c.layer_fn) \in Nat
    BY <2>2, PassShape
  <2>5. CASE pipeline' = [layer_fn |-> c.layer_fn, next |-> 0, held |-> c.loop = "score", whole |-> TRUE]
    BY <2>1, <2>2, <2>3, <2>4, <2>5 DEF Aligned, PipelineType
  <2>6. CASE /\ pipeline.layer_fn = c.layer_fn
             /\ pipeline' = [pipeline EXCEPT !.whole = (@ /\ pipeline.next = 0)]
    <3>1. /\ pipeline'.layer_fn = c.layer_fn /\ pipeline'.next = pipeline.next
          /\ pipeline'.whole => pipeline.next = 0
          /\ pipeline' \in PipelineType
      BY <1>1, <2>6 DEF PipelineType
    <3>2. QED
      BY <2>1, <2>3, <2>4, <3>1 DEF Aligned, PipelineType
  <2>7. QED
    BY <2>1, <2>5, <2>6
<1>3. CASE RunLayer
  <2>1. pc = "layer" /\ pc' # "idle" /\ call' = call /\ status' = status
        /\ layer' = (IF layer = NumLayers - 1 THEN 0 ELSE layer + 1)
        /\ pipeline' = [pipeline EXCEPT !.next = After(NumGemvs(call.layer_fn))]
    BY <1>3 DEF RunLayer
  <2>2. pipeline.layer_fn = call.layer_fn /\ call.layer_fn \in LayerFns /\ layer \in Layers
    BY <1>1, <2>1 DEF Aligned, Shape, Control, DTypes
  <2>3. PICK k \in {5, 7} : k = NumGemvs(call.layer_fn)
    BY <2>2, PassShape
  <2>4. After(k) \in Nat
    <3>1. PassLength \in Nat \ {0}
      BY <2>2, <2>3, PassShape, DecodeAssumption DEF PassLength
    <3>2. pipeline.next + k \in Nat
      BY <1>1 DEF PipelineType
    <3>3. \A a \in Nat, b \in Nat \ {0} : a % b \in Nat
      OBVIOUS
    <3>4. QED
      BY <3>1, <3>2, <3>3 DEF After
  <2>5. /\ pipeline' \in PipelineType /\ pipeline'.layer_fn = pipeline.layer_fn
        /\ pipeline'.next = After(k) /\ pipeline'.whole = pipeline.whole
    BY <1>1, <2>1, <2>3, <2>4 DEF PipelineType
  <2>6. pipeline.whole => pipeline'.next = layer' * k
    <3>1. SUFFICES ASSUME pipeline.whole PROVE After(k) = layer' * k
      BY <2>5
    <3>2. pipeline.next = layer * NumGemvs(pipeline.layer_fn)
      BY <2>1, <2>2, <3>1 DEF Aligned
    <3>3. After(k) = IF layer = NumLayers - 1 THEN 0 ELSE (layer + 1) * k
      BY <2>2, <2>3, <3>2, DrawnAreOwn
    <3>4. QED
      BY <2>1, <3>3
  <2>7. QED
    BY <1>1, <2>1, <2>2, <2>3, <2>5, <2>6 DEF Aligned, PipelineType
<1>4. CASE AppendRaises
  <2>1. pc' = "idle" /\ status' = "raised" /\ call' = call
        /\ pipeline' = [pipeline EXCEPT !.next = After(3)]
    BY <1>4 DEF AppendRaises, Throw
  <2>2. After(3) \in Nat
    <3>1. pipeline.layer_fn \in LayerFns /\ pipeline.next + 3 \in Nat
      BY <1>1 DEF PipelineType
    <3>2. PassLength \in Nat \ {0}
      BY <3>1, PassShape, DecodeAssumption DEF PassLength
    <3>3. \A a \in Nat, b \in Nat \ {0} : a % b \in Nat
      OBVIOUS
    <3>4. QED
      BY <3>1, <3>2, <3>3 DEF After
  <2>3. pipeline' \in PipelineType
    BY <1>1, <2>1, <2>2 DEF PipelineType
  <2>4. QED
    BY <2>1, <2>3 DEF Aligned, PipelineType
<1>5. ASSUME UNCHANGED <<call, pipeline, layer>>, pc # "idle",
             pc' = "idle" => layer = 0 \/ status' # "returned"
      PROVE  Aligned'
  <2>1. NumGemvs(call.layer_fn) \in Nat
    BY <1>1, PassShape DEF Shape
  <2>2. CASE pc' = "idle"
    BY <1>5, <2>1, <2>2 DEF Aligned
  <2>3. CASE pc' # "idle" /\ status' # "returned"
    BY <1>5, <2>3 DEF Aligned
  <2>4. CASE pc' # "idle" /\ status' = "returned"
    <3>1. Control'
      BY ControlStep
    <3>2. FALSE
      BY <2>4, <3>1 DEF Control, Where
    <3>3. QED
      BY <3>2
  <2>5. QED
    BY <2>2, <2>3, <2>4
<1>6. CASE EmbedNext
  BY <1>5, <1>6 DEF EmbedNext
<1>7. CASE EndInput
  <2>1. pc = "embed" /\ layer = 0 /\ UNCHANGED <<call, pipeline, layer>>
    BY <1>7 DEF EndInput, Control, Where
  <2>2. QED
    BY <1>5, <2>1
<1>8. CASE Score
  BY <1>5, <1>8 DEF Score
<1>9. CASE (\E t \in Tokens : Draw(t)) \/ EndLoop \/ DrawRaises
  <2>1. pc = "head" /\ layer = 0 /\ UNCHANGED <<call, pipeline, layer>>
    BY <1>9 DEF Draw, EndLoop, DrawRaises, Control, Where
  <2>2. QED
    BY <1>5, <2>1
<1>10. CASE UNCHANGED vars
  BY <1>10 DEF vars, Aligned
<1>11. QED
  BY <1>2, <1>3, <1>4, <1>6, <1>7, <1>8, <1>9, <1>10 DEF Next

(* A call that returns leaves the anonymous pipeline at the start of a pass, *)
(* whatever it fed or drew (generate.py:555-560).                            *)
THEOREM LeavesPassWhole == Spec => []ReturnsBetweenPasses
<1>1. Aligned => ReturnsBetweenPasses
  BY DEF Aligned, ReturnsBetweenPasses
<1>2. QED
  BY <1>1, AlignedInit, AlignedStep, ControlInvariance, PTL DEF Spec

-----------------------------------------------------------------------------
(* H is what the layers give for the first n tokens: H[l][p] is the hidden   *)
(* state of the p-th token in front of layer l.                              *)
Computes(toks, fn, H, n) ==
  /\ n \in 0 .. Len(toks)
  /\ \A p \in 1 .. n :
       /\ H[0][p] = Embed(toks[p])
       /\ \A l \in Layers :
            H[l + 1][p] = Layer(fn, l, H[l][p], [t \in 1 .. p |-> KvRow(Own(l), l, H[l][t], t - 1)], p - 1)

Seen == IF call.loop = "score" THEN call.input ELSE all_tokens

(* How many rows of the caches of layer m are those of this call.            *)
Filled(m) ==
  IF (pc = "layer" /\ m < layer) \/ (pc = "head" /\ call.loop = "score") THEN pos + 1 ELSE pos

RowsOf(H, n) ==
  \A m \in Layers, q \in Positions :
    q < n /\ q < Filled(m) => kv[m][q] = KvRow(Own(m), m, H[m][q + 1], q)

HiddenOf(H, n) ==
  /\ pc = "layer" /\ pos < n => x = H[layer][pos + 1]
  /\ pc = "head" /\ call.loop = "score" /\ pos < n => x = H[NumLayers][pos + 1]
  /\ pc \in {"embed", "head"} /\ call.loop # "score" /\ pos \in 1 .. n => x = H[NumLayers][pos]

Faithful ==
  pc # "idle" /\ pipeline.whole =>
    \A H, n : Computes(Seen, call.layer_fn, H, n) => RowsOf(H, n) /\ HiddenOf(H, n)

DInv == Control /\ Aligned /\ Faithful

(* A layer with its own matrices is that layer; where a hot cache keeps rows *)
(* makes no difference.                                                      *)
LEMMA LayerIsItsOwn ==
  ASSUME NEW f \in LayerFns, NEW l, NEW W, \A i \in 1 .. NumGemvs(f) : W[i] = Own(l)[i]
  PROVE  /\ \A h, rows, p : LayerOut(f, W, l, h, rows, p) = Layer(f, l, h, rows, p)
         /\ \A h, p : KvRow(W, l, h, p) = KvRow(Own(l), l, h, p)
<1>1. /\ W[1] = Own(l)[1] /\ W[2] = Own(l)[2] /\ W[3] = Own(l)[3]
      /\ W[4] = Own(l)[4] /\ W[5] = Own(l)[5]
  <2>1. NumGemvs(f) \in {5, 7}
    BY PassShape
  <2>2. QED
    BY <2>1
<1>2. f = "streaming" => W[6] = Own(l)[6] /\ W[7] = Own(l)[7]
  <2>1. f = "streaming" => NumGemvs(f) = 7
    BY PassShape
  <2>2. QED
    BY <2>1
<1>3. \A h, p : KvRow(W, l, h, p) = KvRow(Own(l), l, h, p)
  BY <1>1 DEF KvRow
<1>4. \A h, rows, p : Attention(W, l, h, rows, p) = Attention(Own(l), l, h, rows, p)
  BY <1>1 DEF Attention
<1>5. \A h, rows, p : LayerOut(f, W, l, h, rows, p) = Layer(f, l, h, rows, p)
  <2> TAKE h, rows, p
  <2>1. CASE f = "streaming"
    BY <1>1, <1>2, <1>4, <2>1 DEF LayerOut, Layer, run_decoder_layer_streaming
  <2>2. CASE f = "dip"
    BY <1>1, <1>4, <2>2 DEF LayerOut, Layer, run_decoder_layer_dip
  <2>3. CASE f = "cached_dip"
    <3>1. {<<m, "up">> : m \in {l, HotCacheOf(l)}} = {<<l, "up">>}
      BY DEF HotCacheOf
    <3>2. {<<m, "down_T">> : m \in {l, HotCacheOf(l)}} = {<<l, "down_T">>}
      BY DEF HotCacheOf
    <3>3. LayerOut(f, W, l, h, rows, p) = run_decoder_layer_cached_dip(W, l, h, rows, p)
      BY <2>3 DEF LayerOut
    <3>4. Layer(f, l, h, rows, p) = run_decoder_layer_dip(Own(l), l, h, rows, p)
      BY <2>3 DEF Layer
    <3>5. QED
      BY <1>1, <1>4, <3>1, <3>2, <3>3, <3>4 DEF run_decoder_layer_cached_dip, run_decoder_layer_dip
  <2>4. QED
    BY <2>1, <2>2, <2>3 DEF LayerFns
<1>6. QED
  BY <1>3, <1>5

(* A step of the loop that only moves on.                                    *)
LEMMA SameComputation ==
  ASSUME NEW toks, NEW toks2, NEW fn, NEW H, NEW n, NEW k,
         Computes(toks2, fn, H, n), k \in 0 .. Len(toks), k <= n,
         \A i \in 1 .. k : toks2[i] = toks[i], Len(toks2) \in Nat
  PROVE  Computes(toks, fn, H, k)
<1>1. n \in Nat /\ \A p \in 1 .. k : p \in 1 .. n
  BY DEF Computes
<1>2. QED
  BY <1>1 DEF Computes

(* The decoded values stay faithful: Begin.                                  *)
LEMMA FaithfulBegin == DInv /\ Begin => Faithful'
<1> SUFFICES ASSUME Begin, NEW H, NEW n PROVE (RowsOf(H, n) /\ HiddenOf(H, n))'
  BY DEF Faithful
<1>1. pc' = "embed" /\ pos' = 0
  BY DEF Begin
<1>2. RowsOf(H, n)'
  BY <1>1 DEF RowsOf, Filled, Positions
<1>3. HiddenOf(H, n)'
  BY <1>1 DEF HiddenOf
<1>4. QED
  BY <1>2, <1>3

(* The decoded values stay faithful: Embed.                                  *)
LEMMA FaithfulEmbed == DInv /\ EmbedNext => Faithful'
<1> SUFFICES ASSUME DInv, EmbedNext, pipeline.whole, NEW H, NEW n,
                    Computes(Seen', call.layer_fn, H, n)
             PROVE  (RowsOf(H, n) /\ HiddenOf(H, n))'
  BY DEF Faithful, EmbedNext
<1>1. /\ pc = "embed" /\ pos < Len(Fed) /\ x' = Embed(Fed[pos + 1]) /\ pc' = "layer"
      /\ UNCHANGED <<call, pipeline, layer, pos, kv, all_tokens, scored, status>>
  BY DEF EmbedNext
<1>2. Shape /\ pos \in Nat /\ layer = 0 /\ all_tokens = call.input
  BY <1>1 DEF DInv, Control, DTypes, Where
<1>3. Seen' = Seen /\ Seen = call.input
  BY <1>1, <1>2 DEF Seen
<1>4. RowsOf(H, n) /\ HiddenOf(H, n)
  BY <1>1, <1>3 DEF DInv, Faithful
<1>5. \A m \in Layers : Filled(m)' = pos /\ Filled(m) = pos
  BY <1>1, <1>2, DecodeAssumption DEF Filled, Layers
<1>6. RowsOf(H, n)'
  BY <1>1, <1>4, <1>5 DEF RowsOf
<1>7. HiddenOf(H, n)'
  <2>1. SUFFICES ASSUME pos < n PROVE x' = H[0][pos + 1]
    BY <1>1, <1>2 DEF HiddenOf
  <2>2. pos + 1 \in 1 .. Len(Fed)
    BY <1>1, <1>2, FedFacts
  <2>3. Fed[pos + 1] = call.input[pos + 1]
    BY <1>2, <2>2, FedFacts
  <2>4. n \in Int /\ pos + 1 \in 1 .. n
    BY <1>2, <2>1 DEF Computes
  <2>5. H[0][pos + 1] = Embed(call.input[pos + 1])
    BY <1>3, <2>4 DEF Computes
  <2>6. QED
    BY <1>1, <2>3, <2>5
<1>8. QED
  BY <1>6, <1>7

(* The decoded values stay faithful: EndInput.                               *)
LEMMA FaithfulEndInput == DInv /\ EndInput => Faithful'
<1> SUFFICES ASSUME DInv, EndInput, pipeline.whole, pc' # "idle", NEW H, NEW n,
                    Computes(Seen', call.layer_fn, H, n)
             PROVE  (RowsOf(H, n) /\ HiddenOf(H, n))'
  BY DEF Faithful, EndInput
<1>1. /\ pc = "embed" /\ pos = Len(Fed) /\ call.loop = "generate" /\ pc' = "head" /\ pos' = Len(Fed)
      /\ UNCHANGED <<call, pipeline, layer, x, kv, all_tokens, scored>>
  BY DEF EndInput, Return, Throw, StartPos
<1>2. Seen' = Seen
  BY <1>1 DEF Seen
<1>3. RowsOf(H, n) /\ HiddenOf(H, n)
  BY <1>1, <1>2 DEF DInv, Faithful
<1>4. \A m \in Layers : Filled(m)' = pos /\ Filled(m) = pos
  BY <1>1 DEF Filled
<1>5. RowsOf(H, n)'
  BY <1>1, <1>3, <1>4 DEF RowsOf
<1>6. HiddenOf(H, n)'
  BY <1>1, <1>3 DEF HiddenOf
<1>7. QED
  BY <1>5, <1>6

(* The decoded values stay faithful: Run.                                    *)
LEMMA FaithfulRun == DInv /\ RunLayer => Faithful'
<1> DEFINE W == Drawn(NumGemvs(call.layer_fn))
           cache == [kv[layer] EXCEPT ![pos] = KvRow(W, layer, x, pos)]
           rows == [t \in 1 .. CurLen(pos) |-> cache[t - 1]]
           last == layer = NumLayers - 1
           fn == call.layer_fn
<1> SUFFICES ASSUME DInv, RunLayer, pipeline.whole, NEW H, NEW n, Computes(Seen', fn, H, n)
             PROVE  (RowsOf(H, n) /\ HiddenOf(H, n))'
  <2>1. RunLayer => call' = call /\ pipeline' = [pipeline EXCEPT !.next = After(NumGemvs(call.layer_fn))]
    BY DEF RunLayer
  <2>2. DInv /\ RunLayer => pipeline'.whole = pipeline.whole
    BY <2>1 DEF DInv, Aligned, PipelineType
  <2>3. QED
    BY <2>1, <2>2 DEF Faithful
<1>1. /\ pc = "layer" /\ pos < max_seq_len
      /\ kv' = [kv EXCEPT ![layer] = cache]
      /\ x' = LayerOut(fn, W, layer, x, rows, pos)
      /\ layer' = IF last THEN 0 ELSE layer + 1
      /\ pc' = IF ~ last THEN "layer" ELSE IF call.loop = "score" \/ Generating THEN "head" ELSE "embed"
      /\ pos' = IF last /\ call.loop # "score" THEN pos + 1 ELSE pos
      /\ UNCHANGED <<call, all_tokens, scored, status>>
  BY DEF RunLayer
<1>2. /\ fn \in LayerFns /\ layer \in Layers /\ pos \in Nat /\ pos \in Positions
      /\ layer \in Nat /\ NumLayers \in Nat /\ layer <= NumLayers - 1
      /\ DOMAIN kv = Layers /\ \A l \in Layers : DOMAIN kv[l] = Positions
  BY <1>1, DecodeAssumption DEF DInv, Control, DTypes, Shape, Layers, Positions
<1>3. /\ pipeline.layer_fn = fn /\ pipeline.next = layer * NumGemvs(pipeline.layer_fn)
  BY <1>1 DEF DInv, Aligned
<1>4. \A i \in 1 .. NumGemvs(fn) : W[i] = Own(layer)[i]
  BY <1>2, <1>3, DrawnAreOwn
<1>5. /\ \A h, r, p : LayerOut(fn, W, layer, h, r, p) = Layer(fn, layer, h, r, p)
      /\ \A h, p : KvRow(W, layer, h, p) = KvRow(Own(layer), layer, h, p)
  <2> HIDE DEF W
  <2>1. QED
    BY <1>2, <1>4, LayerIsItsOwn
<1> HIDE DEF W
<1>6. Seen' = Seen
  BY <1>1 DEF Seen
<1>7. RowsOf(H, n) /\ HiddenOf(H, n) /\ n \in Int
  BY <1>1, <1>6 DEF DInv, Faithful, Computes
<1>8. pos < n => x = H[layer][pos + 1]
  BY <1>1, <1>7 DEF HiddenOf
<1>9. /\ cache[pos] = KvRow(Own(layer), layer, x, pos)
      /\ \A q \in Positions : q # pos => cache[q] = kv[layer][q]
  BY <1>2, <1>5
<1>10. \A m \in Layers : Filled(m) = (IF m < layer THEN pos + 1 ELSE pos)
  BY <1>1 DEF Filled
<1>11. \A q \in Positions : q < n /\ q < pos + 1 => cache[q] = KvRow(Own(layer), layer, H[layer][q + 1], q)
  <2> SUFFICES ASSUME NEW q \in Positions, q < n, q < pos + 1
               PROVE  cache[q] = KvRow(Own(layer), layer, H[layer][q + 1], q)
    OBVIOUS
  <2>1. CASE q = pos
    BY <1>8, <1>9, <2>1
  <2>2. CASE q # pos
    <3>1. q < pos /\ q < Filled(layer)
      BY <1>2, <1>10, <2>2 DEF Positions
    <3>2. kv[layer][q] = KvRow(Own(layer), layer, H[layer][q + 1], q)
      BY <1>2, <1>7, <3>1 DEF RowsOf
    <3>3. QED
      BY <1>9, <2>2, <3>2
  <2>3. QED
    BY <2>1, <2>2
<1>12. /\ kv'[layer] = cache /\ \A m \in Layers : m # layer => kv'[m] = kv[m]
  <2> HIDE DEF cache
  <2>1. QED
    BY <1>1, <1>2
<1>13. pos < n => x' = H[layer + 1][pos + 1]
  <2> SUFFICES ASSUME pos < n PROVE x' = H[layer + 1][pos + 1]
    OBVIOUS
  <2>1. rows = [t \in 1 .. pos + 1 |-> KvRow(Own(layer), layer, H[layer][t], t - 1)]
    <3>1. ASSUME NEW t \in 1 .. pos + 1
          PROVE  cache[t - 1] = KvRow(Own(layer), layer, H[layer][t], t - 1)
      <4>1. t - 1 \in Positions /\ t - 1 < n /\ t - 1 < pos + 1 /\ (t - 1) + 1 = t
        <5>1. pos \in Nat /\ max_seq_len \in Nat /\ n \in Int /\ pos < max_seq_len /\ pos < n
          BY <1>1, <1>2, <1>7, DecodeAssumption
        <5>2. t - 1 \in 0 .. max_seq_len - 1 /\ t - 1 < n /\ t - 1 < pos + 1 /\ (t - 1) + 1 = t
          BY <5>1
        <5>3. QED
          BY <5>2 DEF Positions
      <4> HIDE DEF cache
      <4>2. QED
        BY <1>11, <4>1
    <3> HIDE DEF cache
    <3>2. QED
      BY <3>1 DEF CurLen
  <2>2. pos + 1 \in 1 .. n /\ (pos + 1) - 1 = pos
    BY <1>2, <1>7
  <2>3. H[layer + 1][pos + 1] =
          Layer(fn, layer, H[layer][pos + 1],
                [t \in 1 .. pos + 1 |-> KvRow(Own(layer), layer, H[layer][t], t - 1)], (pos + 1) - 1)
    BY <1>2, <2>2 DEF Computes
  <2>4. x' = Layer(fn, layer, x, rows, pos)
    BY <1>1, <1>5
  <2> HIDE DEF rows
  <2>5. QED
    BY <1>8, <2>1, <2>2, <2>3, <2>4
<1> HIDE DEF cache, rows
<1>14. RowsOf(H, n)'
  <2> SUFFICES ASSUME NEW m \in Layers, NEW q \in Positions, q < n, q < Filled(m)'
               PROVE  kv'[m][q] = KvRow(Own(m), m, H[m][q + 1], q)
    BY DEF RowsOf
  <2>1. CASE m = layer
    <3>1. q < pos + 1
      <4>1. Filled(m)' = pos' \/ Filled(m)' = pos' + 1
        BY DEF Filled
      <4>2. Filled(m)' <= pos + 1
        BY <1>1, <1>2, <4>1 DEF Filled
      <4>3. QED
        BY <1>2, <4>1, <4>2, <1>1 DEF Positions
    <3>2. QED
      BY <1>11, <1>12, <2>1, <3>1
  <2>2. CASE m # layer
    <3>1. q < Filled(m)
      <4>1. m \in Nat /\ q \in Nat /\ m <= NumLayers - 1
        BY DecodeAssumption DEF Layers, Positions
      <4>2. CASE last
        <5>1. m < layer
          BY <1>2, <2>2, <4>1, <4>2
        <5>2. Filled(m)' = pos + 1
          BY <1>1, <1>2, <4>1, <4>2 DEF Filled
        <5>3. QED
          BY <1>10, <5>1, <5>2
      <4>3. CASE ~ last
        <5>1. Filled(m)' = IF m < layer + 1 THEN pos + 1 ELSE pos
          BY <1>1, <4>3 DEF Filled
        <5>2. m < layer + 1 <=> m < layer
          BY <1>2, <2>2, <4>1
        <5>3. QED
          BY <1>10, <5>1, <5>2
      <4>4. QED
        BY <4>2, <4>3
    <3>2. QED
      BY <1>7, <1>12, <2>2, <3>1 DEF RowsOf
  <2>3. QED
    BY <2>1, <2>2
<1>15. HiddenOf(H, n)'
  <2>1. CASE last
    <3>1. layer + 1 = NumLayers
      BY <1>2, <2>1
    <3>2. QED
      BY <1>1, <1>2, <1>7, <1>13, <2>1, <3>1 DEF HiddenOf
  <2>2. CASE ~ last
    BY <1>1, <1>13, <2>2 DEF HiddenOf
  <2>3. QED
    BY <2>1, <2>2
<1>16. QED
  BY <1>14, <1>15

(* The decoded values stay faithful: Score.                                  *)
LEMMA FaithfulScore == DInv /\ Score => Faithful'
<1> SUFFICES ASSUME DInv, Score, pipeline.whole, NEW H, NEW n, Computes(Seen', call.layer_fn, H, n)
             PROVE  (RowsOf(H, n) /\ HiddenOf(H, n))'
  BY DEF Faithful, Score
<1>1. /\ pc = "head" /\ call.loop = "score" /\ pos' = pos + 1 /\ pc' = "embed"
      /\ UNCHANGED <<call, pipeline, layer, x, kv, all_tokens, status>>
  BY DEF Score
<1>2. Seen' = Seen
  BY <1>1 DEF Seen
<1>3. RowsOf(H, n)
  BY <1>1, <1>2 DEF DInv, Faithful
<1>4. \A m \in Layers : Filled(m)' = Filled(m)
  BY <1>1 DEF Filled
<1>5. RowsOf(H, n)'
  BY <1>1, <1>3, <1>4 DEF RowsOf
<1>6. HiddenOf(H, n)'
  BY <1>1 DEF HiddenOf
<1>7. QED
  BY <1>5, <1>6

(* The decoded values stay faithful: Draw.                                   *)
LEMMA FaithfulDraw == DInv /\ (\E t \in Tokens : Draw(t)) => Faithful'
<1> SUFFICES ASSUME DInv, NEW t \in Tokens, Draw(t), pipeline.whole, pc' # "idle", NEW H, NEW n,
                    Computes(Seen', call.layer_fn, H, n)
             PROVE  (RowsOf(H, n) /\ HiddenOf(H, n))'
  BY DEF Faithful, Draw
<1>1. /\ pc = "head" /\ call.loop = "generate" /\ pc' = "layer" /\ x' = Embed(t)
      /\ all_tokens' = Append(all_tokens, t)
      /\ UNCHANGED <<call, pipeline, layer, pos, kv, scored>>
  BY DEF Draw, Return
<1>2. /\ all_tokens \in Seq(Tokens) /\ pos \in Nat /\ pos = Len(all_tokens) /\ layer = 0
  BY <1>1 DEF DInv, Control, DTypes, Where
<1>3. Seen = all_tokens /\ Seen' = all_tokens'
  BY <1>1 DEF Seen
<1>4. /\ Len(all_tokens') = pos + 1 /\ all_tokens'[pos + 1] = t
      /\ \A i \in 1 .. pos : all_tokens'[i] = all_tokens[i]
  BY <1>1, <1>2, AppendProperties
<1>5. n \in 0 .. pos + 1
  BY <1>3, <1>4 DEF Computes
<1>6. \A m \in Layers : Filled(m)' = pos /\ Filled(m) = pos
  BY <1>1, <1>2, DecodeAssumption DEF Filled, Layers
<1>7. PICK k \in 0 .. pos : k <= n /\ (n <= pos => k = n) /\ (n > pos => k = pos)
  <2>1. CASE n <= pos
    <3>1. n \in 0 .. pos /\ n <= n /\ ~ (n > pos)
      BY <1>2, <1>5, <2>1
    <3>2. QED
      BY <3>1
  <2>2. CASE n > pos
    <3>1. pos \in 0 .. pos
      BY <1>2
    <3>2. QED
      BY <1>5, <2>2, <3>1
  <2>3. QED
    BY <1>2, <1>5, <2>1, <2>2
<1>8. Computes(all_tokens, call.layer_fn, H, k)
  <2>1. PICK s : s = all_tokens'
    OBVIOUS
  <2>2. Computes(s, call.layer_fn, H, n) /\ Len(s) \in Nat /\ \A i \in 1 .. k : s[i] = all_tokens[i]
    BY <1>2, <1>3, <1>4, <1>7, <2>1
  <2>3. k \in 0 .. Len(all_tokens) /\ k <= n
    BY <1>2, <1>7
  <2>4. QED
    BY <2>2, <2>3, SameComputation
<1>9. RowsOf(H, k)
  BY <1>1, <1>3, <1>8 DEF DInv, Faithful
<1>10. RowsOf(H, n)'
  <2> SUFFICES ASSUME NEW m \in Layers, NEW q \in Positions, q < n, q < pos
               PROVE  kv[m][q] = KvRow(Own(m), m, H[m][q + 1], q)
    BY <1>1, <1>6 DEF RowsOf
  <2>1. q < k
    <3>1. q \in Nat /\ n \in Int /\ k \in Int
      BY <1>5, <1>7 DEF Positions
    <3>2. k = n \/ k = pos
      BY <1>2, <1>5, <1>7
    <3>3. QED
      BY <3>1, <3>2
  <2>2. QED
    BY <1>6, <1>9, <2>1 DEF RowsOf
<1>11. HiddenOf(H, n)'
  <2>1. SUFFICES ASSUME pos < n PROVE x' = H[0][pos + 1]
    BY <1>1, <1>2 DEF HiddenOf
  <2>2. pos + 1 \in 1 .. n
    BY <1>2, <1>5, <2>1
  <2>3. H[0][pos + 1] = Embed(all_tokens'[pos + 1])
    BY <1>3, <2>2 DEF Computes
  <2>4. QED
    BY <1>1, <1>4, <2>3
<1>12. QED
  BY <1>10, <1>11

(* Every step keeps the invariant.                                           *)
LEMMA DInvStep == DInv /\ [Next]_vars => DInv'
<1>1. ASSUME DInv, AppendRaises \/ EndLoop \/ DrawRaises PROVE Faithful'
  BY <1>1 DEF AppendRaises, EndLoop, DrawRaises, Return, Throw, Faithful
<1>2. ASSUME DInv, UNCHANGED vars PROVE Faithful'
  BY <1>2 DEF vars, DInv, Faithful, Seen, RowsOf, HiddenOf, Filled
<1>3. DInv /\ [Next]_vars => Faithful'
  BY <1>1, <1>2, FaithfulBegin, FaithfulEmbed, FaithfulEndInput, FaithfulRun, FaithfulScore, FaithfulDraw
  DEF Next
<1>4. QED
  BY <1>3, ControlStep, AlignedStep DEF DInv

(* So does the whole invariant.                                              *)
LEMMA DInvariance == Spec => []DInv
<1>1. Init => DInv
  BY ControlInit, AlignedInit DEF Init, DInv, Faithful
<1>2. QED
  BY <1>1, DInvStep, PTL DEF Spec

-----------------------------------------------------------------------------
(* Hidden, level by level: its recursion has a solution.                     *)
Level(fn, toks, l, prev) ==
  [p \in DOMAIN toks |->
     IF l = 0 THEN Embed(toks[p])
     ELSE Layer(fn, l - 1, prev[p], [t \in 1 .. p |-> KvRow(Own(l - 1), l - 1, prev[t], t - 1)], p - 1)]

Levels(fn, toks, n, g) == g = [l \in 0 .. n |-> Level(fn, toks, l, g[l - 1])]

(* The levels of Hidden exist up to any layer,                               *)
LEMMA LevelsExist ==
  ASSUME NEW fn, NEW toks, NEW n \in Nat
  PROVE  \E g : Levels(fn, toks, n, g)
<1> DEFINE S == {m \in Nat : \E g : Levels(fn, toks, m, g)}
<1>1. 0 \in S
  <2>1. \A a, b : Level(fn, toks, 0, a) = Level(fn, toks, 0, b)
    BY DEF Level
  <2> DEFINE g == [l \in 0 .. 0 |-> Level(fn, toks, 0, fn)]
  <2>2. \A l \in 0 .. 0 : l = 0
    OBVIOUS
  <2>3. \A l \in 0 .. 0 : Level(fn, toks, 0, fn) = Level(fn, toks, l, g[l - 1])
    BY <2>1, <2>2
  <2>4. Levels(fn, toks, 0, g)
    BY <2>3 DEF Levels
  <2> HIDE DEF g
  <2>5. QED
    BY <2>4
<1>2. ASSUME NEW m \in Nat, m \in S PROVE m + 1 \in S
  <2>1. PICK g : Levels(fn, toks, m, g)
    BY <1>2
  <2> DEFINE h == [l \in 0 .. m + 1 |-> IF l <= m THEN g[l] ELSE Level(fn, toks, m + 1, g[m])]
  <2>2. ASSUME NEW l \in 0 .. m + 1 PROVE h[l] = Level(fn, toks, l, h[l - 1])
    <3>1. CASE l = 0
      <4>1. h[l] = g[0] /\ g[0] = Level(fn, toks, 0, g[0 - 1])
        BY <2>1, <3>1 DEF Levels
      <4>2. \A a, b : Level(fn, toks, 0, a) = Level(fn, toks, 0, b)
        BY DEF Level
      <4> HIDE DEF h
      <4>3. QED
        BY <3>1, <4>1, <4>2
    <3>2. CASE l # 0 /\ l <= m
      <4>1. h[l] = g[l] /\ h[l - 1] = g[l - 1] /\ l \in 0 .. m
        BY <3>2
      <4> HIDE DEF h
      <4>2. g[l] = Level(fn, toks, l, g[l - 1])
        BY <2>1, <4>1 DEF Levels
      <4>3. QED
        BY <4>1, <4>2
    <3>3. CASE l = m + 1
      <4>1. h[m + 1] = Level(fn, toks, m + 1, g[m]) /\ h[m] = g[m] /\ (m + 1) - 1 = m
        BY <3>3
      <4> HIDE DEF h
      <4>2. QED
        BY <3>3, <4>1
    <3>4. QED
      BY <3>1, <3>2, <3>3
  <2>3. h = [l \in 0 .. m + 1 |-> h[l]]
    OBVIOUS
  <2> HIDE DEF h
  <2>4. Levels(fn, toks, m + 1, h)
    BY <2>2, <2>3 DEF Levels
  <2>5. QED
    BY <2>4
<1> HIDE DEF S
<1>3. Nat \subseteq S
  BY <1>1, <1>2, SetInduction
<1>4. QED
  BY <1>3 DEF S

(* and Hidden is the last of them, computed layer by layer.                  *)
LEMMA HiddenComputes ==
  ASSUME NEW fn, NEW toks \in Seq(Tokens)
  PROVE  \E H : /\ Computes(toks, fn, H, Len(toks))
                /\ Hidden(fn, toks) = H[NumLayers]
                /\ DOMAIN H[NumLayers] = 1 .. Len(toks)
<1>1. Hidden(fn, toks) = (CHOOSE H : Levels(fn, toks, NumLayers, H))[NumLayers]
  BY DEF Hidden, Level, Levels
<1>2. NumLayers \in Nat
  BY DecodeAssumption
<1>3. \E H : Levels(fn, toks, NumLayers, H)
  BY <1>2, LevelsExist
<1>4. PICK H : Levels(fn, toks, NumLayers, H) /\ Hidden(fn, toks) = H[NumLayers]
  BY <1>1, <1>3
<1>5. \A l \in 0 .. NumLayers : H[l] = Level(fn, toks, l, H[l - 1])
  BY <1>4 DEF Levels
<1>6. DOMAIN toks = 1 .. Len(toks) /\ Len(toks) \in Nat
  OBVIOUS
<1>7. DOMAIN H[NumLayers] = 1 .. Len(toks)
  <2>1. \A l, prev : DOMAIN Level(fn, toks, l, prev) = DOMAIN toks
    BY Zenon DEF Level
  <2>2. NumLayers \in 0 .. NumLayers
    BY <1>2
  <2>3. H[NumLayers] = Level(fn, toks, NumLayers, H[NumLayers - 1])
    BY <1>5, <2>2
  <2>4. QED
    BY <1>6, <2>1, <2>3, Zenon
<1>8. ASSUME NEW p \in 1 .. Len(toks) PROVE H[0][p] = Embed(toks[p])
  <2>1. \A prev : \A i \in DOMAIN toks : Level(fn, toks, 0, prev)[i] = Embed(toks[i])
    BY DEF Level
  <2>2. 0 \in 0 .. NumLayers
    BY <1>2
  <2>3. H[0] = Level(fn, toks, 0, H[0 - 1])
    BY <1>5, <2>2
  <2>4. QED
    BY <1>6, <2>1, <2>3, Zenon
<1>9. ASSUME NEW p \in 1 .. Len(toks), NEW l \in Layers
      PROVE  H[l + 1][p] = Layer(fn, l, H[l][p], [t \in 1 .. p |-> KvRow(Own(l), l, H[l][t], t - 1)], p - 1)
  <2>1. l + 1 \in 0 .. NumLayers /\ l + 1 # 0 /\ (l + 1) - 1 = l
    BY <1>2 DEF Layers
  <2>2. H[l + 1] = Level(fn, toks, l + 1, H[l])
    BY <1>5, <2>1
  <2>3. QED
    BY <1>6, <2>1, <2>2 DEF Level
<1>10. Computes(toks, fn, H, Len(toks))
  BY <1>6, <1>8, <1>9 DEF Computes
<1>11. QED
  BY <1>4, <1>7, <1>10

(* Token by token, over caches and an anonymous pipeline, the loops compute  *)
(* what the whole sequence at once gives, for any number of layers, tokens   *)
(* and cache rows and each of the three layer functions                      *)
(* (generate.py:430-464, 546-576).                                           *)
THEOREM DecodesTheSequence == Spec => []LogitsSeeWholePrefix
<1>1. DInv => LogitsSeeWholePrefix
  <2> SUFFICES ASSUME DInv, pipeline.whole, pc = "head", x # NoHidden
               PROVE  x = Last(Hidden(call.layer_fn, Prefix))
    BY DEF LogitsSeeWholePrefix
  <2>1. Shape /\ pos \in Nat /\ all_tokens \in Seq(Tokens)
    BY DEF DInv, Control, DTypes
  <2>2. \A H, n : Computes(Seen, call.layer_fn, H, n) => HiddenOf(H, n)
    BY DEF DInv, Faithful
  <2>3. CASE call.loop = "score"
    <3>1. Feeding
      BY <2>3 DEF DInv, Control, Where
    <3>2. call.input \in Seq(Tokens) /\ pos + 1 \in 1 .. Len(call.input)
      <4>1. Len(Fed) \in Nat /\ Len(Fed) <= Len(call.input) /\ Len(call.input) \in Nat
        BY <2>1, FedFacts DEF Shape
      <4>2. QED
        BY <2>1, <3>1, <4>1 DEF Feeding, Shape
    <3>3. PICK toks \in Seq(Tokens) : toks = Prefix /\ Len(toks) = pos + 1
                                      /\ \A i \in 1 .. pos + 1 : toks[i] = call.input[i]
      <4>1. Prefix = SubSeq(call.input, 1, pos + 1)
        BY <2>3 DEF Prefix
      <4>2. PICK s \in Seq(Tokens), m \in Nat : s = call.input /\ m = pos + 1
        BY <2>1, <3>2
      <4>3. m \in 1 .. Len(s)
        BY <3>2, <4>2
      <4>4. /\ SubSeq(s, 1, m) \in Seq(Tokens) /\ Len(SubSeq(s, 1, m)) = m
            /\ \A i \in 1 .. m : SubSeq(s, 1, m)[i] = s[i]
        <5>1. \A i \in 1 .. m : s[i] \in Tokens
          BY <4>3
        <5>2. QED
          BY <4>3, <5>1
      <4>5. QED
        BY <4>1, <4>2, <4>4
    <3>4. PICK H : /\ Computes(toks, call.layer_fn, H, pos + 1)
                   /\ Hidden(call.layer_fn, toks) = H[NumLayers]
                   /\ DOMAIN H[NumLayers] = 1 .. pos + 1
      BY <3>3, HiddenComputes
    <3>5. Computes(Seen, call.layer_fn, H, pos + 1)
      <4>1. PICK seen : seen = Seen
        OBVIOUS
      <4>2. seen = call.input
        BY <2>3, <4>1 DEF Seen
      <4>3. pos + 1 \in 0 .. Len(seen) /\ pos + 1 <= pos + 1 /\ Len(toks) \in Nat
            /\ \A i \in 1 .. pos + 1 : toks[i] = seen[i]
        BY <2>1, <3>2, <3>3, <4>2
      <4>4. QED
        BY <3>4, <4>1, <4>3, SameComputation
    <3>6. x = H[NumLayers][pos + 1]
      BY <2>1, <2>2, <2>3, <3>5 DEF HiddenOf
    <3>7. Len(H[NumLayers]) = pos + 1
      BY <2>1, <3>4
    <3>8. QED
      BY <3>3, <3>4, <3>6, <3>7 DEF Last
  <2>4. CASE call.loop # "score"
    <3>1. pos = Len(all_tokens) /\ pos # 0
      BY <2>4 DEF DInv, Control, Where, HiddenThere
    <3>2. PICK toks \in Seq(Tokens) : toks = Prefix /\ toks = Seen /\ Len(toks) = pos
      BY <2>1, <2>4, <3>1 DEF Prefix, Seen
    <3>3. PICK H : /\ Computes(toks, call.layer_fn, H, pos)
                   /\ Hidden(call.layer_fn, toks) = H[NumLayers]
                   /\ DOMAIN H[NumLayers] = 1 .. pos
      BY <3>2, HiddenComputes
    <3>4. x = H[NumLayers][pos]
      BY <2>1, <2>2, <2>4, <3>1, <3>2, <3>3 DEF HiddenOf
    <3>5. Len(H[NumLayers]) = pos
      BY <2>1, <3>3
    <3>6. QED
      BY <3>2, <3>3, <3>4, <3>5 DEF Last
  <2>5. QED
    BY <2>3, <2>4
<1>2. QED
  BY <1>1, DInvariance, PTL

=============================================================================
