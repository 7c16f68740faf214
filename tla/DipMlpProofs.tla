----------------------------- MODULE DipMlpProofs -----------------------------
(***************************************************************************)
(* Theorems about DipMlp, for any number of layers, channels, selected     *)
(* channels and tokens, any hot sets and any order of the threads: what    *)
(* the sparse GEMVs read, and that no staging buffer is overwritten.       *)
(***************************************************************************)
EXTENDS DipMlp, NumberLemmas, SequenceTheorems

DTypes ==
  /\ cached \in BOOLEAN /\ hot \in [Layers -> SUBSET Channels]
  /\ layer \in Layers /\ miss_count \in Nat
  /\ DOMAIN idx = Picks /\ DOMAIN descriptors = Picks /\ DOMAIN miss_channels = Picks
  /\ DOMAIN staging = Roles /\ DOMAIN gpu = Roles /\ DOMAIN result = Roles
  /\ \A r \in Roles : DOMAIN staging[r] = Picks /\ DOMAIN gpu[r] = Picks

(* What the stream has still to do, by where the host is.                    *)
GemvOf(r, l) == [op |-> "gemv", role |-> r, layer |-> l]
CopyOf(r) == CopyRows(r, Len(rows))

Selecting ==
  \/ queue = <<>>
  \/ \E l \in Layers : queue = <<GemvOf("down", l)>> \/ queue = <<GemvOf("up", l), GemvOf("down", l)>>
FetchingIdx ==
  \/ queue = <<>> \/ queue = <<Count>> \/ queue = <<Topk, Count>>
  \/ \E l \in Layers : \/ queue = <<GemvOf("down", l), Topk, Count>>
                       \/ queue = <<GemvOf("up", l), GemvOf("down", l), Topk, Count>>
FetchingMisses ==
  \/ queue = <<>> \/ queue = <<Describe>> \/ queue = <<Memset, Describe>>
  \/ queue = <<Topk, Memset, Describe>>
  \/ \E l \in Layers : \/ queue = <<GemvOf("down", l), Topk, Memset, Describe>>
                       \/ queue = <<GemvOf("up", l), GemvOf("down", l), Topk, Memset, Describe>>

Queued ==
  \/ pc = "select" /\ Selecting
  \/ pc = "fetch" /\ ~ cached /\ FetchingIdx
  \/ pc = "fetch" /\ cached /\ FetchingMisses
  \/ pc = "up" /\ queue = <<>>
  \/ pc = "down" /\ (queue = <<>> \/ queue = <<CopyOf("up")>>)
  \/ pc = "launch" /\ (queue = <<>> \/ queue = <<CopyOf("down")>> \/ queue = <<CopyOf("up"), CopyOf("down")>>)

(* The thread of position i found the cache's row, or its place in the list. *)
Found(l, i) ==
  IF idx[i] \in hot[l] THEN descriptors[i] = FromCache(slot_of(l, idx[i]))
  ELSE \E p \in 0 .. miss_count - 1 :
         p \in Picks /\ descriptors[i] = FromStaging(p) /\ miss_channels[p] = idx[i]

Threads == {i \in Picks : descriptors[i] # Unset}
Described ==
  cached /\ (pc \in {"up", "down", "launch"} \/ (pc = "fetch" /\ (queue = <<>> \/ queue = <<Describe>>))) =>
    /\ miss_count <= Cardinality(Threads)
    /\ \A i \in Threads : Found(layer, i)
    /\ pc # "fetch" \/ queue = <<>> => Threads = Picks

(* The channels whose rows the host gathers, and how far they have come.     *)
Gathered ==
  pc \in {"up", "down", "launch"} =>
    rows = IF cached THEN [i \in 1 .. miss_count |-> miss_channels[i - 1]]
                     ELSE [i \in 1 .. dip_k |-> idx[i - 1]]

Holds(buffer, r) == \A i \in Picks : i < Len(rows) => buffer[r][i] = <<layer, rows[i + 1]>>
Moved ==
  /\ pc \in {"down", "launch"} => Holds(staging, "up")
  /\ pc = "launch" => Holds(staging, "down")
  /\ pc \in {"down", "launch"} /\ (queue = <<>> \/ queue = <<CopyOf("down")>>) => Holds(gpu, "up")
  /\ pc = "launch" /\ queue = <<>> => Holds(gpu, "down")

(* A GEMV at the head of the queue finds the rows of its selection, and      *)
(* their scales.                                                             *)
Supplied(r, l, i) == RowFor(r, l, i) = <<l, idx[i]>> /\ ScaleFor(l, i) = <<l, idx[i]>>
Ready ==
  queue # <<>> =>
    \A l \in Layers, r0 \in Roles :
      queue[1] = GemvOf(r0, l) => \A r \in Roles, i \in Picks : Supplied(r, l, i)

MInv == DTypes /\ Queued /\ Described /\ Gathered /\ Moved /\ Ready /\ ReadsSelectedRows

-----------------------------------------------------------------------------
(* The head and the tail of a short tuple.                                   *)
LEMMA Tuples ==
  /\ \A a : <<a>>[1] = a /\ Tail(<<a>>) = <<>>
  /\ \A a, b : <<a, b>>[1] = a /\ Tail(<<a, b>>) = <<b>>
  /\ \A a, b, c : <<a, b, c>>[1] = a /\ Tail(<<a, b, c>>) = <<b, c>>
  /\ \A a, b, c, d : <<a, b, c, d>>[1] = a /\ Tail(<<a, b, c, d>>) = <<b, c, d>>
  /\ \A a, b, c, d, e : <<a, b, c, d, e>>[1] = a /\ Tail(<<a, b, c, d, e>>) = <<b, c, d, e>>
OBVIOUS

(* Tuples of different lengths differ.                                       *)
LEMMA Shapes ==
  /\ \A a : <<a>> # <<>>
  /\ \A a, b : <<a, b>> # <<>> /\ \A x : <<a, b>> # <<x>>
  /\ \A a, b, c : <<a, b, c>> # <<>> /\ \A x : <<a, b, c>> # <<x>>
  /\ \A a, b, c, d : <<a, b, c, d>> # <<>> /\ \A x : <<a, b, c, d>> # <<x>>
  /\ \A a, b, c, d, e : <<a, b, c, d, e>> # <<>> /\ \A x : <<a, b, c, d, e>> # <<x>>
OBVIOUS

(* Short tuples put together.                                                *)
LEMMA Joined ==
  /\ \A a : Append(<<>>, a) = <<a>>
  /\ \A a, b : Append(<<a>>, b) = <<a, b>> /\ <<>> \o <<a, b>> = <<a, b>>
  /\ \A a, b, c : <<>> \o <<a, b, c>> = <<a, b, c>> /\ <<a>> \o <<b, c>> = <<a, b, c>>
  /\ \A a, b, c, d : <<a>> \o <<b, c, d>> = <<a, b, c, d>> /\ <<a, b>> \o <<c, d>> = <<a, b, c, d>>
  /\ \A a, b, c, d, e : <<a, b>> \o <<c, d, e>> = <<a, b, c, d, e>>
<1>1. \A S : \A s \in Seq(S) :
        /\ Len(s) = 2 => s = <<s[1], s[2]>>
        /\ Len(s) = 3 => s = <<s[1], s[2], s[3]>>
        /\ Len(s) = 4 => s = <<s[1], s[2], s[3], s[4]>>
        /\ Len(s) = 5 => s = <<s[1], s[2], s[3], s[4], s[5]>>
  OBVIOUS
<1>2. \A a : Append(<<>>, a) = <<a>>
  OBVIOUS
<1>3. ASSUME NEW a, NEW b PROVE Append(<<a>>, b) = <<a, b>>
  <2> DEFINE S == {a, b}
             s == Append(<<a>>, b)
  <2>1. <<a>> \in Seq(S) /\ b \in S
    OBVIOUS
  <2>2. s \in Seq(S) /\ Len(s) = 2 /\ s[1] = a /\ s[2] = b
    BY <2>1, AppendProperties
  <2> HIDE DEF s
  <2>3. s = <<a, b>>
    BY <2>2, <1>1
  <2>4. QED
    BY <2>3 DEF s
<1>4. ASSUME NEW a, NEW b PROVE <<>> \o <<a, b>> = <<a, b>>
  <2> DEFINE S == {a, b}
             s == <<>> \o <<a, b>>
  <2>1. <<>> \in Seq(S) /\ <<a, b>> \in Seq(S)
    OBVIOUS
  <2>2. s \in Seq(S) /\ Len(s) = 2 /\ s[1] = a /\ s[2] = b
    BY <2>1
  <2> HIDE DEF s
  <2>3. s = <<a, b>>
    BY <2>2, <1>1
  <2>4. QED
    BY <2>3 DEF s
<1>5. ASSUME NEW a, NEW b, NEW c PROVE <<>> \o <<a, b, c>> = <<a, b, c>>
  <2> DEFINE S == {a, b, c}
             s == <<>> \o <<a, b, c>>
  <2>1. <<>> \in Seq(S) /\ <<a, b, c>> \in Seq(S)
    OBVIOUS
  <2>2. s \in Seq(S) /\ Len(s) = 3 /\ s[1] = a /\ s[2] = b /\ s[3] = c
    BY <2>1
  <2> HIDE DEF s
  <2>3. s = <<a, b, c>>
    BY <2>2, <1>1
  <2>4. QED
    BY <2>3 DEF s
<1>6. ASSUME NEW a, NEW b, NEW c PROVE <<a>> \o <<b, c>> = <<a, b, c>>
  <2> DEFINE S == {a, b, c}
             s == <<a>> \o <<b, c>>
  <2>1. <<a>> \in Seq(S) /\ <<b, c>> \in Seq(S)
    OBVIOUS
  <2>2. s \in Seq(S) /\ Len(s) = 3 /\ s[1] = a /\ s[2] = b /\ s[3] = c
    BY <2>1
  <2> HIDE DEF s
  <2>3. s = <<a, b, c>>
    BY <2>2, <1>1
  <2>4. QED
    BY <2>3 DEF s
<1>7. ASSUME NEW a, NEW b, NEW c, NEW d PROVE <<a>> \o <<b, c, d>> = <<a, b, c, d>>
  <2> DEFINE S == {a, b, c, d}
             s == <<a>> \o <<b, c, d>>
  <2>1. <<a>> \in Seq(S) /\ <<b, c, d>> \in Seq(S)
    OBVIOUS
  <2>2. s \in Seq(S) /\ Len(s) = 4 /\ s[1] = a /\ s[2] = b /\ s[3] = c /\ s[4] = d
    BY <2>1
  <2> HIDE DEF s
  <2>3. s = <<a, b, c, d>>
    BY <2>2, <1>1
  <2>4. QED
    BY <2>3 DEF s
<1>8. ASSUME NEW a, NEW b, NEW c, NEW d PROVE <<a, b>> \o <<c, d>> = <<a, b, c, d>>
  <2> DEFINE S == {a, b, c, d}
             s == <<a, b>> \o <<c, d>>
  <2>1. <<a, b>> \in Seq(S) /\ <<c, d>> \in Seq(S)
    OBVIOUS
  <2>2. s \in Seq(S) /\ Len(s) = 4 /\ s[1] = a /\ s[2] = b /\ s[3] = c /\ s[4] = d
    BY <2>1
  <2> HIDE DEF s
  <2>3. s = <<a, b, c, d>>
    BY <2>2, <1>1
  <2>4. QED
    BY <2>3 DEF s
<1>9. ASSUME NEW a, NEW b, NEW c, NEW d, NEW e PROVE <<a, b>> \o <<c, d, e>> = <<a, b, c, d, e>>
  <2> DEFINE S == {a, b, c, d, e}
             s == <<a, b>> \o <<c, d, e>>
  <2>1. <<a, b>> \in Seq(S) /\ <<c, d, e>> \in Seq(S)
    OBVIOUS
  <2>2. s \in Seq(S) /\ Len(s) = 5 /\ s[1] = a /\ s[2] = b /\ s[3] = c /\ s[4] = d /\ s[5] = e
    BY <2>1
  <2> HIDE DEF s
  <2>3. s = <<a, b, c, d, e>>
    BY <2>2, <1>1
  <2>4. QED
    BY <2>3 DEF s
<1>10. QED
  BY <1>2, <1>3, <1>4, <1>5, <1>6, <1>7, <1>8, <1>9

(* What each kind of entry is told apart by.                                 *)
LEMMA Ops ==
  /\ Topk.op = "topk" /\ Memset.op = "memset" /\ Count.op = "count" /\ Describe.op = "describe"
  /\ \A r : CopyOf(r).op = "copy" /\ \A l : GemvOf(r, l).op = "gemv"
BY DEF Topk, Memset, Count, Describe, CopyOf, CopyRows, GemvOf

(* What the stream does next, and what is left then.                         *)
LEMMA SelectingNext ==
  ASSUME Selecting, queue # <<>>
  PROVE  \E l \in Layers : \/ queue[1] = GemvOf("down", l) /\ Tail(queue) = <<>>
                           \/ queue[1] = GemvOf("up", l) /\ Tail(queue) = <<GemvOf("down", l)>>
<1>1. PICK l \in Layers : queue = <<GemvOf("down", l)>> \/ queue = <<GemvOf("up", l), GemvOf("down", l)>>
  BY DEF Selecting
<1>2. \/ queue[1] = GemvOf("down", l) /\ Tail(queue) = <<>>
      \/ queue[1] = GemvOf("up", l) /\ Tail(queue) = <<GemvOf("down", l)>>
  BY <1>1, Tuples
<1>3. QED
  BY <1>2

(* What is next while the host waits for the selected channels.              *)
LEMMA IdxNext ==
  ASSUME FetchingIdx, queue # <<>>
  PROVE  \/ queue[1] = Count /\ Tail(queue) = <<>>
         \/ queue[1] = Topk /\ Tail(queue) = <<Count>>
         \/ \E l \in Layers : \/ queue[1] = GemvOf("down", l) /\ Tail(queue) = <<Topk, Count>>
                              \/ queue[1] = GemvOf("up", l) /\ Tail(queue) = <<GemvOf("down", l), Topk, Count>>
<1>1. CASE queue = <<Count>>
  BY <1>1, Tuples
<1>2. CASE queue = <<Topk, Count>>
  BY <1>2, Tuples
<1>3. CASE \E l \in Layers : \/ queue = <<GemvOf("down", l), Topk, Count>>
                             \/ queue = <<GemvOf("up", l), GemvOf("down", l), Topk, Count>>
  <2>1. PICK l \in Layers : \/ queue = <<GemvOf("down", l), Topk, Count>>
                            \/ queue = <<GemvOf("up", l), GemvOf("down", l), Topk, Count>>
    BY <1>3
  <2>2. queue = <<GemvOf("down", l), Topk, Count>> =>
          queue[1] = GemvOf("down", l) /\ Tail(queue) = <<Topk, Count>>
    BY Tuples
  <2>3. queue = <<GemvOf("up", l), GemvOf("down", l), Topk, Count>> =>
          queue[1] = GemvOf("up", l) /\ Tail(queue) = <<GemvOf("down", l), Topk, Count>>
    BY Tuples
  <2>4. \/ queue[1] = GemvOf("down", l) /\ Tail(queue) = <<Topk, Count>>
        \/ queue[1] = GemvOf("up", l) /\ Tail(queue) = <<GemvOf("down", l), Topk, Count>>
    BY <2>1, <2>2, <2>3
  <2>5. QED
    BY <2>4
<1>4. QED
  BY <1>1, <1>2, <1>3 DEF FetchingIdx

(* What is next while the host waits for the miss list.                      *)
LEMMA MissesNext ==
  ASSUME FetchingMisses, queue # <<>>
  PROVE  \/ queue[1] = Describe /\ Tail(queue) = <<>>
         \/ queue[1] = Memset /\ Tail(queue) = <<Describe>>
         \/ queue[1] = Topk /\ Tail(queue) = <<Memset, Describe>>
         \/ \E l \in Layers : \/ queue[1] = GemvOf("down", l) /\ Tail(queue) = <<Topk, Memset, Describe>>
                              \/ queue[1] = GemvOf("up", l) /\ Tail(queue) = <<GemvOf("down", l), Topk, Memset, Describe>>
<1>1. CASE queue = <<Describe>>
  BY <1>1, Tuples
<1>2. CASE queue = <<Memset, Describe>>
  BY <1>2, Tuples
<1>3. CASE queue = <<Topk, Memset, Describe>>
  BY <1>3, Tuples
<1>4. CASE \E l \in Layers : \/ queue = <<GemvOf("down", l), Topk, Memset, Describe>>
                             \/ queue = <<GemvOf("up", l), GemvOf("down", l), Topk, Memset, Describe>>
  <2>1. PICK l \in Layers : \/ queue = <<GemvOf("down", l), Topk, Memset, Describe>>
                            \/ queue = <<GemvOf("up", l), GemvOf("down", l), Topk, Memset, Describe>>
    BY <1>4
  <2>2. queue = <<GemvOf("down", l), Topk, Memset, Describe>> =>
          queue[1] = GemvOf("down", l) /\ Tail(queue) = <<Topk, Memset, Describe>>
    BY Tuples
  <2>3. queue = <<GemvOf("up", l), GemvOf("down", l), Topk, Memset, Describe>> =>
          queue[1] = GemvOf("up", l) /\ Tail(queue) = <<GemvOf("down", l), Topk, Memset, Describe>>
    BY Tuples
  <2>4. \/ queue[1] = GemvOf("down", l) /\ Tail(queue) = <<Topk, Memset, Describe>>
        \/ queue[1] = GemvOf("up", l) /\ Tail(queue) = <<GemvOf("down", l), Topk, Memset, Describe>>
    BY <2>1, <2>2, <2>3
  <2>5. QED
    BY <2>4
<1>5. QED
  BY <1>1, <1>2, <1>3, <1>4 DEF FetchingMisses

(* What is next while the host gathers.                                      *)
LEMMA CopiesNext ==
  ASSUME pc \in {"up", "down", "launch"}, Queued, queue # <<>>
  PROVE  \/ pc = "down" /\ queue[1] = CopyOf("up") /\ Tail(queue) = <<>>
         \/ pc = "launch" /\ queue[1] = CopyOf("down") /\ Tail(queue) = <<>>
         \/ pc = "launch" /\ queue[1] = CopyOf("up") /\ Tail(queue) = <<CopyOf("down")>>
BY Tuples DEF Queued

(* Where the host and the stream are when the selection runs.                *)
LEMMA AtTopk ==
  ASSUME Queued, Executes("topk")
  PROVE  /\ pc = "fetch" /\ queue[1] = Topk
         /\ \/ cached /\ Tail(queue) = <<Memset, Describe>>
            \/ ~ cached /\ Tail(queue) = <<Count>>
BY SelectingNext, IdxNext, MissesNext, CopiesNext, Ops DEF Queued, Executes

(* The same for the reset of the miss count.                                 *)
LEMMA AtMemset ==
  ASSUME Queued, Executes("memset")
  PROVE  pc = "fetch" /\ cached /\ Tail(queue) = <<Describe>>
BY SelectingNext, IdxNext, MissesNext, CopiesNext, Ops DEF Queued, Executes

(* The same for the histogram.                                               *)
LEMMA AtCount ==
  ASSUME Queued, Executes("count")
  PROVE  pc = "fetch" /\ ~ cached /\ queue[1] = Count /\ Tail(queue) = <<>>
BY SelectingNext, IdxNext, MissesNext, CopiesNext, Ops DEF Queued, Executes

(* The same for the descriptor kernel.                                       *)
LEMMA AtDescribe ==
  ASSUME Queued, Executes("describe")
  PROVE  pc = "fetch" /\ cached /\ queue[1] = Describe /\ Tail(queue) = <<>> /\ queue = <<Describe>>
<1>1. pc = "fetch" /\ cached /\ queue[1] = Describe /\ Tail(queue) = <<>>
  BY SelectingNext, IdxNext, MissesNext, CopiesNext, Ops DEF Queued, Executes
<1>2. queue = <<Describe>>
  <2>1. FetchingMisses
    BY <1>1 DEF Queued
  <2>2. \A l : /\ <<GemvOf("down", l), Topk, Memset, Describe>>[1] = GemvOf("down", l)
              /\ <<GemvOf("up", l), GemvOf("down", l), Topk, Memset, Describe>>[1] = GemvOf("up", l)
    BY Tuples
  <2>3. /\ <<Memset, Describe>>[1] = Memset /\ <<Topk, Memset, Describe>>[1] = Topk
    BY Tuples
  <2>4. QED
    BY <1>1, <2>1, <2>2, <2>3, Ops DEF FetchingMisses, Executes
<1>3. QED
  BY <1>1, <1>2

(* The same for a copy of staged rows.                                       *)
LEMMA AtCopy ==
  ASSUME Queued, Executes("copy")
  PROVE  \/ pc = "down" /\ queue[1] = CopyOf("up") /\ Tail(queue) = <<>>
         \/ pc = "launch" /\ queue = <<CopyOf("down")>> /\ queue[1] = CopyOf("down") /\ Tail(queue) = <<>>
         \/ pc = "launch" /\ queue[1] = CopyOf("up") /\ Tail(queue) = <<CopyOf("down")>>
<1>1. /\ pc \in {"up", "down", "launch"}
      /\ \/ pc = "down" /\ queue[1] = CopyOf("up") /\ Tail(queue) = <<>>
         \/ pc = "launch" /\ queue[1] = CopyOf("down") /\ Tail(queue) = <<>>
         \/ pc = "launch" /\ queue[1] = CopyOf("up") /\ Tail(queue) = <<CopyOf("down")>>
  BY SelectingNext, IdxNext, MissesNext, CopiesNext, Ops DEF Queued, Executes
<1>2. pc = "launch" /\ queue[1] = CopyOf("down") => queue = <<CopyOf("down")>>
  BY Tuples DEF Queued, CopyOf, CopyRows, Executes
<1>3. QED
  BY <1>1, <1>2

(* The same for a sparse GEMV.                                               *)
LEMMA AtGemv ==
  ASSUME Queued, Executes("gemv")
  PROVE  \E l \in Layers :
           \/ /\ pc = "select" /\ queue[1] = GemvOf("down", l) /\ Tail(queue) = <<>>
           \/ /\ pc = "select" /\ queue[1] = GemvOf("up", l) /\ Tail(queue) = <<GemvOf("down", l)>>
           \/ /\ pc = "fetch" /\ ~ cached /\ queue[1] = GemvOf("down", l) /\ Tail(queue) = <<Topk, Count>>
           \/ /\ pc = "fetch" /\ ~ cached /\ queue[1] = GemvOf("up", l)
              /\ Tail(queue) = <<GemvOf("down", l), Topk, Count>>
           \/ /\ pc = "fetch" /\ cached /\ queue[1] = GemvOf("down", l)
              /\ Tail(queue) = <<Topk, Memset, Describe>>
           \/ /\ pc = "fetch" /\ cached /\ queue[1] = GemvOf("up", l)
              /\ Tail(queue) = <<GemvOf("down", l), Topk, Memset, Describe>>
<1>1. queue # <<>> /\ queue[1].op = "gemv"
  BY DEF Executes
<1>2. CASE pc = "select"
  BY <1>1, <1>2, SelectingNext DEF Queued
<1>3. CASE pc = "fetch" /\ ~ cached
  BY <1>1, <1>3, IdxNext, Ops DEF Queued
<1>4. CASE pc = "fetch" /\ cached
  BY <1>1, <1>4, MissesNext, Ops DEF Queued
<1>5. CASE pc \in {"up", "down", "launch"}
  BY <1>1, <1>5, CopiesNext, Ops
<1>6. QED
  BY <1>2, <1>3, <1>4, <1>5 DEF Queued

(* The row of a cached channel is in the slot that its place gives it.       *)
LEMMA CacheHit ==
  ASSUME DTypes, NEW l \in Layers, NEW c \in hot[l]
  PROVE  /\ slot_of(l, c) \in 0 .. I - 1 /\ CacheRow(l, slot_of(l, c)) = <<l, c>>
<1>1. hot[l] \in SUBSET Channels /\ Channels \in SUBSET Nat /\ IsFiniteSet(Channels)
  <2>1. IsFiniteSet(0 .. I - 1)
    BY DipAssumption, FS_Interval
  <2>2. QED
    BY <2>1, DipAssumption DEF DTypes, Channels
<1>2. PICK S \in SUBSET Nat : S = hot[l] /\ IsFiniteSet(S) /\ Cardinality(S) <= Cardinality(Channels)
  BY <1>1, FS_Subset
<1>3. Cardinality(Channels) = I
  <2>1. 0 \in Int /\ I - 1 \in Int /\ (IF 0 > I - 1 THEN 0 ELSE I - 1 - 0 + 1) = I
    BY DipAssumption
  <2>2. QED
    BY <2>1, FS_Interval DEF Channels
<1>4. \A d : Place(S, d) = SmallerIn(S, d)
  BY DEF Place, SmallerIn
<1>5. /\ \A d \in S : Place(S, d) \in 0 .. Cardinality(S) - 1
      /\ \A d, e \in S : d < e => Place(S, d) < Place(S, e)
  BY <1>2, <1>4, Places
<1>6. Cardinality(S) \in Nat
  BY <1>2, FS_CardinalityType
<1>7. slot_of(l, c) = Place(S, c) /\ c \in S
  BY <1>2 DEF slot_of
<1>8. \A d \in S : Place(S, d) = Place(S, c) => d = c
  <2>1. SUFFICES ASSUME NEW d \in S, Place(S, d) = Place(S, c), d # c PROVE FALSE
    OBVIOUS
  <2>2. Place(S, c) \in Int /\ (d < c \/ c < d)
    <3>1. d \in Int /\ c \in Int
      BY <1>2, <1>7
    <3>2. Place(S, c) \in 0 .. Cardinality(S) - 1
      BY <1>5, <1>7
    <3>3. QED
      BY <2>1, <3>1, <3>2
  <2>3. (d < c => Place(S, d) < Place(S, c)) /\ (c < d => Place(S, c) < Place(S, d))
    BY <1>5, <1>7
  <2>4. QED
    BY <2>1, <2>2, <2>3
<1>9. AtPlace(S, Place(S, c)) = c
  BY <1>7, <1>8 DEF AtPlace
<1>10. slot_of(l, c) \in 0 .. I - 1
  BY <1>2, <1>3, <1>5, <1>6, <1>7, DipAssumption
<1>11. QED
  BY <1>2, <1>7, <1>9, <1>10 DEF CacheRow

-----------------------------------------------------------------------------
(* A step that changes nothing keeps the invariant.                          *)
LEMMA StutterKeeps ==
  ASSUME MInv, UNCHANGED vars
  PROVE  MInv'
BY DEF MInv, vars, config, host, device, selection, DTypes, Queued, Selecting, FetchingIdx,
       FetchingMisses, Described, Threads, Found, Gathered, Moved, Holds, Ready, Supplied, RowFor,
       CacheRow, ScaleFor, StagingScale, CacheScale,
       slot_of, GemvOf, CopyOf, CopyRows, Topk, Count, Memset, Describe, ReadsSelectedRows

(* The action Select keeps the invariant.                                    *)
LEMMA SelectKeeps ==
  ASSUME MInv, Select
  PROVE  MInv'
<1>1. /\ pc = "select" /\ pc' = "fetch" /\ Selecting
      /\ cached => queue' = queue \o <<Topk, Memset, Describe>>
      /\ ~ cached => queue' = queue \o <<Topk, Count>>
      /\ UNCHANGED <<cached, hot, layer, rows, staging, gpu, idx, descriptors, miss_channels,
                     miss_count, result>>
  BY DEF MInv, Select, Queued, config, device, selection
<1>2. /\ ~ cached => \/ queue' = <<Topk, Count>>
                     \/ \E l \in Layers : \/ queue' = <<GemvOf("down", l), Topk, Count>>
                                          \/ queue' = <<GemvOf("up", l), GemvOf("down", l), Topk, Count>>
      /\ cached => \/ queue' = <<Topk, Memset, Describe>>
                   \/ \E l \in Layers : \/ queue' = <<GemvOf("down", l), Topk, Memset, Describe>>
                                        \/ queue' = <<GemvOf("up", l), GemvOf("down", l), Topk, Memset, Describe>>
  <2>1. CASE queue = <<>>
    BY <1>1, <2>1, Joined
  <2>2. CASE \E l \in Layers : queue = <<GemvOf("down", l)>>
    <3>1. PICK l \in Layers : queue = <<GemvOf("down", l)>>
      BY <2>2
    <3>2. /\ ~ cached => queue' = <<GemvOf("down", l), Topk, Count>>
          /\ cached => queue' = <<GemvOf("down", l), Topk, Memset, Describe>>
      BY <1>1, <3>1, Joined
    <3>3. QED
      BY <3>2
  <2>3. CASE \E l \in Layers : queue = <<GemvOf("up", l), GemvOf("down", l)>>
    <3>1. PICK l \in Layers : queue = <<GemvOf("up", l), GemvOf("down", l)>>
      BY <2>3
    <3>2. /\ ~ cached => queue' = <<GemvOf("up", l), GemvOf("down", l), Topk, Count>>
          /\ cached => queue' = <<GemvOf("up", l), GemvOf("down", l), Topk, Memset, Describe>>
      BY <1>1, <3>1, Joined
    <3>3. QED
      BY <3>2
  <2>4. QED
    BY <1>1, <2>1, <2>2, <2>3 DEF Selecting
<1>3. Topk' = Topk /\ Count' = Count /\ Memset' = Memset /\ Describe' = Describe
  BY <1>1 DEF Topk, Count, Memset, Describe
<1>4. Queued'
  BY <1>1, <1>2, <1>3 DEF Queued, FetchingIdx, FetchingMisses
<1>5. cached => queue' # <<>> /\ queue' # <<Describe'>>
  BY <1>2, Shapes
<1>6. DTypes' /\ ReadsSelectedRows'
  BY <1>1 DEF MInv, DTypes, ReadsSelectedRows
<1>7. Described' /\ Gathered' /\ Moved'
  BY <1>1, <1>5 DEF Described, Gathered, Moved
<1>8. Ready'
  <2>1. SUFFICES ASSUME NEW l \in Layers, NEW r0 \in Roles, queue'[1] = GemvOf(r0, l)
                 PROVE  \A r \in Roles, i \in Picks : Supplied(r, l, i)'
    BY <1>1 DEF Ready
  <2>2. queue # <<>> /\ queue[1] = GemvOf(r0, l)
    <3>1. queue # <<>>
      <4>1. CASE queue = <<>>
        <5>1. queue' = <<Topk, Memset, Describe>> \/ queue' = <<Topk, Count>>
          BY <1>1, <4>1, Joined
        <5>2. queue'[1] = Topk
          BY <5>1, Tuples
        <5>3. QED
          BY <5>2, <2>1, Ops
      <4>2. QED
        BY <4>1
    <3>2. PICK m \in Layers : queue = <<GemvOf("down", m)>> \/ queue = <<GemvOf("up", m), GemvOf("down", m)>>
      BY <1>1, <3>1 DEF Selecting
    <3>3. CASE queue = <<GemvOf("down", m)>>
      <4>1. queue' = <<GemvOf("down", m), Topk, Memset, Describe>> \/ queue' = <<GemvOf("down", m), Topk, Count>>
        BY <1>1, <3>3, Joined
      <4>2. queue'[1] = GemvOf("down", m) /\ queue[1] = GemvOf("down", m)
        BY <3>3, <4>1, Tuples
      <4>3. QED
        BY <2>1, <3>1, <4>2
    <3>4. CASE queue = <<GemvOf("up", m), GemvOf("down", m)>>
      <4>1. \/ queue' = <<GemvOf("up", m), GemvOf("down", m), Topk, Memset, Describe>>
            \/ queue' = <<GemvOf("up", m), GemvOf("down", m), Topk, Count>>
        BY <1>1, <3>4, Joined
      <4>2. queue'[1] = GemvOf("up", m) /\ queue[1] = GemvOf("up", m)
        BY <3>4, <4>1, Tuples
      <4>3. QED
        BY <2>1, <3>1, <4>2
    <3>5. QED
      BY <3>2, <3>3, <3>4
  <2>3. \A r \in Roles, i \in Picks : Supplied(r, l, i)
    BY <2>2 DEF MInv, Ready
  <2>4. QED
    BY <1>1, <2>3 DEF Supplied, RowFor, CacheRow, ScaleFor, StagingScale, CacheScale
<1>9. QED
  BY <1>4, <1>6, <1>7, <1>8 DEF MInv

(* The action Fetch keeps the invariant.                                     *)
LEMMA FetchKeeps ==
  ASSUME MInv, Fetch
  PROVE  MInv'
<1>1. /\ pc = "fetch" /\ pc' = "up" /\ queue = <<>> /\ queue' = <<>>
      /\ rows' = IF cached THEN [i \in 1 .. miss_count |-> miss_channels[i - 1]]
                           ELSE [i \in 1 .. dip_k |-> idx[i - 1]]
      /\ UNCHANGED <<cached, hot, layer, staging, gpu, idx, descriptors, miss_channels,
                     miss_count, result>>
  BY DEF Fetch, Synchronized, config, device, selection
<1>2. DTypes' /\ ReadsSelectedRows'
  BY <1>1 DEF MInv, DTypes, ReadsSelectedRows
<1>3. Queued' /\ Gathered' /\ Moved' /\ Ready'
  BY <1>1 DEF Queued, Gathered, Moved, Ready
<1>4. Described'
  BY <1>1 DEF MInv, Described, Threads, Found, slot_of
<1>5. QED
  BY <1>2, <1>3, <1>4 DEF MInv

(* The action Gather keeps the invariant.                                    *)
LEMMA GatherKeeps ==
  ASSUME MInv, NEW r \in Roles, gather_rows_staged(r)
  PROVE  MInv'
<1>1. /\ pc = r /\ pc' = IF r = "up" THEN "down" ELSE "launch"
      /\ staging' = [staging EXCEPT ![r] =
           [i \in Picks |-> IF i < Len(rows) THEN <<layer, rows[i + 1]>> ELSE @[i]]]
      /\ queue' = Append(queue, CopyOf(r))
      /\ UNCHANGED <<cached, hot, layer, rows, gpu, idx, descriptors, miss_channels,
                     miss_count, result>>
  BY DEF gather_rows_staged, StagingOf, CopyOf, config, device, selection
<1>2. DOMAIN staging = Roles /\ DOMAIN staging[r] = Picks
  BY DEF MInv, DTypes
<1>3. /\ staging'[r] = [i \in Picks |-> IF i < Len(rows) THEN <<layer, rows[i + 1]>> ELSE staging[r][i]]
      /\ \A r1 \in Roles : r1 # r => staging'[r1] = staging[r1]
      /\ DOMAIN staging' = Roles
  BY <1>1, <1>2
<1>4. DTypes' /\ ReadsSelectedRows'
  BY <1>1, <1>3 DEF MInv, DTypes, ReadsSelectedRows
<1>5. CopyOf("up")' = CopyOf("up") /\ CopyOf("down")' = CopyOf("down") /\ CopyOf("up") # CopyOf("down")
  BY <1>1 DEF CopyOf, CopyRows
<1>6. Holds(staging, r)'
  BY <1>1, <1>3 DEF Holds
<1>7. Described' /\ Gathered'
  BY <1>1 DEF MInv, Described, Gathered, Threads, Found, slot_of, Roles
<1>8. CASE r = "up"
  <2>1. pc = "up" /\ pc' = "down" /\ queue' = <<CopyOf("up")>>
    BY <1>1, <1>8, Joined DEF MInv, Queued
  <2>2. Queued'
    BY <2>1, <1>5 DEF Queued
  <2>3. Moved'
    BY <2>1, <1>5, <1>6, <1>8, Tuples, Shapes DEF Moved
  <2>4. Ready'
    BY <2>1, Tuples, Ops DEF Ready
  <2>5. QED
    BY <1>4, <1>7, <2>2, <2>3, <2>4 DEF MInv
<1>9. CASE r = "down"
  <2>1. /\ pc = "down" /\ pc' = "launch"
        /\ \/ queue = <<>> /\ queue' = <<CopyOf("down")>>
           \/ queue = <<CopyOf("up")>> /\ queue' = <<CopyOf("up"), CopyOf("down")>>
    BY <1>1, <1>9, Joined DEF MInv, Queued
  <2>2. Queued'
    BY <2>1, <1>5 DEF Queued
  <2>3. Holds(staging, "up")'
    BY <2>1, <1>1, <1>3, <1>9 DEF MInv, Moved, Holds, Roles
  <2>4. queue' # <<>>
    BY <2>1, Shapes
  <2>5. queue' = <<CopyOf("down")>> => queue = <<>>
    BY <2>1, Shapes
  <2>6. Moved'
    BY <2>1, <2>3, <2>4, <2>5, <1>1, <1>5, <1>6, <1>9 DEF MInv, Moved, Holds
  <2>7. Ready'
    BY <2>1, Tuples, Ops DEF Ready
  <2>8. QED
    BY <1>4, <1>7, <2>2, <2>6, <2>7 DEF MInv
<1>10. QED
  BY <1>8, <1>9 DEF Roles

(* The action Launch keeps the invariant.                                    *)
LEMMA LaunchKeeps ==
  ASSUME MInv, Launch
  PROVE  MInv'
<1>1. /\ pc = "launch" /\ pc' = "select" /\ queue = <<>> /\ layer' = (layer + 1) % NumLayers
      /\ queue' = <<>> \o <<GemvOf("up", layer), GemvOf("down", layer)>>
      /\ UNCHANGED <<cached, hot, rows, staging, gpu, idx, descriptors, miss_channels,
                     miss_count, result>>
  BY DEF Launch, Synchronized, Gemv, GemvOf, config, device, selection
<1>2. queue' = <<GemvOf("up", layer), GemvOf("down", layer)>> /\ layer \in Layers
  BY <1>1, Joined DEF MInv, DTypes
<1>3. layer' \in Layers
  <2>1. NumLayers \in Nat \ {0} /\ layer \in 0 .. NumLayers - 1
    BY <1>2, DipAssumption DEF Layers
  <2>2. (layer + 1) % NumLayers \in 0 .. NumLayers - 1
    BY <2>1
  <2>3. QED
    BY <1>1, <2>2 DEF Layers
<1>4. DTypes' /\ ReadsSelectedRows'
  BY <1>1, <1>3 DEF MInv, DTypes, ReadsSelectedRows
<1>5. Queued'
  BY <1>1, <1>2 DEF Queued, Selecting
<1>6. Described' /\ Gathered' /\ Moved'
  BY <1>1 DEF Described, Gathered, Moved
<1>7. ASSUME NEW r \in Roles, NEW i \in Picks
      PROVE  Supplied(r, layer, i)
  <2>1. \A j \in Picks : j < Len(rows) => gpu[r][j] = <<layer, rows[j + 1]>>
    BY <1>1 DEF MInv, Moved, Holds, Roles
  <2>2. CASE ~ cached
    <3>1. rows = [j \in 1 .. dip_k |-> idx[j - 1]]
      BY <1>1, <2>2 DEF MInv, Gathered
    <3>2. dip_k \in Nat /\ i \in 0 .. dip_k - 1
      BY DipAssumption DEF Picks
    <3>3. Len(rows) = dip_k /\ i < dip_k /\ rows[i + 1] = idx[i]
      BY <3>1, <3>2
    <3>4. QED
      BY <2>1, <2>2, <3>3 DEF Supplied, RowFor, ScaleFor, StagingScale
  <2>3. CASE cached /\ idx[i] \in hot[layer]
    <3>1. Threads = Picks /\ Found(layer, i)
      BY <1>1, <2>3 DEF MInv, Described
    <3>2. descriptors[i] = FromCache(slot_of(layer, idx[i]))
      BY <2>3, <3>1 DEF Found
    <3>3. /\ RowFor(r, layer, i) = CacheRow(layer, slot_of(layer, idx[i]))
          /\ ScaleFor(layer, i) = CacheScale(layer, slot_of(layer, idx[i]))
      BY <2>3, <3>2 DEF RowFor, ScaleFor, FromCache
    <3>4. CacheRow(layer, slot_of(layer, idx[i])) = <<layer, idx[i]>>
      BY <1>2, <2>3, CacheHit DEF MInv
    <3>5. QED
      BY <3>3, <3>4 DEF Supplied, CacheRow, CacheScale
  <2>4. CASE cached /\ idx[i] \notin hot[layer]
    <3>1. Threads = Picks /\ Found(layer, i)
      BY <1>1, <2>4 DEF MInv, Described
    <3>2. PICK p \in 0 .. miss_count - 1 :
            p \in Picks /\ descriptors[i] = FromStaging(p) /\ miss_channels[p] = idx[i]
      BY <2>4, <3>1 DEF Found
    <3>3. rows = [j \in 1 .. miss_count |-> miss_channels[j - 1]]
      BY <1>1, <2>4 DEF MInv, Gathered
    <3>4. miss_count \in Nat
      BY DEF MInv, DTypes
    <3>5. Len(rows) = miss_count /\ p < miss_count /\ rows[p + 1] = miss_channels[p]
      BY <3>2, <3>3, <3>4
    <3>6. RowFor(r, layer, i) = gpu[r][p] /\ ScaleFor(layer, i) = <<layer, miss_channels[p]>>
      BY <2>4, <3>2 DEF RowFor, ScaleFor, StagingScale, FromStaging
    <3>7. QED
      BY <2>1, <3>2, <3>5, <3>6 DEF Supplied
  <2>5. QED
    BY <2>2, <2>3, <2>4
<1>8. Ready'
  <2>1. SUFFICES ASSUME NEW l \in Layers, NEW r0 \in Roles, queue'[1] = GemvOf(r0, l)
                 PROVE  \A r \in Roles, i \in Picks : Supplied(r, l, i)'
    BY <1>1 DEF Ready
  <2>2. l = layer
    BY <1>2, <2>1, Tuples DEF GemvOf
  <2>3. QED
    BY <1>1, <1>7, <2>2 DEF Supplied, RowFor, CacheRow, ScaleFor, StagingScale, CacheScale
<1>9. QED
  BY <1>4, <1>5, <1>6, <1>8 DEF MInv

(* The action Topk keeps the invariant.                                      *)
LEMMA TopkKeeps ==
  ASSUME MInv, RunTopk
  PROVE  MInv'
<1>1. /\ pc = "fetch" /\ queue[1] = Topk /\ queue' = Tail(queue)
      /\ \/ cached /\ Tail(queue) = <<Memset, Describe>>
         \/ ~ cached /\ Tail(queue) = <<Count>>
  BY AtTopk DEF MInv, RunTopk, Dequeue
<1>2. DOMAIN idx' = Picks
  BY DEF RunTopk
<1>3. UNCHANGED <<cached, hot, pc, layer, rows, staging, gpu, descriptors, miss_channels,
                  miss_count, result>>
  BY DEF RunTopk, config, host
<1>4. Count' = Count /\ Memset' = Memset /\ Describe' = Describe
  BY <1>3 DEF Count, Memset, Describe
<1>5. DTypes' /\ ReadsSelectedRows'
  BY <1>2, <1>3 DEF MInv, DTypes, ReadsSelectedRows
<1>6. Queued'
  BY <1>1, <1>3, <1>4 DEF Queued, FetchingIdx, FetchingMisses
<1>7. cached => queue' # <<>> /\ queue' # <<Describe'>>
  BY <1>1, Shapes
<1>8. Described' /\ Gathered' /\ Moved'
  BY <1>1, <1>3, <1>7 DEF Described, Gathered, Moved
<1>9. Ready'
  <2>1. queue'[1] = Memset \/ queue'[1] = Count
    <3>1. CASE Tail(queue) = <<Memset, Describe>>
      <4>1. <<Memset, Describe>>[1] = Memset
        BY Tuples
      <4>2. QED
        BY <1>1, <3>1, <4>1
    <3>2. CASE Tail(queue) = <<Count>>
      BY <1>1, <3>2, Tuples
    <3>3. QED
      BY <1>1, <3>1, <3>2
  <2>2. queue'[1].op # "gemv"
    BY <2>1, Ops
  <2>3. QED
    BY <2>2, Ops DEF Ready
<1>10. QED
  BY <1>5, <1>6, <1>8, <1>9 DEF MInv

(* The action Memset keeps the invariant.                                    *)
LEMMA MemsetKeeps ==
  ASSUME MInv, RunMemset
  PROVE  MInv'
<1>1. pc = "fetch" /\ cached /\ queue' = <<Describe>>
  BY AtMemset DEF MInv, RunMemset, Dequeue
<1>2. /\ descriptors' = NoSelection /\ miss_channels' = NoSelection /\ miss_count' = 0
      /\ UNCHANGED <<cached, hot, pc, layer, rows, staging, gpu, idx, result>>
  BY DEF RunMemset, config, host
<1>3. Describe' = Describe
  BY <1>2 DEF Describe
<1>4. DTypes' /\ ReadsSelectedRows'
  BY <1>2 DEF MInv, DTypes, ReadsSelectedRows, NoSelection
<1>5. Queued'
  BY <1>1, <1>2, <1>3 DEF Queued, FetchingMisses
<1>6. queue' # <<>>
  BY <1>1, Shapes
<1>7. Threads' = {}
  BY <1>2 DEF Threads, NoSelection
<1>8. Cardinality(Threads') = 0
  BY <1>7, FS_EmptySet
<1>9. Described' /\ Gathered' /\ Moved'
  BY <1>1, <1>2, <1>6, <1>7, <1>8 DEF Described, Gathered, Moved
<1>10. Ready'
  BY <1>1, Tuples, Ops DEF Ready
<1>11. QED
  BY <1>4, <1>5, <1>9, <1>10 DEF MInv

(* The action Count keeps the invariant.                                     *)
LEMMA CountKeeps ==
  ASSUME MInv, RunCount
  PROVE  MInv'
<1>1. pc = "fetch" /\ ~ cached /\ queue' = <<>>
  BY AtCount DEF MInv, RunCount, Dequeue
<1>2. UNCHANGED <<cached, hot, pc, layer, rows, staging, gpu, idx, descriptors, miss_channels,
                  miss_count, result>>
  BY DEF RunCount, config, host, selection
<1>3. DTypes' /\ ReadsSelectedRows'
  BY <1>2 DEF MInv, DTypes, ReadsSelectedRows
<1>4. Queued' /\ Described' /\ Gathered' /\ Moved' /\ Ready'
  BY <1>1, <1>2 DEF Queued, FetchingIdx, Described, Gathered, Moved, Ready
<1>5. QED
  BY <1>3, <1>4 DEF MInv

(* The action EndDescribe keeps the invariant.                               *)
LEMMA EndDescribeKeeps ==
  ASSUME MInv, EndDescribe
  PROVE  MInv'
<1>1. pc = "fetch" /\ cached /\ queue' = <<>> /\ queue = <<Describe>>
  BY AtDescribe DEF MInv, EndDescribe, Dequeue
<1>2. UNCHANGED <<cached, hot, pc, layer, rows, staging, gpu, idx, descriptors, miss_channels,
                  miss_count, result>>
  BY DEF EndDescribe, config, host, device, selection
<1>3. DTypes' /\ ReadsSelectedRows'
  BY <1>2 DEF MInv, DTypes, ReadsSelectedRows
<1>4. Threads = Picks
  BY DEF EndDescribe, Threads
<1>5. miss_count <= Cardinality(Threads) /\ \A i \in Threads : Found(layer, i)
  BY <1>1 DEF MInv, Described
<1>6. Described'
  BY <1>1, <1>2, <1>4, <1>5 DEF Described, Threads, Found, slot_of
<1>7. Queued' /\ Gathered' /\ Moved' /\ Ready'
  BY <1>1, <1>2 DEF Queued, FetchingMisses, Gathered, Moved, Ready
<1>8. QED
  BY <1>3, <1>6, <1>7 DEF MInv

(* The action Describe keeps the invariant; one thread more is done, and     *)
(* counted if it missed.                                                     *)
LEMMA DescribeKeeps ==
  ASSUME MInv, NEW i \in Picks, DescribeThread(i)
  PROVE  /\ MInv' /\ i \notin Threads /\ Threads' = Threads \cup {i}
         /\ miss_count' = miss_count + IF idx[i] \in hot[layer] THEN 0 ELSE 1
<1>1. /\ pc = "fetch" /\ cached /\ queue = <<Describe>> /\ queue[1] = Describe
      /\ queue[1].layer = layer /\ layer \in Layers
  BY AtDescribe DEF MInv, DescribeThread, Describe, DTypes
<1>2. UNCHANGED <<cached, hot, pc, layer, rows, queue, staging, gpu, idx, result>>
  BY DEF DescribeThread, config, host
<1>3. /\ miss_count <= Cardinality(Threads) /\ \A j \in Threads : Found(layer, j)
      /\ i \in Picks \ Threads /\ Threads \in SUBSET Picks
  BY <1>1 DEF MInv, Described, DescribeThread, Threads
<1>4. Describe' = Describe /\ queue' = <<Describe>> /\ queue' # <<>> /\ queue'[1] = Describe
  BY <1>1, <1>2, Shapes DEF Describe
<1>5. Queued'
  BY <1>1, <1>2, <1>4 DEF Queued, FetchingMisses
<1>6. Gathered' /\ Moved'
  BY <1>1, <1>2 DEF Gathered, Moved
<1>7. Ready'
  BY <1>4, Ops DEF Ready
<1>8. ReadsSelectedRows'
  BY <1>2 DEF MInv, ReadsSelectedRows
<1>9. /\ IsFiniteSet(Threads) /\ Cardinality(Threads) \in Nat /\ Cardinality(Threads) + 1 <= dip_k
      /\ Cardinality(Threads \cup {i}) = Cardinality(Threads) + 1
  <2>1. IsFiniteSet(Picks) /\ Cardinality(Picks) = dip_k
    <3>1. 0 \in Int /\ dip_k - 1 \in Int /\ (IF 0 > dip_k - 1 THEN 0 ELSE dip_k - 1 - 0 + 1) = dip_k
      BY DipAssumption
    <3>2. QED
      BY <3>1, FS_Interval DEF Picks
  <2>2. IsFiniteSet(Threads) /\ Threads \cup {i} \in SUBSET Picks
    BY <1>3, <2>1, FS_Subset
  <2>3. Cardinality(Threads \cup {i}) <= dip_k
    BY <2>1, <2>2, FS_Subset
  <2>4. Cardinality(Threads) \in Nat /\ Cardinality(Threads \cup {i}) = Cardinality(Threads) + 1
    BY <1>3, <2>2, FS_AddElement, FS_CardinalityType
  <2>5. QED
    BY <2>2, <2>3, <2>4
<1>10. miss_count \in Picks /\ miss_count \in 0 .. I /\ dip_k \in Nat
  <2>1. miss_count \in Nat /\ dip_k \in 1 .. I /\ I \in Nat
    BY DipAssumption DEF MInv, DTypes
  <2>2. QED
    BY <2>1, <1>3, <1>9 DEF Picks
<1>11. DOMAIN descriptors = Picks /\ DOMAIN miss_channels = Picks /\ miss_count \in Nat
  BY DEF MInv, DTypes
<1>12. CASE idx[i] \in hot[layer]
  <2>1. slot_of(layer, idx[i]) \in 0 .. I - 1
    BY <1>1, <1>12, CacheHit DEF MInv
  <2>2. I \in Nat
    BY DipAssumption
  <2>3. /\ descriptors' = [descriptors EXCEPT ![i] = FromCache(slot_of(layer, idx[i]))]
        /\ UNCHANGED <<miss_channels, miss_count>>
    BY <1>1, <2>1, <2>2 DEF DescribeThread
  <2>4. FromCache(slot_of(layer, idx[i])) # Unset
    <3>1. FromCache(slot_of(layer, idx[i])) \in [staging : BOOLEAN, offset : 0 .. I]
      BY <2>1, <2>2 DEF FromCache
    <3>2. QED
      BY <3>1, DipAssumption
  <2>5. Threads' = Threads \cup {i}
    BY <1>11, <2>3, <2>4 DEF Threads
  <2>6. DTypes'
    BY <1>2, <2>3 DEF MInv, DTypes
  <2>7. ASSUME NEW j \in Threads'
        PROVE  Found(layer, j)'
    <3>1. CASE j = i
      BY <3>1, <1>2, <1>11, <1>12, <2>3 DEF Found, slot_of
    <3>2. CASE j \in Threads /\ j # i
      BY <3>2, <1>2, <1>3, <2>3 DEF Found, slot_of, Threads
    <3>3. QED
      BY <3>1, <3>2, <2>5
  <2>8. miss_count' <= Cardinality(Threads')
    BY <1>3, <1>9, <1>11, <2>3, <2>5
  <2>9. Described'
    BY <1>1, <1>2, <1>4, <2>7, <2>8 DEF Described
  <2>10. QED
    BY <1>3, <1>5, <1>6, <1>7, <1>8, <1>11, <1>12, <2>3, <2>5, <2>6, <2>9 DEF MInv
<1>13. CASE idx[i] \notin hot[layer]
  <2>1. /\ descriptors' = [descriptors EXCEPT ![i] = FromStaging(miss_count)]
        /\ miss_channels' = [miss_channels EXCEPT ![miss_count] = idx[i]]
        /\ miss_count' = miss_count + 1
    BY <1>1, <1>13 DEF DescribeThread, slot_of, MissPos
  <2>2. FromStaging(miss_count) # Unset
    <3>1. FromStaging(miss_count) \in [staging : BOOLEAN, offset : 0 .. I]
      BY <1>10 DEF FromStaging
    <3>2. QED
      BY <3>1, DipAssumption
  <2>3. Threads' = Threads \cup {i}
    BY <1>11, <2>1, <2>2 DEF Threads
  <2>4. DTypes'
    BY <1>2, <1>11, <2>1 DEF MInv, DTypes
  <2>5. ASSUME NEW j \in Threads'
        PROVE  Found(layer, j)'
    <3>1. CASE j = i
      <4>1. /\ miss_count \in 0 .. miss_count' - 1 /\ miss_count \in Picks
            /\ descriptors'[j] = FromStaging(miss_count) /\ miss_channels'[miss_count] = idx'[j]
        BY <3>1, <1>2, <1>10, <1>11, <2>1
      <4>2. idx'[j] \notin hot'[layer']
        BY <3>1, <1>2, <1>13
      <4>3. QED
        BY <4>1, <4>2 DEF Found
    <3>2. CASE j \in Threads /\ j # i
      <4>1. Found(layer, j) /\ descriptors'[j] = descriptors[j]
        BY <3>2, <1>3, <2>1 DEF Threads
      <4>2. CASE idx[j] \in hot[layer]
        BY <4>1, <4>2, <1>2 DEF Found, slot_of
      <4>3. CASE idx[j] \notin hot[layer]
        <5>1. PICK p \in 0 .. miss_count - 1 :
                p \in Picks /\ descriptors[j] = FromStaging(p) /\ miss_channels[p] = idx[j]
          BY <4>1, <4>3 DEF Found
        <5>2. p \in 0 .. miss_count' - 1 /\ p # miss_count
          BY <5>1, <1>11, <2>1
        <5>3. miss_channels'[p] = idx[j]
          BY <5>1, <5>2, <1>11, <2>1
        <5>4. QED
          BY <4>1, <4>3, <5>1, <5>2, <5>3, <1>2 DEF Found
      <4>4. QED
        BY <4>2, <4>3
    <3>3. QED
      BY <3>1, <3>2, <2>3
  <2>6. miss_count' <= Cardinality(Threads')
    BY <1>3, <1>9, <1>11, <2>1, <2>3
  <2>7. Described'
    BY <1>1, <1>2, <1>4, <2>5, <2>6 DEF Described
  <2>8. QED
    BY <1>3, <1>5, <1>6, <1>7, <1>8, <1>13, <2>1, <2>3, <2>4, <2>7 DEF MInv
<1>14. QED
  BY <1>12, <1>13

(* The action Copy keeps the invariant.                                      *)
LEMMA CopyKeeps ==
  ASSUME MInv, RunCopy
  PROVE  MInv'
<1>1. /\ queue' = Tail(queue) /\ pc' = pc /\ pc \in {"down", "launch"}
      /\ \/ pc = "down" /\ queue[1] = CopyOf("up") /\ Tail(queue) = <<>>
         \/ pc = "launch" /\ queue = <<CopyOf("down")>> /\ queue[1] = CopyOf("down") /\ Tail(queue) = <<>>
         \/ pc = "launch" /\ queue[1] = CopyOf("up") /\ Tail(queue) = <<CopyOf("down")>>
  BY AtCopy DEF MInv, RunCopy, Dequeue, host
<1>2. UNCHANGED <<cached, hot, pc, layer, rows, staging, idx, descriptors, miss_channels,
                  miss_count, result>>
  BY DEF RunCopy, config, host, selection
<1>3. DOMAIN gpu = Roles /\ \A r \in Roles : DOMAIN gpu[r] = Picks
  BY DEF MInv, DTypes
<1>4. PICK r \in Roles : queue[1] = CopyOf(r) /\ queue[1].role = r /\ queue[1].n = Len(rows)
  BY <1>1 DEF CopyOf, CopyRows, Roles
<1>5. gpu' = [gpu EXCEPT ![r] = [i \in Picks |-> IF i < Len(rows) THEN staging[r][i] ELSE @[i]]]
  BY <1>4 DEF RunCopy, StagingOf
<1>6. /\ gpu'[r] = [i \in Picks |-> IF i < Len(rows) THEN staging[r][i] ELSE gpu[r][i]]
      /\ \A r1 \in Roles : r1 # r => gpu'[r1] = gpu[r1]
      /\ DOMAIN gpu' = Roles
  BY <1>3, <1>5
<1>7. DTypes' /\ ReadsSelectedRows'
  BY <1>2, <1>6 DEF MInv, DTypes, ReadsSelectedRows
<1>8. CopyOf("up")' = CopyOf("up") /\ CopyOf("down")' = CopyOf("down") /\ CopyOf("up") # CopyOf("down")
  BY <1>2 DEF CopyOf, CopyRows
<1>9. Queued'
  BY <1>1, <1>8 DEF Queued
<1>10. Described' /\ Gathered'
  BY <1>1, <1>2 DEF MInv, Described, Gathered, Threads, Found, slot_of
<1>11. Ready'
  <2>1. queue' = <<>> \/ queue'[1] = CopyOf("down")
    <3>1. CASE Tail(queue) = <<>>
      BY <1>1, <3>1
    <3>2. CASE Tail(queue) = <<CopyOf("down")>>
      BY <1>1, <3>2, Tuples
    <3>3. QED
      BY <1>1, <3>1, <3>2
  <2>2. queue' = <<>> \/ queue'[1].op # "gemv"
    BY <2>1, Ops
  <2>3. QED
    BY <2>2, Ops DEF Ready
<1>12. Holds(staging, r) => Holds(gpu, r)'
  BY <1>2, <1>6 DEF Holds
<1>13. Moved'
  <2>1. (Holds(staging, "up") => Holds(staging, "up")') /\ (Holds(staging, "down") => Holds(staging, "down")')
    BY <1>2 DEF Holds
  <2>2. CASE pc = "down" /\ queue[1] = CopyOf("up") /\ Tail(queue) = <<>>
    <3>1. r = "up" /\ Holds(staging, "up")
      BY <2>2, <1>4 DEF CopyOf, CopyRows, MInv, Moved
    <3>2. QED
      BY <2>1, <2>2, <3>1, <1>1, <1>12 DEF Moved
  <2>3. CASE pc = "launch" /\ queue = <<CopyOf("down")>> /\ queue[1] = CopyOf("down") /\ Tail(queue) = <<>>
    <3>1. r = "down" /\ Holds(staging, "up") /\ Holds(staging, "down") /\ Holds(gpu, "up")
      BY <2>3, <1>4 DEF CopyOf, CopyRows, MInv, Moved
    <3>2. Holds(gpu, "up")'
      BY <3>1, <1>2, <1>6 DEF Holds, Roles
    <3>3. QED
      BY <2>1, <2>3, <3>1, <3>2, <1>1, <1>12 DEF Moved
  <2>4. CASE pc = "launch" /\ queue[1] = CopyOf("up") /\ Tail(queue) = <<CopyOf("down")>>
    <3>1. r = "up" /\ Holds(staging, "up") /\ Holds(staging, "down")
      BY <2>4, <1>4 DEF CopyOf, CopyRows, MInv, Moved
    <3>2. queue' # <<>>
      BY <2>4, <1>1, Shapes
    <3>3. QED
      BY <2>1, <2>4, <3>1, <3>2, <1>1, <1>12 DEF Moved
  <2>5. QED
    BY <2>2, <2>3, <2>4, <1>1
<1>14. QED
  BY <1>7, <1>9, <1>10, <1>11, <1>13 DEF MInv

(* The action Gemv keeps the invariant.                                      *)
LEMMA GemvKeeps ==
  ASSUME MInv, RunGemv
  PROVE  MInv'
<1>1. queue # <<>> /\ queue' = Tail(queue)
  BY DEF RunGemv, Dequeue, Executes
<1>2. PICK l \in Layers :
        \/ /\ pc = "select" /\ queue[1] = GemvOf("down", l) /\ Tail(queue) = <<>>
        \/ /\ pc = "select" /\ queue[1] = GemvOf("up", l) /\ Tail(queue) = <<GemvOf("down", l)>>
        \/ /\ pc = "fetch" /\ ~ cached /\ queue[1] = GemvOf("down", l) /\ Tail(queue) = <<Topk, Count>>
        \/ /\ pc = "fetch" /\ ~ cached /\ queue[1] = GemvOf("up", l)
           /\ Tail(queue) = <<GemvOf("down", l), Topk, Count>>
        \/ /\ pc = "fetch" /\ cached /\ queue[1] = GemvOf("down", l)
           /\ Tail(queue) = <<Topk, Memset, Describe>>
        \/ /\ pc = "fetch" /\ cached /\ queue[1] = GemvOf("up", l)
           /\ Tail(queue) = <<GemvOf("down", l), Topk, Memset, Describe>>
  BY AtGemv DEF MInv, RunGemv
<1>3. UNCHANGED <<cached, hot, pc, layer, rows, staging, gpu, idx, descriptors, miss_channels, miss_count>>
  BY DEF RunGemv, config, host, selection
<1>4. PICK r \in Roles : queue[1] = GemvOf(r, l) /\ queue[1].role = r /\ queue[1].layer = l
  BY <1>2 DEF GemvOf, Roles
<1>5. \A r1 \in Roles, i \in Picks : Supplied(r1, l, i)
  BY <1>1, <1>4 DEF MInv, Ready
<1>6. DOMAIN result = Roles
  BY DEF MInv, DTypes
<1>7. result' = [result EXCEPT ![r] =
        [i \in Picks |-> [wanted |-> <<l, idx[i]>>, read |-> RowFor(r, l, i), scale |-> ScaleFor(l, i)]]]
  BY <1>4 DEF RunGemv
<1>8. DTypes'
  BY <1>3, <1>7 DEF MInv, DTypes
<1>9. ReadsSelectedRows'
  BY <1>5, <1>6, <1>7 DEF MInv, ReadsSelectedRows, Supplied
<1>10. Topk' = Topk /\ Count' = Count /\ Memset' = Memset /\ Describe' = Describe
  BY <1>3 DEF Topk, Count, Memset, Describe
<1>11. Queued'
  BY <1>1, <1>2, <1>3, <1>10 DEF Queued, Selecting, FetchingIdx, FetchingMisses
<1>12. pc = "fetch" /\ cached => queue' # <<>> /\ queue' # <<Describe'>>
  BY <1>1, <1>2, Shapes
<1>13. Described' /\ Gathered' /\ Moved'
  BY <1>2, <1>3, <1>12 DEF Described, Gathered, Moved
<1>14. Ready'
  <2>1. SUFFICES ASSUME NEW m \in Layers, NEW r0 \in Roles, queue' # <<>>, queue'[1] = GemvOf(r0, m)
                 PROVE  \A r1 \in Roles, i \in Picks : Supplied(r1, m, i)'
    BY DEF Ready
  <2>2. queue'[1] = GemvOf("down", l) \/ queue'[1] = Topk
    <3>1. CASE Tail(queue) = <<GemvOf("down", l)>>
      BY <1>1, <3>1, Tuples
    <3>2. CASE Tail(queue) = <<GemvOf("down", l), Topk, Count>>
      <4>1. <<GemvOf("down", l), Topk, Count>>[1] = GemvOf("down", l)
        BY Tuples
      <4>2. QED
        BY <1>1, <3>2, <4>1
    <3>3. CASE Tail(queue) = <<GemvOf("down", l), Topk, Memset, Describe>>
      <4>1. <<GemvOf("down", l), Topk, Memset, Describe>>[1] = GemvOf("down", l)
        BY Tuples
      <4>2. QED
        BY <1>1, <3>3, <4>1
    <3>4. CASE Tail(queue) = <<Topk, Count>> \/ Tail(queue) = <<Topk, Memset, Describe>>
      <4>1. <<Topk, Count>>[1] = Topk /\ <<Topk, Memset, Describe>>[1] = Topk
        BY Tuples
      <4>2. QED
        BY <1>1, <3>4, <4>1
    <3>5. QED
      BY <1>1, <1>2, <2>1, <3>1, <3>2, <3>3, <3>4
  <2>3. m = l
    BY <2>1, <2>2, Ops DEF GemvOf
  <2>4. QED
    BY <1>3, <1>5, <2>3 DEF Supplied, RowFor, CacheRow, ScaleFor, StagingScale, CacheScale
<1>15. QED
  BY <1>8, <1>9, <1>11, <1>13, <1>14 DEF MInv

-----------------------------------------------------------------------------
(* The invariant holds at the start.                                         *)
LEMMA Start == Init => MInv
<1>1. SUFFICES ASSUME Init PROVE MInv
  OBVIOUS
<1>2. layer = 0 /\ 0 \in Layers
  BY <1>1, DipAssumption DEF Init, Layers
<1>3. hot \in [Layers -> SUBSET Channels]
  BY <1>1 DEF Init
<1>4. DTypes
  BY <1>1, <1>2, <1>3 DEF Init, DTypes, NoSelection
<1>5. Queued /\ Described /\ Gathered /\ Moved /\ Ready
  BY <1>1 DEF Init, Queued, Selecting, Described, Gathered, Moved, Ready
<1>6. ReadsSelectedRows
  BY <1>1 DEF Init, ReadsSelectedRows
<1>7. QED
  BY <1>4, <1>5, <1>6 DEF MInv

(* Every step keeps the invariant.                                           *)
LEMMA Step == MInv /\ [Next]_vars => MInv'
<1>1. SUFFICES ASSUME MInv, [Next]_vars PROVE MInv'
  OBVIOUS
<1>2. CASE HostStep
  BY <1>1, <1>2, SelectKeeps, FetchKeeps, GatherKeeps, LaunchKeeps DEF HostStep
<1>3. CASE StreamStep
  BY <1>1, <1>3, TopkKeeps, MemsetKeeps, CountKeeps, EndDescribeKeeps, CopyKeeps, GemvKeeps, DescribeKeeps
     DEF StreamStep
<1>4. CASE Finished
  BY <1>1, <1>4, StutterKeeps DEF Finished
<1>5. CASE UNCHANGED vars
  BY <1>1, <1>5, StutterKeeps
<1>6. QED
  BY <1>1, <1>2, <1>3, <1>4, <1>5 DEF Next

(* Both sparse GEMVs read the rows of the channels selected for their layer, *)
(* each with its own scales, in the order of the selection, wherever a row   *)
(* comes from.                                                               *)
THEOREM ReadsSelected == Spec => []ReadsSelectedRows
<1>1. MInv => ReadsSelectedRows
  BY DEF MInv
<1>2. QED
  BY Start, Step, <1>1, PTL DEF Spec

(* The host never gathers into a staging buffer a queued copy still reads.   *)
THEOREM NoStagingOverwrite == Spec => []StagingNotInFlight
<1>1. MInv => StagingNotInFlight
  <2>1. SUFFICES ASSUME MInv, pc \in Roles
                 PROVE  ~ \E j \in DOMAIN queue : queue[j].op = "copy" /\ queue[j].role = pc
    BY DEF StagingNotInFlight, StagingOf
  <2>2. CASE queue = <<>>
    BY <2>2
  <2>3. CASE queue = <<CopyOf("up")>> /\ pc = "down"
    <3>1. DOMAIN queue = 1 .. 1 /\ queue[1] = CopyOf("up")
      BY <2>3, Tuples
    <3>2. QED
      BY <2>3, <3>1 DEF CopyOf, CopyRows
  <2>4. QED
    BY <2>1, <2>2, <2>3 DEF MInv, Queued, Roles
<1>2. QED
  BY Start, Step, <1>1, PTL DEF Spec
-----------------------------------------------------------------------------
(* The counters.  From the run of the selection kernel on, the last          *)
(* selection of the layer is what idx lists, each channel once.              *)
Drawn ==
  \/ pc \in {"up", "down", "launch"}
  \/ pc = "fetch" /\ (queue = <<>> \/ queue[1].op \in {"memset", "count", "describe"})
Listed(S) == idx \in Bijection(Picks, S)
Chosen == Last(picked[layer])
SelectionListed == Drawn => Len(picked[layer]) > 0 /\ Listed(Chosen)

CTypes ==
  /\ token \in Nat /\ copied \in Nat
  /\ miss_bytes \in [Layers -> Nat]
  /\ picked \in [Layers -> Seq(kSubset(dip_k, Channels))]
  /\ trace \in [Layers -> Seq([1 .. dip_k -> Channels])]
  /\ channel_counts \in [Layers -> [Channels -> Nat]]

(* The miss count is the number of threads that found no slot.               *)
Missed == {i \in Threads : idx[i] \notin hot[layer]}
MissesCounted ==
  cached /\ (pc \in {"up", "down", "launch"} \/ (pc = "fetch" /\ (queue = <<>> \/ queue = <<Describe>>))) =>
    miss_count = Cardinality(Missed)

(* What the layers are billed is what their selections missed, but for the   *)
(* selection the host is at work on.                                         *)
MissesOf(l) == [t \in DOMAIN picked[l] |-> Cardinality(picked[l][t] \ hot[l])]
Misses(l) == SumOver(MissesOf(l), DOMAIN picked[l])
MissesBilled ==
  cached => \A l \in Layers :
    2 * Misses(l) = miss_bytes[l] + IF Drawn /\ l = layer THEN 2 * Cardinality(Chosen \ hot[l]) ELSE 0

(* What was copied is what was billed, and what of the current rows is on    *)
(* the device by now.                                                        *)
Billed == IF cached THEN SumOver(miss_bytes, Layers) ELSE (token * NumLayers + layer) * (2 * dip_k)
Arrived ==
  CASE pc = "down" /\ queue = <<>>                     -> Len(rows)
    [] pc = "launch" /\ queue = <<>>                   -> 2 * Len(rows)
    [] pc = "launch" /\ queue = <<CopyOf("down")>>     -> Len(rows)
    [] OTHER                                           -> 0
CopiesBilled == copied = Billed + Arrived

(* A channel's count is the number of its traces, but for the selection that *)
(* was counted and is not yet traced.                                        *)
Entries(s, c) == {t \in DOMAIN s : c \in ToSet(s[t])}
TracesOf(l, c) == Entries(trace[l], c)
TracesCounted ==
  ~ cached => \A l \in Layers, c \in Channels :
    channel_counts[l][c] = Cardinality(TracesOf(l, c))
      + IF pc = "fetch" /\ queue = <<>> /\ l = layer /\ (\E i \in Picks : idx[i] = c) THEN 1 ELSE 0

CInv ==
  MInv /\ CTypes /\ SelectionListed /\ MissesCounted /\ MissesBilled /\ CopiesBilled /\ TracesCounted

(* The channels selected are listed once each.                               *)
LEMMA Enumerated ==
  ASSUME NEW S \in kSubset(dip_k, Channels)
  PROVE  /\ [i \in Picks |-> AtPlace(S, i)] \in Bijection(Picks, S)
         /\ S \in SUBSET Channels /\ IsFiniteSet(S)
<1> DEFINE f == [i \in Picks |-> AtPlace(S, i)]
<1>1. S \in SUBSET Channels /\ Cardinality(S) = dip_k
  BY DEF kSubset
<1>2. IsFiniteSet(S) /\ S \in SUBSET Nat
  <2>1. IsFiniteSet(0 .. I - 1) /\ Channels \in SUBSET Nat
    BY DipAssumption, FS_Interval DEF Channels
  <2>2. QED
    BY <1>1, <2>1, FS_Subset DEF Channels
<1>3. \A c \in S : Place(S, c) \in Picks
  BY <1>1, <1>2, Places DEF Place, SmallerIn, Picks
<1>4. \A r \in Picks : AtPlace(S, r) \in S /\ Place(S, AtPlace(S, r)) = r
  <2>1. \A r \in Picks : \E c \in S : Place(S, c) = r
    BY <1>1, <1>2, Places DEF Place, SmallerIn, Picks
  <2>2. QED
    BY <2>1 DEF AtPlace
<1>5. \A c, d \in S : Place(S, c) = Place(S, d) => c = d
  <2> SUFFICES ASSUME NEW c \in S, NEW d \in S, Place(S, c) = Place(S, d), c # d PROVE FALSE
    OBVIOUS
  <2>1. c \in Nat /\ d \in Nat /\ Place(S, c) \in Int
    BY <1>2, <1>3 DEF Picks
  <2>2. c < d => Place(S, c) < Place(S, d)
    BY <1>2, Places DEF Place, SmallerIn
  <2>3. d < c => Place(S, d) < Place(S, c)
    BY <1>2, Places DEF Place, SmallerIn
  <2>4. QED
    BY <2>1, <2>2, <2>3
<1>6. f \in [Picks -> S]
  BY <1>4
<1>7. \A i, j \in Picks : f[i] = f[j] => i = j
  BY <1>4
<1>8. \A c \in S : \E i \in Picks : f[i] = c
  BY <1>3, <1>4, <1>5
<1>9. f \in Bijection(Picks, S)
  <2> HIDE DEF f
  <2>1. f \in Injection(Picks, S)
    BY <1>6, <1>7, Fun_IsInj
  <2>2. f \in Surjection(Picks, S)
    BY <1>6, <1>8 DEF Surjection
  <2>3. QED
    BY <2>1, <2>2 DEF Bijection
<1>10. QED
  BY <1>1, <1>2, <1>9

(* What a list of each member once gives: its values and where they are.     *)
LEMMA ListFacts ==
  ASSUME NEW S, Listed(S)
  PROVE  /\ idx \in [Picks -> S]
         /\ \A i, j \in Picks : idx[i] = idx[j] => i = j
         /\ \A c \in S : \E i \in Picks : idx[i] = c
BY DEF Listed, Bijection, Injection, Surjection, IsInjective

(* As many positions miss the cache as channels do.                          *)
LEMMA PositionsMiss ==
  ASSUME NEW S, Listed(S), NEW H
  PROVE  Cardinality({i \in Picks : idx[i] \notin H}) = Cardinality(S \ H)
<1> DEFINE A == {i \in Picks : idx[i] \notin H}
           f == [i \in A |-> idx[i]]
<1>1. IsFiniteSet(A)
  <2>1. IsFiniteSet(Picks)
    <3>1. dip_k - 1 \in Int
      BY DipAssumption
    <3>2. QED
      BY <3>1, FS_Interval DEF Picks
  <2>2. QED
    BY <2>1, FS_Subset
<1>2. f \in [A -> S \ H]
  BY ListFacts
<1>3. \A i, j \in A : f[i] = f[j] => i = j
  BY ListFacts
<1>4. \A c \in S \ H : \E i \in A : f[i] = c
  BY ListFacts
<1> HIDE DEF f, A
<1>5. f \in Bijection(A, S \ H)
  <2>1. f \in Injection(A, S \ H)
    BY <1>2, <1>3, Fun_IsInj
  <2>2. f \in Surjection(A, S \ H)
    BY <1>2, <1>4 DEF Surjection
  <2>3. QED
    BY <2>1, <2>2 DEF Bijection
<1>6. ExistsBijection(A, S \ H)
  BY <1>5 DEF ExistsBijection
<1>7. QED
  BY <1>1, <1>6, FS_Bijection DEF A

(* The misses of a layer are a natural number, and one selection more adds   *)
(* its own.                                                                  *)
Weighed(s, H) == SumOver([t \in DOMAIN s |-> Cardinality(s[t] \ H)], DOMAIN s)

LEMMA WeighedMore ==
  ASSUME NEW s \in Seq(kSubset(dip_k, Channels)), NEW H
  PROVE  /\ Weighed(s, H) \in Nat
         /\ \A S \in kSubset(dip_k, Channels) :
              Weighed(Append(s, S), H) = Weighed(s, H) + Cardinality(S \ H)
<1> DEFINE D == 1 .. Len(s)
           f == [t \in D |-> Cardinality(s[t] \ H)]
<1>1. DOMAIN s = D /\ IsFiniteSet(D) /\ Len(s) \in Nat
  BY FS_Interval
<1>2. \A S \in kSubset(dip_k, Channels) : Cardinality(S \ H) \in Nat
  <2> TAKE S \in kSubset(dip_k, Channels)
  <2>1. IsFiniteSet(S \ H)
    BY Enumerated, FS_Subset
  <2>2. QED
    BY <2>1, FS_CardinalityType
<1>3. \A t \in D : f[t] \in Nat
  BY <1>1, <1>2
<1>4. Weighed(s, H) = SumOver(f, D)
  BY <1>1 DEF Weighed
<1>5. Weighed(s, H) \in Nat
  <2> HIDE DEF f, D
  <2>1. QED
    BY <1>1, <1>3, <1>4, SumIsNatural
<1>6. ASSUME NEW S \in kSubset(dip_k, Channels)
      PROVE  Weighed(Append(s, S), H) = Weighed(s, H) + Cardinality(S \ H)
  <2> DEFINE s2 == Append(s, S)
             n == Len(s) + 1
             E == 1 .. n
             g == [t \in E |-> Cardinality(s2[t] \ H)]
  <2>1. DOMAIN s2 = E /\ s2[n] = S /\ \A t \in D : s2[t] = s[t]
    BY <1>1
  <2>2. IsFiniteSet(E) /\ n \in E /\ E \ {n} = D
    <3>1. \A m \in Nat : 1 \in Int /\ m + 1 \in Int /\ m + 1 \in 1 .. m + 1 /\ (1 .. m + 1) \ {m + 1} = 1 .. m
      OBVIOUS
    <3>2. IsFiniteSet(E)
      BY <1>1, <3>1, FS_Interval
    <3>3. QED
      BY <1>1, <3>1, <3>2
  <2>3. g[n] = Cardinality(S \ H) /\ \A t \in D : g[t] = f[t]
    BY <2>1, <2>2
  <2>4. Weighed(s2, H) = SumOver(g, E)
    BY <2>1 DEF Weighed
  <2>5. \A t \in E : g[t] \in Int
    BY <1>2, <1>3, <2>2, <2>3
  <2> HIDE DEF g, E, s2, n, f, D
  <2>6. SumOver(g, E) = SumOver(g, D) + g[n]
    BY <2>2, <2>5, SumAdd
  <2>7. SumOver(g, D) = SumOver(f, D)
    BY <1>1, <2>3, SumSame
  <2>8. QED
    BY <1>4, <2>3, <2>4, <2>6, <2>7 DEF s2
<1>7. QED
  BY <1>5, <1>6

(* The rows of a layer: those its selection missed, or all of it.            *)
LEMMA RowsOfLayer ==
  ASSUME CInv, pc \in {"up", "down", "launch"}
  PROVE  /\ Len(rows) \in Nat
         /\ cached => Len(rows) = Cardinality(Chosen \ hot[layer])
         /\ ~ cached => Len(rows) = dip_k
<1>1. CASE cached
  <2>1. rows = [i \in 1 .. miss_count |-> miss_channels[i - 1]] /\ miss_count \in Nat
    BY <1>1 DEF CInv, MInv, Gathered, DTypes
  <2>2. Len(rows) = miss_count
    BY <2>1
  <2>3. Threads = Picks /\ miss_count = Cardinality(Missed) /\ Listed(Chosen)
    BY <1>1 DEF CInv, MInv, Described, MissesCounted, SelectionListed, Drawn
  <2>4. Cardinality(Missed) = Cardinality(Chosen \ hot[layer])
    BY <2>3, PositionsMiss DEF Missed
  <2>5. QED
    BY <1>1, <2>1, <2>2, <2>3, <2>4
<1>2. CASE ~ cached
  <2>1. rows = [i \in 1 .. dip_k |-> idx[i - 1]] /\ dip_k \in Nat
    BY <1>2, DipAssumption DEF CInv, MInv, Gathered
  <2>2. QED
    BY <1>2, <2>1
<1>3. QED
  BY <1>1, <1>2 DEF CInv, MInv, DTypes

(* What the counters say stays true while nothing they speak of changes.     *)
LEMMA MissesStay ==
  ASSUME CInv, UNCHANGED <<cached, hot, layer, idx, miss_bytes, picked>>, Drawn' <=> Drawn
  PROVE  SelectionListed' /\ MissesBilled'
BY DEF CInv, SelectionListed, MissesBilled, Misses, MissesOf, Chosen, Listed

(* The same for the traces.                                                  *)
LEMMA TracesStay ==
  ASSUME CInv, UNCHANGED <<cached, layer, idx, trace, channel_counts>>,
         (pc = "fetch" /\ queue = <<>>)' <=> (pc = "fetch" /\ queue = <<>>)
  PROVE  TracesCounted'
BY DEF CInv, TracesCounted, TracesOf

(* The same for the copies.                                                  *)
LEMMA CopiesStay ==
  ASSUME CInv, UNCHANGED <<cached, token, layer, miss_bytes, copied>>, Arrived' = Arrived
  PROVE  CopiesBilled'
BY DEF CInv, CopiesBilled, Billed

(* The counters after Select.                                                *)
LEMMA SelectCounts ==
  ASSUME CInv, Select
  PROVE  CInv'
<1>1. /\ pc = "select" /\ pc' = "fetch" /\ Selecting
      /\ cached => queue' = queue \o <<Topk, Memset, Describe>>
      /\ ~ cached => queue' = queue \o <<Topk, Count>>
      /\ UNCHANGED <<cached, hot, token, layer, idx, miss_bytes, picked, trace, channel_counts, copied>>
  BY DEF CInv, MInv, Select, Queued, config, device, selection
<1>2. queue' # <<>> /\ queue'[1].op \in {"topk", "gemv"}
  <2>1. CASE queue = <<>>
    <3>1. queue' = <<Topk, Memset, Describe>> \/ queue' = <<Topk, Count>>
      BY <1>1, <2>1, Joined
    <3>2. queue' # <<>> /\ queue'[1] = Topk
      BY <3>1, Tuples, Shapes
    <3>3. QED
      BY <3>2, Ops
  <2>2. CASE queue # <<>>
    <3>1. PICK l \in Layers : queue = <<GemvOf("down", l)>> \/ queue = <<GemvOf("up", l), GemvOf("down", l)>>
      BY <1>1, <2>2 DEF Selecting
    <3>2. \/ queue' = <<GemvOf("down", l), Topk, Memset, Describe>>
          \/ queue' = <<GemvOf("down", l), Topk, Count>>
          \/ queue' = <<GemvOf("up", l), GemvOf("down", l), Topk, Memset, Describe>>
          \/ queue' = <<GemvOf("up", l), GemvOf("down", l), Topk, Count>>
      <4>1. CASE queue = <<GemvOf("down", l)>>
        <5>1. \/ queue' = <<GemvOf("down", l)>> \o <<Topk, Memset, Describe>>
              \/ queue' = <<GemvOf("down", l)>> \o <<Topk, Count>>
          BY <1>1, <4>1
        <5>2. QED
          BY <5>1, Joined
      <4>2. CASE queue = <<GemvOf("up", l), GemvOf("down", l)>>
        <5>1. \/ queue' = <<GemvOf("up", l), GemvOf("down", l)>> \o <<Topk, Memset, Describe>>
              \/ queue' = <<GemvOf("up", l), GemvOf("down", l)>> \o <<Topk, Count>>
          BY <1>1, <4>2
        <5>2. QED
          BY <5>1, Joined
      <4>3. QED
        BY <3>1, <4>1, <4>2
    <3>3. queue' # <<>> /\ (queue'[1] = GemvOf("down", l) \/ queue'[1] = GemvOf("up", l))
      BY <3>2, Tuples, Shapes
    <3>4. QED
      BY <3>3, Ops
  <2>3. QED
    BY <2>1, <2>2
<1>3. ~ Drawn /\ ~ Drawn'
  BY <1>1, <1>2 DEF Drawn
<1>4. SelectionListed' /\ MissesBilled'
  BY <1>1, <1>3, MissesStay
<1>5. TracesCounted'
  BY <1>1, <1>2, TracesStay
<1>6. CopiesBilled'
  BY <1>1, CopiesStay DEF Arrived
<1>7. MissesCounted'
  <2>1. queue' # <<Describe'>>
    BY <1>2, Tuples, Ops DEF Describe
  <2>2. QED
    BY <1>1, <1>2, <2>1 DEF MissesCounted
<1>8. CTypes'
  BY <1>1 DEF CInv, CTypes
<1>9. QED
  BY <1>4, <1>5, <1>6, <1>7, <1>8, SelectKeeps DEF CInv

(* A set of trace entries grows by the entry appended, if the channel is in  *)
(* it.                                                                       *)
LEMMA TraceGrows ==
  ASSUME NEW S, NEW s \in Seq(S), NEW x \in S, NEW c
  PROVE  /\ Cardinality(Entries(s, c)) \in Nat
         /\ Cardinality(Entries(Append(s, x), c)) =
              Cardinality(Entries(s, c)) + IF c \in ToSet(x) THEN 1 ELSE 0
<1> DEFINE n == Len(s) + 1
           In == Entries(s, c)
           More == Entries(Append(s, x), c)
<1>1. DOMAIN s = 1 .. Len(s) /\ Len(s) \in Nat
  OBVIOUS
<1>2. IsFiniteSet(In) /\ Cardinality(In) \in Nat
  <2>1. IsFiniteSet(1 .. Len(s))
    BY <1>1, FS_Interval
  <2>2. In \in SUBSET (1 .. Len(s))
    BY <1>1 DEF Entries
  <2> HIDE DEF In
  <2>3. QED
    BY <2>1, <2>2, FS_Subset, FS_CardinalityType
<1>3. n \notin In /\ More = IF c \in ToSet(x) THEN In \cup {n} ELSE In
  <2>1. DOMAIN Append(s, x) = 1 .. n /\ Append(s, x)[n] = x /\ \A j \in 1 .. Len(s) : Append(s, x)[j] = s[j]
    BY <1>1
  <2>2. 1 .. n = (1 .. Len(s)) \cup {n} /\ n \notin 1 .. Len(s)
    BY <1>1
  <2>3. QED
    BY <1>1, <2>1, <2>2 DEF Entries
<1> HIDE DEF In, More, n
<1>4. Cardinality(In \cup {n}) = Cardinality(In) + 1
  BY <1>2, <1>3, FS_AddElement
<1>5. Cardinality(More) = Cardinality(In) + IF c \in ToSet(x) THEN 1 ELSE 0
  BY <1>2, <1>3, <1>4
<1>6. QED
  BY <1>2, <1>5 DEF In, More

(* The counters after Fetch.                                                 *)
LEMMA FetchCounts ==
  ASSUME CInv, Fetch
  PROVE  CInv'
<1>1. /\ pc = "fetch" /\ pc' = "up" /\ queue = <<>> /\ queue' = <<>>
      /\ rows' = IF cached THEN [i \in 1 .. miss_count |-> miss_channels[i - 1]]
                           ELSE [i \in 1 .. dip_k |-> idx[i - 1]]
      /\ trace' = IF cached THEN trace ELSE [trace EXCEPT ![layer] = Append(@, rows')]
      /\ UNCHANGED <<cached, hot, token, layer, idx, descriptors, miss_count, miss_bytes, picked,
                     channel_counts, copied>>
  BY DEF Fetch, Synchronized, config, device, selection
<1>2. Drawn /\ Drawn'
  BY <1>1 DEF Drawn
<1>3. SelectionListed' /\ MissesBilled'
  BY <1>1, <1>2, MissesStay
<1>4. CopiesBilled'
  BY <1>1, CopiesStay DEF Arrived
<1>5. MissesCounted'
  BY <1>1 DEF CInv, MissesCounted, Missed, Threads
<1>6. layer \in Layers /\ trace \in [Layers -> Seq([1 .. dip_k -> Channels])] /\ dip_k \in Nat
  BY DipAssumption DEF CInv, MInv, DTypes, CTypes
<1>7. ASSUME ~ cached
      PROVE  /\ rows' \in [1 .. dip_k -> Channels]
             /\ \A c : c \in ToSet(rows') <=> \E i \in Picks : idx[i] = c
  <2>1. Listed(Chosen) /\ Chosen \in SUBSET Channels
    <3>1. Listed(Chosen) /\ picked[layer] \in Seq(kSubset(dip_k, Channels)) /\ Len(picked[layer]) > 0
      BY <1>2, <1>6 DEF CInv, SelectionListed, CTypes
    <3>2. Chosen \in kSubset(dip_k, Channels)
      BY <3>1 DEF Chosen, Last
    <3>3. QED
      BY <3>1, <3>2, Enumerated
  <2>2. \A i \in Picks : idx[i] \in Channels
    BY <2>1, ListFacts
  <2>3. rows' = [i \in 1 .. dip_k |-> idx[i - 1]]
    BY <1>1, <1>7
  <2>4. \A i \in 1 .. dip_k : i - 1 \in Picks
    BY <1>6 DEF Picks
  <2>5. \A i \in Picks : i + 1 \in 1 .. dip_k /\ (i + 1) - 1 = i
    BY <1>6 DEF Picks
  <2>6. rows' \in [1 .. dip_k -> Channels]
    BY <2>2, <2>3, <2>4
  <2>7. \A i \in Picks : rows'[i + 1] = idx[i] /\ i + 1 \in DOMAIN rows'
    BY <2>3, <2>5
  <2>8. \A j \in DOMAIN rows' : j - 1 \in Picks /\ rows'[j] = idx[j - 1]
    BY <2>3, <2>4
  <2>9. QED
    BY <2>6, <2>7, <2>8 DEF ToSet
<1>8. CTypes'
  <2>1. trace' \in [Layers -> Seq([1 .. dip_k -> Channels])]
    BY <1>1, <1>6, <1>7
  <2>2. QED
    BY <1>1, <2>1 DEF CInv, CTypes
<1>9. TracesCounted'
  <2>1. SUFFICES ASSUME ~ cached, NEW l \in Layers, NEW c \in Channels
                 PROVE  channel_counts[l][c] = Cardinality(TracesOf(l, c)') + 0
    BY <1>1 DEF TracesCounted
  <2>2. channel_counts[l][c] = Cardinality(TracesOf(l, c))
          + IF l = layer /\ (\E i \in Picks : idx[i] = c) THEN 1 ELSE 0
    BY <1>1, <2>1 DEF CInv, TracesCounted
  <2>3. trace[l] \in Seq([1 .. dip_k -> Channels]) /\ rows' \in [1 .. dip_k -> Channels]
    BY <1>6, <1>7, <2>1
  <2>4. Cardinality(TracesOf(l, c)) \in Nat
    <3>1. Cardinality(Entries(trace[l], c)) \in Nat
      BY <2>3, TraceGrows
    <3>2. QED
      BY <3>1 DEF TracesOf
  <2>5. CASE l = layer
    <3>1. trace'[l] = Append(trace[l], rows')
      BY <1>1, <1>6, <2>1, <2>5
    <3>2. Cardinality(TracesOf(l, c)') = Cardinality(TracesOf(l, c)) + IF c \in ToSet(rows') THEN 1 ELSE 0
      <4>1. Cardinality(Entries(Append(trace[l], rows'), c)) =
              Cardinality(Entries(trace[l], c)) + IF c \in ToSet(rows') THEN 1 ELSE 0
        BY <2>3, TraceGrows
      <4>2. QED
        BY <3>1, <4>1 DEF TracesOf
    <3>3. QED
      BY <1>7, <2>1, <2>2, <2>4, <2>5, <3>2
  <2>6. CASE l # layer
    <3>1. trace'[l] = trace[l]
      BY <1>1, <1>6, <2>1, <2>6
    <3>2. QED
      BY <2>2, <2>4, <2>6, <3>1 DEF TracesOf
  <2>7. QED
    BY <2>5, <2>6
<1>10. QED
  BY <1>3, <1>4, <1>5, <1>8, <1>9, FetchKeeps DEF CInv

(* The counters after a gather.                                              *)
LEMMA GatherCounts ==
  ASSUME CInv, NEW r \in Roles, gather_rows_staged(r)
  PROVE  CInv'
<1>1. /\ pc = r /\ pc' = IF r = "up" THEN "down" ELSE "launch"
      /\ queue' = Append(queue, CopyOf(r))
      /\ UNCHANGED <<cached, hot, token, layer, rows, idx, descriptors, miss_count, miss_bytes, picked,
                     trace, channel_counts, copied>>
  BY DEF gather_rows_staged, StagingOf, CopyOf, config, device, selection
<1>2. CopyOf("up")' = CopyOf("up") /\ CopyOf("down")' = CopyOf("down") /\ CopyOf("up") # CopyOf("down")
  BY <1>1 DEF CopyOf, CopyRows
<1>3. Drawn /\ Drawn'
  BY <1>1 DEF Drawn, Roles
<1>4. SelectionListed' /\ MissesBilled'
  BY <1>1, <1>3, MissesStay
<1>5. TracesCounted'
  BY <1>1, TracesStay DEF Roles
<1>6. MissesCounted'
  BY <1>1 DEF CInv, MissesCounted, Missed, Threads, Roles
<1>7. Arrived' = Arrived
  <2>1. CASE r = "up"
    <3>1. pc = "up" /\ pc' = "down" /\ queue' = <<CopyOf("up")>> /\ queue' # <<>>
      BY <1>1, <2>1, Joined, Shapes DEF CInv, MInv, Queued
    <3>2. QED
      BY <3>1 DEF Arrived
  <2>2. CASE r = "down" /\ queue = <<>>
    <3>1. pc = "down" /\ pc' = "launch" /\ queue' = <<CopyOf("down")>> /\ queue' # <<>>
      BY <1>1, <2>2, Joined, Shapes
    <3>2. QED
      BY <1>1, <1>2, <2>2, <3>1 DEF Arrived
  <2>3. CASE r = "down" /\ queue = <<CopyOf("up")>>
    <3>1. pc = "down" /\ pc' = "launch" /\ queue' = <<CopyOf("up"), CopyOf("down")>>
      BY <1>1, <2>3, Joined
    <3>2. queue # <<>> /\ queue' # <<>> /\ queue' # <<CopyOf("down")'>>
      BY <2>3, <3>1, Shapes
    <3>3. QED
      BY <3>1, <3>2 DEF Arrived
  <2>4. QED
    BY <1>1, <2>1, <2>2, <2>3 DEF CInv, MInv, Queued, Roles
<1>8. CopiesBilled'
  BY <1>1, <1>7, CopiesStay
<1>9. CTypes'
  BY <1>1 DEF CInv, CTypes
<1>10. QED
  BY <1>4, <1>5, <1>6, <1>8, <1>9, GatherKeeps DEF CInv

(* The counters after Launch.                                                *)
LEMMA LaunchCounts ==
  ASSUME CInv, Launch
  PROVE  CInv'
<1> DEFINE n == Len(rows)
<1>1. /\ pc = "launch" /\ pc' = "select" /\ queue = <<>> /\ layer' = (layer + 1) % NumLayers
      /\ token' = IF layer' = 0 THEN token + 1 ELSE token
      /\ miss_bytes' = IF cached THEN [miss_bytes EXCEPT ![layer] = @ + 2 * n] ELSE miss_bytes
      /\ UNCHANGED <<cached, hot, idx, picked, trace, channel_counts, copied>>
  BY DEF Launch, Synchronized, MissRows, config, device, selection
<1>2. /\ n \in Nat /\ (cached => n = Cardinality(Chosen \ hot[layer])) /\ (~ cached => n = dip_k)
  BY <1>1, RowsOfLayer
<1> HIDE DEF n
<1>3. Drawn /\ ~ Drawn'
  BY <1>1 DEF Drawn
<1>4. /\ layer \in Layers /\ token \in Nat /\ NumLayers \in Nat \ {0} /\ dip_k \in Nat
      /\ miss_bytes \in [Layers -> Nat] /\ layer \in 0 .. NumLayers - 1
  BY DipAssumption DEF CInv, MInv, DTypes, CTypes, Layers
<1>5. /\ token' \in Nat /\ layer' \in Nat
      /\ token' * NumLayers + layer' = token * NumLayers + layer + 1
  <2>1. CASE layer + 1 < NumLayers
    <3>1. layer' = layer + 1 /\ token' = token
      BY <1>1, <1>4, <2>1
    <3>2. token * NumLayers \in Int
      BY <1>4
    <3>3. QED
      BY <1>4, <3>1, <3>2
  <2>2. CASE layer + 1 = NumLayers
    <3>1. layer' = 0 /\ token' = token + 1
      BY <1>1, <1>4, <2>2
    <3>2. (token + 1) * NumLayers = token * NumLayers + NumLayers /\ token * NumLayers \in Int
      BY <1>4
    <3>3. QED
      BY <1>4, <2>2, <3>1, <3>2
  <2>3. QED
    BY <1>4, <2>1, <2>2
<1>6. CTypes'
  <2>1. 2 * n \in Nat
    BY <1>2
  <2>2. \A l \in Layers : miss_bytes[l] \in Nat
    BY <1>4
  <2>3. [miss_bytes EXCEPT ![layer] = @ + 2 * n] \in [Layers -> Nat]
    BY <1>4, <2>1, <2>2
  <2>4. miss_bytes' \in [Layers -> Nat]
    BY <1>1, <1>4, <2>3
  <2>5. /\ token' \in Nat /\ copied' = copied /\ picked' = picked /\ trace' = trace
        /\ channel_counts' = channel_counts
    BY <1>1, <1>5
  <2>6. QED
    BY <2>4, <2>5 DEF CInv, CTypes
<1>7. SelectionListed' /\ MissesCounted' /\ TracesCounted'
  BY <1>1, <1>3 DEF CInv, SelectionListed, MissesCounted, TracesCounted, TracesOf
<1>8. MissesBilled'
  <2> SUFFICES ASSUME cached, NEW l \in Layers
               PROVE  2 * Misses(l) = miss_bytes'[l] + 0
    BY <1>1, <1>3 DEF MissesBilled, Misses, MissesOf
  <2>1. 2 * Misses(l) = miss_bytes[l] + IF l = layer THEN 2 * n ELSE 0
    BY <1>2, <1>3 DEF CInv, MissesBilled
  <2>2. miss_bytes[l] \in Nat
    BY <1>4
  <2>3. miss_bytes'[l] = miss_bytes[l] + IF l = layer THEN 2 * n ELSE 0
    BY <1>1, <1>2, <1>4
  <2> HIDE DEF Misses
  <2>4. QED
    BY <1>2, <2>1, <2>2, <2>3
<1>9. Billed' = Billed + 2 * n
  <2>1. CASE cached
    <3>1. miss_bytes' = [miss_bytes EXCEPT ![layer] = @ + 2 * n]
      BY <1>1, <2>1
    <3>2. IsFiniteSet(Layers)
      BY <1>4, FS_Interval DEF Layers
    <3>3. SumOver(miss_bytes', Layers) = SumOver(miss_bytes, Layers) + 2 * n
      <4> DEFINE g == miss_bytes'
                 d == 2 * n
      <4>1. /\ \A l \in Layers : miss_bytes[l] \in Int
            /\ d \in Int
            /\ g[layer] = miss_bytes[layer] + d
            /\ \A l \in Layers : l # layer => g[l] = miss_bytes[l]
        BY <1>2, <1>4, <3>1
      <4> HIDE DEF g, d
      <4>2. SumOver(g, Layers) = SumOver(miss_bytes, Layers) + d
        <5>1. layer \in Layers
          BY <1>4
        <5>2. ASSUME NEW f, NEW h, \A l \in Layers : f[l] \in Int, h[layer] = f[layer] + d,
                     \A l \in Layers : l # layer => h[l] = f[l]
              PROVE  SumOver(h, Layers) = SumOver(f, Layers) + d
          BY <3>2, <4>1, <5>1, <5>2, SumUpdate
        <5>3. QED
          BY <4>1, <5>2
      <4>3. QED
        BY <4>2 DEF g, d
    <3>4. QED
      BY <1>1, <2>1, <3>3 DEF Billed
  <2>2. CASE ~ cached
    <3>1. \A a \in Int : (a + 1) * (2 * dip_k) = a * (2 * dip_k) + 2 * dip_k
      BY <1>4
    <3>2. token * NumLayers + layer \in Int
      BY <1>4
    <3>3. QED
      BY <1>1, <1>2, <1>5, <2>2, <3>1, <3>2 DEF Billed
  <2>3. QED
    BY <2>1, <2>2
<1>10. CopiesBilled'
  <2>1. copied = Billed + 2 * n
    BY <1>1 DEF CInv, CopiesBilled, Arrived, n
  <2>2. Arrived' = 0
    BY <1>1 DEF Arrived
  <2>3. copied \in Nat
    BY DEF CInv, CTypes
  <2>4. QED
    BY <1>1, <1>9, <2>1, <2>2, <2>3 DEF CopiesBilled
<1>11. QED
  BY <1>6, <1>7, <1>8, <1>10, LaunchKeeps DEF CInv

(* The counters after the selection kernel.                                  *)
LEMMA TopkCounts ==
  ASSUME CInv, RunTopk
  PROVE  CInv'
<1>1. /\ pc = "fetch" /\ queue[1] = Topk /\ queue # <<>> /\ queue' = Tail(queue)
      /\ \/ cached /\ Tail(queue) = <<Memset, Describe>>
         \/ ~ cached /\ Tail(queue) = <<Count>>
  BY AtTopk DEF CInv, MInv, RunTopk, Executes, Dequeue
<1>2. UNCHANGED <<cached, hot, pc, token, layer, rows, descriptors, miss_count, miss_bytes, trace,
                  channel_counts, copied>>
  BY DEF RunTopk, config, host
<1>3. queue' # <<>> /\ queue' # <<Describe'>> /\ queue'[1].op \in {"memset", "count"}
  <2>1. CASE Tail(queue) = <<Memset, Describe>>
    <3>1. queue' = <<Memset, Describe>>
      BY <1>1, <2>1
    <3>2. queue'[1] = Memset
      BY <3>1, Tuples
    <3>3. queue' # <<>> /\ queue' # <<Describe'>>
      BY <3>1, Shapes
    <3>4. QED
      BY <3>2, <3>3, Ops
  <2>2. CASE Tail(queue) = <<Count>>
    <3>1. queue' # <<>> /\ queue'[1] = Count /\ <<Describe'>>[1] = Describe'
      BY <1>1, <2>2, Tuples, Shapes
    <3>2. Describe'.op = "describe"
      BY DEF Describe
    <3>3. QED
      BY <3>1, <3>2, Ops
  <2>3. QED
    BY <1>1, <2>1, <2>2
<1>4. ~ Drawn /\ Drawn'
  BY <1>1, <1>2, <1>3, Ops DEF Drawn
<1>5. PICK S \in kSubset(dip_k, Channels) :
        /\ idx' = [i \in Picks |-> AtPlace(S, i)]
        /\ picked' = [picked EXCEPT ![layer] = Append(@, S)]
  <2>1. queue[1].layer = layer
    BY <1>1 DEF Topk
  <2>2. QED
    BY <2>1 DEF RunTopk
<1>6. layer \in Layers /\ picked \in [Layers -> Seq(kSubset(dip_k, Channels))]
  BY DEF CInv, MInv, DTypes, CTypes
<1>7. /\ picked'[layer] = Append(picked[layer], S)
      /\ \A l \in Layers : l # layer => picked'[l] = picked[l]
      /\ picked' \in [Layers -> Seq(kSubset(dip_k, Channels))]
  BY <1>5, <1>6
<1>8. Len(picked'[layer]) > 0 /\ Chosen' = S
  <2>1. picked[layer] \in Seq(kSubset(dip_k, Channels))
    BY <1>6
  <2>2. Len(Append(picked[layer], S)) > 0 /\ Last(Append(picked[layer], S)) = S
    BY <2>1 DEF Last
  <2>3. QED
    BY <1>2, <1>7, <2>2 DEF Chosen
<1>9. CTypes'
  BY <1>2, <1>7 DEF CInv, CTypes
<1>10. SelectionListed'
  <2>1. idx' \in Bijection(Picks, S)
    BY <1>5, Enumerated
  <2>2. QED
    BY <1>2, <1>8, <2>1 DEF SelectionListed, Listed
<1>11. MissesCounted' /\ TracesCounted' /\ CopiesBilled'
  <2>1. MissesCounted'
    BY <1>1, <1>2, <1>3 DEF MissesCounted
  <2>2. TracesCounted'
    BY <1>1, <1>2, <1>3 DEF CInv, TracesCounted, TracesOf
  <2>3. CopiesBilled'
    BY <1>1, <1>2, CopiesStay DEF Arrived
  <2>4. QED
    BY <2>1, <2>2, <2>3
<1>12. MissesBilled'
  <2> SUFFICES ASSUME cached, NEW l \in Layers
               PROVE  2 * Misses(l)' = miss_bytes[l] + IF l = layer THEN 2 * Cardinality(S \ hot[layer]) ELSE 0
    BY <1>2, <1>4, <1>8 DEF MissesBilled
  <2>1. Misses(l) = Weighed(picked[l], hot[l]) /\ Misses(l)' = Weighed(picked'[l], hot[l])
    BY <1>2 DEF Misses, MissesOf, Weighed
  <2>2. 2 * Misses(l) = miss_bytes[l] + 0
    BY <1>4 DEF CInv, MissesBilled
  <2>3. Misses(l) \in Nat
    BY <1>6, <2>1, WeighedMore
  <2>4. miss_bytes[l] \in Nat /\ Cardinality(S \ hot[layer]) \in Nat
    <3>1. IsFiniteSet(S \ hot[layer])
      BY Enumerated, FS_Subset
    <3>2. QED
      BY <3>1, FS_CardinalityType DEF CInv, CTypes
  <2>5. l = layer => Misses(l)' = Misses(l) + Cardinality(S \ hot[layer])
    <3>1. picked[layer] \in Seq(kSubset(dip_k, Channels))
      BY <1>6
    <3>2. Weighed(Append(picked[layer], S), hot[layer]) = Weighed(picked[layer], hot[layer]) + Cardinality(S \ hot[layer])
      BY <3>1, WeighedMore
    <3>3. QED
      BY <1>7, <2>1, <3>2
  <2>6. l # layer => Misses(l)' = Misses(l)
    BY <1>7, <2>1
  <2>7. QED
    BY <2>2, <2>3, <2>4, <2>5, <2>6
<1>13. QED
  BY <1>9, <1>10, <1>11, <1>12, TopkKeeps DEF CInv

(* The counters after the reset of the miss count.                           *)
LEMMA MemsetCounts ==
  ASSUME CInv, RunMemset
  PROVE  CInv'
<1>1. pc = "fetch" /\ cached /\ queue' = <<Describe>> /\ queue # <<>> /\ queue[1].op = "memset"
  BY AtMemset DEF CInv, MInv, RunMemset, Executes, Dequeue
<1>2. /\ descriptors' = NoSelection /\ miss_count' = 0
      /\ UNCHANGED <<cached, hot, pc, token, layer, rows, idx, miss_bytes, picked, trace,
                     channel_counts, copied>>
  BY DEF RunMemset, config, host
<1>3. queue' # <<>> /\ queue'[1].op = "describe"
  BY <1>1, Tuples, Shapes, Ops
<1>4. Drawn /\ Drawn'
  BY <1>1, <1>2, <1>3 DEF Drawn
<1>5. SelectionListed' /\ MissesBilled'
  BY <1>2, <1>4, MissesStay
<1>6. CopiesBilled' /\ TracesCounted'
  BY <1>1, <1>2, <1>3, CopiesStay, TracesStay DEF Arrived
<1>7. MissesCounted'
  <2>1. Missed' = {}
    BY <1>2 DEF Missed, Threads, NoSelection
  <2>2. QED
    BY <1>2, <2>1, FS_EmptySet DEF MissesCounted
<1>8. CTypes'
  BY <1>2 DEF CInv, CTypes
<1>9. QED
  BY <1>5, <1>6, <1>7, <1>8, MemsetKeeps DEF CInv

(* The traces that hold a channel are finitely many.                         *)
LEMMA TracesAreCounted ==
  ASSUME NEW S, NEW s \in Seq(S), NEW c
  PROVE  Cardinality(Entries(s, c)) \in Nat
<1>1. IsFiniteSet(1 .. Len(s)) /\ Entries(s, c) \in SUBSET (1 .. Len(s))
  BY FS_Interval DEF Entries
<1>2. QED
  BY <1>1, FS_Subset, FS_CardinalityType

(* The counters after the histogram.                                         *)
LEMMA CountCounts ==
  ASSUME CInv, RunCount
  PROVE  CInv'
<1>1. pc = "fetch" /\ ~ cached /\ queue[1] = Count /\ queue' = <<>> /\ queue # <<>> /\ queue[1].op = "count"
  BY AtCount DEF CInv, MInv, RunCount, Executes, Dequeue
<1>2. UNCHANGED <<cached, hot, pc, token, layer, rows, idx, miss_bytes, picked, trace, copied>>
  BY DEF RunCount, config, host, selection
<1>3. Drawn /\ Drawn'
  BY <1>1, <1>2 DEF Drawn
<1>4. SelectionListed' /\ MissesBilled' /\ CopiesBilled' /\ MissesCounted'
  <2>1. SelectionListed' /\ MissesBilled'
    BY <1>2, <1>3, MissesStay
  <2>2. CopiesBilled'
    BY <1>1, <1>2, CopiesStay DEF Arrived
  <2>3. QED
    BY <1>1, <1>2, <2>1, <2>2 DEF MissesCounted
<1>5. ASSUME NEW c \in Channels
      PROVE  Cardinality({i \in Picks : idx[i] = c}) = IF \E i \in Picks : idx[i] = c THEN 1 ELSE 0
  <2>1. \A i, j \in Picks : idx[i] = idx[j] => i = j
    BY <1>3, ListFacts DEF CInv, SelectionListed
  <2>2. CASE \E i \in Picks : idx[i] = c
    <3>1. PICK i \in Picks : idx[i] = c
      BY <2>2
    <3>2. {j \in Picks : idx[j] = c} = {i}
      BY <2>1, <3>1
    <3>3. Cardinality({i}) = 1
      BY FS_Singleton
    <3>4. QED
      BY <2>2, <3>2, <3>3
  <2>3. CASE ~ \E i \in Picks : idx[i] = c
    <3>1. {j \in Picks : idx[j] = c} = {}
      BY <2>3
    <3>2. QED
      BY <2>3, <3>1, FS_EmptySet
  <2>4. QED
    BY <2>2, <2>3
<1>6. /\ layer \in Layers /\ channel_counts \in [Layers -> [Channels -> Nat]]
      /\ channel_counts' = [channel_counts EXCEPT ![layer] =
           [c \in Channels |-> @[c] + Cardinality({i \in Picks : idx[i] = c})]]
  <2>1. queue[1].layer = layer
    BY <1>1 DEF Count
  <2>2. QED
    BY <2>1 DEF CInv, MInv, DTypes, CTypes, RunCount, CountedLayer
<1>7. ASSUME NEW l \in Layers, NEW c \in Channels
      PROVE  channel_counts'[l][c] =
               channel_counts[l][c] + IF l = layer /\ (\E i \in Picks : idx[i] = c) THEN 1 ELSE 0
  <2>1. channel_counts[l][c] \in Nat
    BY <1>6
  <2>2. CASE l = layer
    <3>1. channel_counts'[l][c] = channel_counts[l][c] + Cardinality({i \in Picks : idx[i] = c})
      BY <1>6, <2>2
    <3>2. QED
      BY <1>5, <2>2, <3>1
  <2>3. CASE l # layer
    BY <1>6, <2>1, <2>3
  <2>4. QED
    BY <2>2, <2>3
<1>8. TracesCounted'
  <2>1. SUFFICES ASSUME NEW l \in Layers, NEW c \in Channels
                 PROVE  channel_counts'[l][c] = Cardinality(TracesOf(l, c))
                          + IF l = layer /\ (\E i \in Picks : idx[i] = c) THEN 1 ELSE 0
    BY <1>1, <1>2 DEF TracesCounted, TracesOf
  <2>2. channel_counts[l][c] = Cardinality(TracesOf(l, c)) + 0
    BY <1>1 DEF CInv, TracesCounted
  <2>3. Cardinality(TracesOf(l, c)) \in Nat
    <3>1. trace[l] \in Seq([1 .. dip_k -> Channels])
      BY DEF CInv, CTypes
    <3>2. QED
      BY <3>1, TracesAreCounted DEF TracesOf
  <2>4. QED
    BY <1>7, <2>2, <2>3
<1>9. CTypes'
  <2>1. channel_counts' \in [Layers -> [Channels -> Nat]]
    <3>1. ASSUME NEW l \in Layers, NEW c \in Channels PROVE channel_counts'[l][c] \in Nat
      BY <1>6, <1>7
    <3>2. \A l \in Layers : channel_counts'[l] = [c \in Channels |-> channel_counts'[l][c]]
      BY <1>6
    <3>3. QED
      BY <1>6, <3>1, <3>2
  <2>2. QED
    BY <1>2, <2>1 DEF CInv, CTypes
<1>10. QED
  BY <1>4, <1>8, <1>9, CountKeeps DEF CInv

(* The counters at the end of the descriptor kernel.                         *)
LEMMA EndDescribeCounts ==
  ASSUME CInv, EndDescribe
  PROVE  CInv'
<1>1. pc = "fetch" /\ cached /\ queue = <<Describe>> /\ queue' = <<>> /\ queue # <<>> /\ queue[1].op = "describe"
  BY AtDescribe DEF CInv, MInv, EndDescribe, Executes, Dequeue
<1>2. UNCHANGED <<cached, hot, pc, token, layer, rows, idx, descriptors, miss_count, miss_bytes, picked,
                  trace, channel_counts, copied>>
  BY DEF EndDescribe, config, host, device, selection
<1>3. Drawn /\ Drawn'
  BY <1>1, <1>2 DEF Drawn
<1>4. SelectionListed' /\ MissesBilled'
  BY <1>2, <1>3, MissesStay
<1>5. CopiesBilled' /\ TracesCounted'
  <2>1. CopiesBilled'
    BY <1>1, <1>2, CopiesStay DEF Arrived
  <2>2. QED
    BY <1>1, <1>2, <2>1 DEF TracesCounted
<1>6. MissesCounted' /\ CTypes'
  BY <1>1, <1>2 DEF CInv, MissesCounted, Missed, Threads, CTypes
<1>7. QED
  BY <1>4, <1>5, <1>6, EndDescribeKeeps DEF CInv

(* The counters after a thread of the descriptor kernel.                     *)
LEMMA DescribeCounts ==
  ASSUME CInv, NEW i \in Picks, DescribeThread(i)
  PROVE  CInv'
<1>1. pc = "fetch" /\ cached /\ queue = <<Describe>> /\ queue # <<>>
  BY AtDescribe DEF CInv, MInv, DescribeThread, Executes
<1>2. UNCHANGED <<cached, hot, pc, token, layer, rows, queue, idx, miss_bytes, picked, trace,
                  channel_counts, copied>>
  BY DEF DescribeThread, config, host
<1>3. Drawn' <=> Drawn
  BY <1>2 DEF Drawn
<1>4. SelectionListed' /\ MissesBilled'
  BY <1>2, <1>3, MissesStay
<1>5. CopiesBilled' /\ TracesCounted'
  <2>1. CopiesBilled'
    BY <1>1, <1>2, CopiesStay DEF Arrived
  <2>2. QED
    BY <1>1, <1>2, <2>1 DEF TracesCounted
<1>6. MissesCounted'
  <2>1. /\ i \notin Threads /\ Threads' = Threads \cup {i}
        /\ miss_count' = miss_count + IF idx[i] \in hot[layer] THEN 0 ELSE 1
    BY DescribeKeeps DEF CInv
  <2>2. miss_count = Cardinality(Missed) /\ miss_count \in Nat
    BY <1>1 DEF CInv, MissesCounted, MInv, DTypes
  <2>3. IsFiniteSet(Missed)
    <3>1. IsFiniteSet(Picks)
      <4>1. 0 \in Int /\ dip_k - 1 \in Int
        BY DipAssumption
      <4>2. QED
        BY <4>1, FS_Interval DEF Picks
    <3>2. Missed \in SUBSET Picks
      BY DEF Missed, Threads
    <3>3. QED
      BY <3>1, <3>2, FS_Subset
  <2>4. CASE idx[i] \in hot[layer]
    <3>1. Missed' = Missed
      BY <1>2, <2>1, <2>4 DEF Missed
    <3>2. QED
      BY <2>1, <2>2, <2>4, <3>1 DEF MissesCounted
  <2>5. CASE idx[i] \notin hot[layer]
    <3>1. Missed' = Missed \cup {i} /\ i \notin Missed
      BY <1>2, <2>1, <2>5 DEF Missed
    <3>2. Cardinality(Missed \cup {i}) = Cardinality(Missed) + 1
      BY <2>3, <3>1, FS_AddElement
    <3>3. QED
      BY <2>1, <2>2, <2>5, <3>1, <3>2 DEF MissesCounted
  <2>6. QED
    BY <2>4, <2>5
<1>7. CTypes'
  BY <1>2 DEF CInv, CTypes
<1>8. QED
  BY <1>4, <1>5, <1>6, <1>7, DescribeKeeps DEF CInv

(* What is billed is a number.                                               *)
LEMMA BilledIsInt ==
  ASSUME CInv
  PROVE  Billed \in Int
<1>1. /\ miss_bytes \in [Layers -> Nat] /\ token \in Nat /\ layer \in Int /\ dip_k \in Int
      /\ NumLayers \in Int
  BY DipAssumption DEF CInv, MInv, DTypes, CTypes, Layers
<1>2. SumOver(miss_bytes, Layers) \in Int
  <2>1. IsFiniteSet(Layers)
    BY <1>1, FS_Interval DEF Layers
  <2>2. \A l \in Layers : miss_bytes[l] \in Int
    BY <1>1
  <2>3. QED
    BY <2>1, <2>2, SumAdd
<1>3. (token * NumLayers + layer) * (2 * dip_k) \in Int
  BY <1>1
<1>4. QED
  BY <1>2, <1>3 DEF Billed

(* The counters after a copy of staged rows.                                 *)
LEMMA CopyCounts ==
  ASSUME CInv, RunCopy
  PROVE  CInv'
<1>1. /\ queue' = Tail(queue) /\ queue # <<>> /\ pc' = pc /\ pc \in {"down", "launch"}
      /\ \/ pc = "down" /\ queue[1] = CopyOf("up") /\ Tail(queue) = <<>>
         \/ pc = "launch" /\ queue = <<CopyOf("down")>> /\ queue[1] = CopyOf("down") /\ Tail(queue) = <<>>
         \/ pc = "launch" /\ queue[1] = CopyOf("up") /\ Tail(queue) = <<CopyOf("down")>>
  BY AtCopy DEF CInv, MInv, RunCopy, Dequeue, Executes, host
<1>2. /\ copied' = copied + queue[1].n
      /\ UNCHANGED <<cached, hot, token, layer, rows, idx, descriptors, miss_count, miss_bytes, picked,
                     trace, channel_counts>>
  BY DEF RunCopy, config, host, selection
<1>3. Drawn /\ Drawn'
  BY <1>1 DEF Drawn
<1>4. SelectionListed' /\ MissesBilled'
  BY <1>2, <1>3, MissesStay
<1>5. TracesCounted' /\ MissesCounted'
  <2>1. TracesCounted'
    BY <1>1, <1>2, TracesStay
  <2>2. QED
    BY <1>1, <1>2, <2>1 DEF CInv, MissesCounted, Missed, Threads
<1>6. Len(rows) \in Nat /\ copied' = copied + Len(rows) /\ copied \in Nat
  <2>1. queue[1].n = Len(rows)
    BY <1>1 DEF CopyOf, CopyRows
  <2>2. QED
    BY <1>1, <1>2, <2>1, RowsOfLayer DEF CInv, CTypes
<1>7. Arrived \in Int /\ Arrived' = Arrived + Len(rows)
  <2>1. CopyOf("down")' = CopyOf("down") /\ CopyOf("up") # CopyOf("down")
    BY <1>2 DEF CopyOf, CopyRows
  <2>2. CASE pc = "down" /\ queue[1] = CopyOf("up") /\ Tail(queue) = <<>>
    <3>1. Arrived = 0 /\ Arrived' = Len(rows)
      BY <1>1, <1>2, <2>2 DEF Arrived
    <3>2. QED
      BY <1>6, <3>1
  <2>3. CASE pc = "launch" /\ queue = <<CopyOf("down")>> /\ Tail(queue) = <<>>
    <3>1. Arrived = Len(rows) /\ Arrived' = 2 * Len(rows)
      BY <1>1, <1>2, <2>3 DEF Arrived
    <3>2. QED
      BY <1>6, <3>1
  <2>4. CASE pc = "launch" /\ queue[1] = CopyOf("up") /\ Tail(queue) = <<CopyOf("down")>>
    <3>1. queue # <<CopyOf("down")>>
      BY <2>1, <2>4, Tuples
    <3>2. queue' = <<CopyOf("down")'>> /\ queue' # <<>>
      BY <1>1, <2>1, <2>4, Shapes
    <3>3. Arrived = 0 /\ Arrived' = Len(rows)
      BY <1>1, <1>2, <2>4, <3>1, <3>2 DEF Arrived
    <3>4. QED
      BY <1>6, <3>3
  <2>5. QED
    BY <1>1, <2>2, <2>3, <2>4
<1>8. CopiesBilled'
  <2>1. Billed' = Billed
    BY <1>2 DEF Billed
  <2>2. QED
    BY <1>6, <1>7, <2>1, BilledIsInt DEF CInv, CopiesBilled
<1>9. CTypes'
  BY <1>2, <1>6 DEF CInv, CTypes
<1>10. QED
  BY <1>4, <1>5, <1>8, <1>9, CopyKeeps DEF CInv

(* What a sparse GEMV leaves in the queue.                                   *)
LEMMA GemvLeaves ==
  ASSUME Queued, Executes("gemv")
  PROVE  /\ pc \in {"select", "fetch"}
         /\ pc = "fetch" => /\ Tail(queue) # <<>> /\ Tail(queue) # <<Describe>>
                            /\ Tail(queue)[1].op \in {"gemv", "topk"}
<1>1. PICK l \in Layers :
        \/ /\ pc = "select" /\ queue[1] = GemvOf("down", l) /\ Tail(queue) = <<>>
        \/ /\ pc = "select" /\ queue[1] = GemvOf("up", l) /\ Tail(queue) = <<GemvOf("down", l)>>
        \/ /\ pc = "fetch" /\ ~ cached /\ queue[1] = GemvOf("down", l) /\ Tail(queue) = <<Topk, Count>>
        \/ /\ pc = "fetch" /\ ~ cached /\ queue[1] = GemvOf("up", l)
           /\ Tail(queue) = <<GemvOf("down", l), Topk, Count>>
        \/ /\ pc = "fetch" /\ cached /\ queue[1] = GemvOf("down", l)
           /\ Tail(queue) = <<Topk, Memset, Describe>>
        \/ /\ pc = "fetch" /\ cached /\ queue[1] = GemvOf("up", l)
           /\ Tail(queue) = <<GemvOf("down", l), Topk, Memset, Describe>>
  BY AtGemv
<1>2. /\ <<Topk, Count>>[1].op = "topk" /\ <<Topk, Memset, Describe>>[1].op = "topk"
      /\ <<GemvOf("down", l), Topk, Count>>[1].op = "gemv"
      /\ <<GemvOf("down", l), Topk, Memset, Describe>>[1].op = "gemv"
  <2>1. /\ <<Topk, Count>>[1] = Topk /\ <<Topk, Memset, Describe>>[1] = Topk
        /\ <<GemvOf("down", l), Topk, Count>>[1] = GemvOf("down", l)
        /\ <<GemvOf("down", l), Topk, Memset, Describe>>[1] = GemvOf("down", l)
    BY Tuples
  <2>2. QED
    BY <2>1, Ops
<1>3. /\ <<Topk, Count>> # <<>> /\ <<Topk, Count>> # <<Describe>>
      /\ <<Topk, Memset, Describe>> # <<>> /\ <<Topk, Memset, Describe>> # <<Describe>>
      /\ <<GemvOf("down", l), Topk, Count>> # <<>> /\ <<GemvOf("down", l), Topk, Count>> # <<Describe>>
      /\ <<GemvOf("down", l), Topk, Memset, Describe>> # <<>>
      /\ <<GemvOf("down", l), Topk, Memset, Describe>> # <<Describe>>
  BY Shapes
<1>4. QED
  BY <1>1, <1>2, <1>3

(* The counters after a sparse GEMV.                                         *)
LEMMA GemvCounts ==
  ASSUME CInv, RunGemv
  PROVE  CInv'
<1>1. /\ queue # <<>> /\ queue[1].op = "gemv" /\ queue' = Tail(queue)
      /\ pc \in {"select", "fetch"}
      /\ pc = "fetch" => queue' # <<>> /\ queue' # <<Describe>> /\ queue'[1].op \in {"gemv", "topk"}
  BY GemvLeaves DEF CInv, MInv, RunGemv, Executes, Dequeue
<1>2. UNCHANGED <<cached, hot, pc, token, layer, rows, idx, descriptors, miss_count, miss_bytes, picked,
                  trace, channel_counts, copied>>
  BY DEF RunGemv, config, host, selection
<1>3. ~ Drawn /\ ~ Drawn'
  BY <1>1, <1>2 DEF Drawn
<1>4. SelectionListed' /\ MissesBilled'
  BY <1>2, <1>3, MissesStay
<1>5. CopiesBilled' /\ TracesCounted'
  <2>1. Arrived = 0 /\ Arrived' = 0
    BY <1>1, <1>2 DEF Arrived
  <2>2. TracesCounted'
    BY <1>1, <1>2, TracesStay
  <2>3. QED
    BY <1>2, <2>1, <2>2, CopiesStay
<1>6. MissesCounted' /\ CTypes'
  <2>1. Describe' = Describe
    BY <1>2 DEF Describe
  <2>2. QED
    BY <1>1, <1>2, <2>1 DEF CInv, MissesCounted, CTypes
<1>7. QED
  BY <1>4, <1>5, <1>6, GemvKeeps DEF CInv

(* A step that changes nothing keeps the counters too.                       *)
LEMMA StutterCounts ==
  ASSUME CInv, UNCHANGED vars
  PROVE  CInv'
<1>1. UNCHANGED <<cached, hot, pc, token, layer, rows, queue, idx, descriptors, miss_count, miss_bytes,
                  picked, trace, channel_counts, copied>>
  BY DEF vars, config, host, device, selection
<1>2. (Drawn' <=> Drawn) /\ Arrived' = Arrived
  BY <1>1 DEF Drawn, Arrived, CopyOf, CopyRows
<1>3. SelectionListed' /\ MissesBilled' /\ CopiesBilled' /\ TracesCounted'
  BY <1>1, <1>2, MissesStay, CopiesStay, TracesStay
<1>4. MissesCounted' /\ CTypes'
  BY <1>1 DEF CInv, MissesCounted, Missed, Threads, Describe, CTypes
<1>5. QED
  BY <1>3, <1>4, StutterKeeps DEF CInv

-----------------------------------------------------------------------------
(* The counters agree at the start.                                          *)
LEMMA CountsStart == Init => CInv
<1>1. SUFFICES ASSUME Init PROVE CInv
  OBVIOUS
<1>2. /\ pc = "select" /\ token = 0 /\ layer = 0 /\ queue = <<>> /\ copied = 0 /\ ~ Drawn
      /\ miss_bytes = [l \in Layers |-> 0]
      /\ picked = [l \in Layers |-> <<>>] /\ trace = [l \in Layers |-> <<>>]
      /\ channel_counts = [l \in Layers |-> [c \in Channels |-> 0]]
  BY <1>1 DEF Init, Drawn
<1>3. CTypes
  BY <1>2 DEF CTypes
<1>4. SelectionListed /\ MissesCounted
  BY <1>2 DEF SelectionListed, MissesCounted
<1>5. \A f : SumOver(f, {}) = 0
  <2> TAKE f
  <2>1. IsFiniteSet({}) /\ \A x \in {} : f[x] \in Int
    BY FS_EmptySet
  <2>2. QED
    BY <2>1, SumAdd
<1>6. MissesBilled
  <2> SUFFICES ASSUME NEW l \in Layers PROVE 2 * Misses(l) = miss_bytes[l] + 0
    BY <1>2 DEF MissesBilled
  <2>1. DOMAIN picked[l] = {} /\ miss_bytes[l] = 0
    BY <1>2
  <2>2. Misses(l) = 0
    BY <1>5, <2>1 DEF Misses
  <2>3. QED
    BY <2>1, <2>2
<1>7. CopiesBilled
  <2>1. Arrived = 0
    BY <1>2 DEF Arrived
  <2>2. Billed = 0
    <3>1. NumLayers \in Int /\ dip_k \in Int
      BY DipAssumption
    <3>2. SumOver(miss_bytes, Layers) = 0
      <4>1. IsFiniteSet(Layers)
        BY <3>1, FS_Interval DEF Layers
      <4>2. \A l \in Layers : miss_bytes[l] = 0
        BY <1>2
      <4>3. QED
        BY <4>1, <4>2, SumOfZeros
    <3>3. (0 * NumLayers + 0) * (2 * dip_k) = 0
      BY <3>1
    <3>4. QED
      BY <1>2, <3>2, <3>3 DEF Billed
  <2>3. QED
    BY <1>2, <2>1, <2>2 DEF CopiesBilled
<1>8. TracesCounted
  <2> SUFFICES ASSUME NEW l \in Layers, NEW c \in Channels
               PROVE  channel_counts[l][c] = Cardinality(TracesOf(l, c)) + 0
    BY <1>2 DEF TracesCounted
  <2>1. TracesOf(l, c) = {}
    BY <1>2 DEF TracesOf, Entries
  <2>2. QED
    BY <1>2, <2>1, FS_EmptySet
<1>9. QED
  BY <1>1, <1>3, <1>4, <1>6, <1>7, <1>8, Start DEF CInv

(* Every step keeps them in agreement.                                       *)
LEMMA CountsStep == CInv /\ [Next]_vars => CInv'
<1>1. SUFFICES ASSUME CInv, [Next]_vars PROVE CInv'
  OBVIOUS
<1>2. CASE HostStep
  BY <1>1, <1>2, SelectCounts, FetchCounts, GatherCounts, LaunchCounts DEF HostStep
<1>3. CASE StreamStep
  BY <1>1, <1>3, TopkCounts, MemsetCounts, CountCounts, EndDescribeCounts, CopyCounts, GemvCounts,
     DescribeCounts DEF StreamStep
<1>4. CASE Finished
  BY <1>1, <1>4, StutterCounts DEF Finished
<1>5. CASE UNCHANGED vars
  BY <1>1, <1>5, StutterCounts
<1>6. QED
  BY <1>1, <1>2, <1>3, <1>4, <1>5 DEF Next

(* Between tokens, the rows reported are the rows copied to the device, by   *)
(* the closed form without a cache and by the counter with one               *)
(* (generate.py:390-391, 407-426), whatever the hot sets and the selections. *)
THEOREM BytesReported == Spec => []ReportedBytesMatch
<1>1. CInv => ReportedBytesMatch
  <2>1. SUFFICES ASSUME CInv, pc = "select", layer = 0, queue = <<>>
                 PROVE  copied = IF cached THEN MapThenSumSet(LAMBDA l : miss_bytes[l], Layers)
                                           ELSE token * dip_rows_per_token
    BY DEF ReportedBytesMatch, Synchronized
  <2>2. copied = Billed
    <3>1. Arrived = 0
      BY <2>1 DEF Arrived
    <3>2. QED
      BY <2>1, <3>1, BilledIsInt DEF CInv, CopiesBilled
  <2>3. CASE cached
    <3>1. SumOver(miss_bytes, Layers) = MapThenSumSet(LAMBDA l : miss_bytes[l], Layers)
      BY DEF MapThenSumSet, MapThenFoldSet, SumOver, IsSum, SumStep, Pick
    <3>2. QED
      BY <2>2, <2>3, <3>1 DEF Billed
  <2>4. CASE ~ cached
    <3>1. token \in Nat /\ NumLayers \in Nat /\ dip_k \in Nat
      BY <2>1, DipAssumption DEF CInv, CTypes
    <3>2. (token * NumLayers + 0) * (2 * dip_k) = token * (NumLayers * 2 * dip_k)
      BY <3>1
    <3>3. QED
      BY <2>1, <2>2, <2>4, <3>2 DEF Billed, dip_rows_per_token
  <2>5. QED
    BY <2>3, <2>4
<1>2. QED
  BY CountsStart, CountsStep, <1>1, PTL DEF Spec

(* A layer is billed twice the channels its selections did not find in the   *)
(* cache: each missed row once, for up and for down (generate.py:372-391).   *)
THEOREM MissesOnly == Spec => []OnlyMissesTransferred
<1>1. CInv => OnlyMissesTransferred
  <2>1. SUFFICES ASSUME CInv, cached, NEW l \in Layers, pc = "select"
                 PROVE  miss_bytes[l] =
                          2 * MapThenSumSet(LAMBDA t : Cardinality(picked[l][t] \ hot[l]), DOMAIN picked[l])
    BY DEF OnlyMissesTransferred
  <2>2. ~ Drawn
    BY <2>1 DEF Drawn
  <2>3. 2 * Misses(l) = miss_bytes[l] + 0
    BY <2>1, <2>2 DEF CInv, MissesBilled
  <2>4. miss_bytes[l] \in Nat
    BY <2>1 DEF CInv, CTypes
  <2>5. Misses(l) = MapThenSumSet(LAMBDA t : Cardinality(picked[l][t] \ hot[l]), DOMAIN picked[l])
    <3> DEFINE D == DOMAIN picked[l]
               Direct(s, sum) == IF s = {} THEN 0
                                 ELSE Cardinality(picked[l][Pick(s)] \ hot[l]) + sum[s \ {Pick(s)}]
               Sums(sum) == sum = [s \in SUBSET D |-> Direct(s, sum)]
    <3>1. ASSUME NEW s \in SUBSET D, NEW sum PROVE Direct(s, sum) = SumStep(MissesOf(l), s, sum)
      <4>1. s # {} => Pick(s) \in D
        BY DEF Pick
      <4>2. QED
        BY <4>1 DEF SumStep, MissesOf
    <3>2. ASSUME NEW sum PROVE Sums(sum) <=> IsSum(MissesOf(l), D, sum)
      <4>1. [s \in SUBSET D |-> Direct(s, sum)] = [s \in SUBSET D |-> SumStep(MissesOf(l), s, sum)]
        BY <3>1
      <4>2. QED
        BY <4>1 DEF IsSum
    <3>3. (CHOOSE sum : Sums(sum)) = (CHOOSE sum : IsSum(MissesOf(l), D, sum))
      <4> HIDE DEF Sums
      <4>1. QED
        BY <3>2
    <3>4. MapThenSumSet(LAMBDA t : Cardinality(picked[l][t] \ hot[l]), D) = (CHOOSE sum : Sums(sum))[D]
      BY DEF MapThenSumSet, MapThenFoldSet, Pick
    <3> HIDE DEF Sums
    <3>5. QED
      BY <3>3, <3>4 DEF Misses, SumOver
  <2>7. QED
    BY <2>3, <2>4, <2>5
<1>2. QED
  BY CountsStart, CountsStep, <1>1, PTL DEF Spec

(* The two products of calibration agree once the stream has caught up: a    *)
(* channel's count is the number of its traces (generate.py:280-284,         *)
(* 589-591).                                                                 *)
THEOREM CountsAgree == Spec => []CountsMatchTrace
<1>1. CInv => CountsMatchTrace
  <2>1. SUFFICES ASSUME CInv, ~ cached, pc = "select", NEW l \in Layers, NEW c \in Channels
                 PROVE  channel_counts[l][c] =
                          Cardinality({t \in DOMAIN trace[l] : c \in ToSet(trace[l][t])})
    BY DEF CountsMatchTrace
  <2>2. channel_counts[l][c] = Cardinality(TracesOf(l, c)) + 0
    BY <2>1 DEF CInv, TracesCounted
  <2>3. Cardinality(TracesOf(l, c)) \in Nat
    <3>1. trace[l] \in Seq([1 .. dip_k -> Channels])
      BY <2>1 DEF CInv, CTypes
    <3>2. QED
      BY <3>1, TracesAreCounted DEF TracesOf
  <2>4. QED
    BY <2>2, <2>3 DEF TracesOf, Entries
<1>2. QED
  BY CountsStart, CountsStep, <1>1, PTL DEF Spec

=============================================================================
