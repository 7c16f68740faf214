------------------------- MODULE WeightPipelineProofs -------------------------
EXTENDS WeightPipeline, Integers, TLAPS

(***************************************************************************)
(* The inductive invariant.  Every log consists of triples: call i of      *)
(* next_gemv left wait, GEMV and record at 3i-2, 3i-1 and 3i of the        *)
(* compute log; transfer j into buffer b left wait, copy and record at     *)
(* 3j-2, 3j-1 and 3j of the log of stream b.                               *)
(***************************************************************************)
Log(s) == issued.log[s]
Copies(b) == issued.recorded[Copied(b)]
Reads(b) == issued.recorded[ReadDone(b)]

(* Transfer j into b writes w to m once version u of ReadDone(b) is done. *)
TransferIs(b, j, u, m, w) ==
  /\ Log(b)[3*j - 2] = Wait(ReadDone(b), u)
  /\ Log(b)[3*j - 1] = Copy(m, w)
  /\ Log(b)[3*j] = Record(Copied(b), j)

(* Call i reads weight w of block m of buffer b once transfer v is done, and *)
(* its end is version r of ReadDone(b).                                      *)
CallIs(i, b, v, r, m, w) ==
  /\ Log(Compute)[3*i - 2] = Wait(Copied(b), v)
  /\ Log(Compute)[3*i - 1] = Gemv(m, w)
  /\ Log(Compute)[3*i] = Record(ReadDone(b), r)

Lengths ==
  /\ Len(Log(Compute)) = 3 * Len(asked)
  /\ \A b \in Buffers : Len(Log(b)) = 3 * Copies(b)

Positions ==
  /\ \A s \in Streams : head[s] <= Len(Log(s)) + 1
  /\ 3 * Len(outputs) <= head[Compute] /\ head[Compute] <= 3 * Len(outputs) + 2
  /\ busy[Compute] => head[Compute] = 3 * Len(outputs) + 2
  /\ \A b \in Buffers :
       /\ 3 * done[Copied(b)] + 1 <= head[b] /\ head[b] <= 3 * done[Copied(b)] + 3
       /\ busy[b] => head[b] = 3 * done[Copied(b)] + 2
       /\ done[ReadDone(b)] <= Reads(b)

(* Whatever transfer j into b overwrites was read before: it waits for every *)
(* reader whose weight an earlier transfer brought.                          *)
TransfersOK ==
  \A b \in Buffers : \A j \in 1 .. Copies(b) :
    \E u \in 0 .. Reads(b), a \in Allocations, w \in Weights :
      /\ TransferIs(b, j, u, a[b], w)
      /\ head[b] > 3*j - 2 => done[ReadDone(b)] >= u

Guarded(b, v, r) ==
  \A j \in 1 .. Copies(b) : j > v => Log(b)[3*j - 2].ver >= r

CallsOK ==
  \A i \in 1 .. Len(asked) :
    \E b \in Buffers, a \in Allocations :
      \E v \in 1 .. Copies(b), r \in 1 .. Reads(b) :
        /\ CallIs(i, b, v, r, a[b], asked[i])
        /\ Log(b)[3*v - 1] = Copy(a[b], asked[i])
        /\ Guarded(b, v, r)
        /\ head[Compute] > 3*i - 2 => done[Copied(b)] >= v
        /\ head[Compute] > 3*i <=> done[ReadDone(b)] >= r

RecordsOrdered ==
  \A i, k \in 1 .. Len(asked) :
    i < k /\ Log(Compute)[3*i].event = Log(Compute)[3*k].event
    => Log(Compute)[3*i].ver < Log(Compute)[3*k].ver

NextPrimed ==
  /\ Copies(cur_buf) > 0
  /\ Log(cur_buf)[3 * Copies(cur_buf) - 1] = Copy(bufs[cur_buf], cur_name)

(* The copy stream b finished last is what its block holds. *)
LastCopyIs(b, j) ==
  \/ head[b] = 3*j \/ head[b] = 3*j + 1
  \/ head[b] = 3*j + 2 /\ ~ busy[b]

ContentOK ==
  \A b \in Buffers : \A j \in 1 .. Copies(b) :
    LastCopyIs(b, j) => mem[Log(b)[3*j - 1].mem] = Log(b)[3*j - 1].weight

OutputsOK == \A k \in 1 .. Len(outputs) : outputs[k] = asked[k]

IInv ==
  /\ TypeOK
  /\ Lengths
  /\ Positions
  /\ TransfersOK
  /\ CallsOK
  /\ RecordsOrdered
  /\ NextPrimed
  /\ ContentOK
  /\ OutputsOK

-----------------------------------------------------------------------------
(* Facts about the constants and the entries.                              *)

IssuedType == [log : [Streams -> Seq(Entries)], recorded : [Events -> Nat]]

(* The two buffers, the three streams and the four events.                   *)
LEMMA Shapes ==
  /\ NumBuffers = 2 /\ Compute = 2
  /\ Buffers = {0, 1} /\ Streams = {0, 1, 2}
  /\ \A b \in Buffers : Copied(b) \in Events /\ ReadDone(b) \in Events
  /\ \A b, c \in Buffers : Copied(b) # ReadDone(c)
  /\ \A b, c \in Buffers : Copied(b) = Copied(c) => b = c
  /\ \A b, c \in Buffers : ReadDone(b) = ReadDone(c) => b = c
  BY PipelineAssumption DEF Compute, Buffers, Streams, Copied, ReadDone, Events

(* What each kind of entry is made of.                                       *)
LEMMA EntryTypes ==
  /\ \A e \in Events, v \in Nat : Wait(e, v) \in Entries /\ Record(e, v) \in Entries
  /\ \A m \in Blocks, w \in Weights : Copy(m, w) \in Entries /\ Gemv(m, w) \in Entries
  BY DEF Entries, Wait, Record, Copy, Gemv

Three(q, x, y, z) == Append(Append(Append(q, x), y), z)

(* Three entries behind a log.                                               *)
LEMMA AppendThree ==
  ASSUME NEW S, NEW q \in Seq(S), NEW x \in S, NEW y \in S, NEW z \in S
  PROVE  /\ Three(q, x, y, z) \in Seq(S)
         /\ Len(Three(q, x, y, z)) = Len(q) + 3
         /\ Three(q, x, y, z)[Len(q) + 1] = x
         /\ Three(q, x, y, z)[Len(q) + 2] = y
         /\ Three(q, x, y, z)[Len(q) + 3] = z
         /\ \A p \in 1 .. Len(q) : Three(q, x, y, z)[p] = q[p]
<1>1. Append(q, x) \in Seq(S) /\ Append(Append(q, x), y) \in Seq(S)
  OBVIOUS
<1>2. QED  BY <1>1 DEF Three

(* t is q with x, y and z appended. *)
Extends3(t, q, x, y, z) == t = Three(q, x, y, z)

(* The same, of a log that grew by three.                                    *)
LEMMA Extends3Effect ==
  ASSUME NEW S, NEW q \in Seq(S), NEW x \in S, NEW y \in S, NEW z \in S,
         NEW t, Extends3(t, q, x, y, z)
  PROVE  /\ Len(t) = Len(q) + 3
         /\ t[Len(q) + 1] = x
         /\ t[Len(q) + 2] = y
         /\ t[Len(q) + 3] = z
         /\ \A p \in 1 .. Len(q) : t[p] = q[p]
<1>1. Append(q, x) \in Seq(S) /\ Append(Append(q, x), y) \in Seq(S)
  OBVIOUS
<1>2. t = Append(Append(Append(q, x), y), z)
  BY DEF Extends3, Three
<1>3. QED  BY <1>1, <1>2

(* prefetch and a call's three compute entries leave one triple each in the log of the buffer's stream. *)
LEMMA EnqueueEffect ==
  ASSUME NEW i \in IssuedType, NEW s \in Streams, NEW x
  PROVE  Enqueue(i, s, x) = [log |-> [i.log EXCEPT ![s] = Append(@, x)],
                             recorded |-> i.recorded]
<1>1. ASSUME NEW L, NEW R
      PROVE  Enqueue([log |-> L, recorded |-> R], s, x)
               = [log |-> [L EXCEPT ![s] = Append(@, x)], recorded |-> R]
  BY DEF Enqueue
<1>2. i = [log |-> i.log, recorded |-> i.recorded] /\ i.log \in [Streams -> Seq(Entries)]
  BY DEF IssuedType
<1>3. QED  BY <1>1, <1>2

(* What prefetch appends and records.                                        *)
LEMMA PrefetchEffect ==
  ASSUME NEW i \in IssuedType, NEW b \in Buffers, NEW m \in Blocks, NEW w \in Weights
  PROVE  prefetch(i, b, m, w) =
           [log      |-> [i.log EXCEPT ![b] =
                            Three(i.log[b], Wait(ReadDone(b), i.recorded[ReadDone(b)]),
                                  Copy(m, w), Record(Copied(b), i.recorded[Copied(b)] + 1))],
            recorded |-> [i.recorded EXCEPT ![Copied(b)] = @ + 1]]
<1>. DEFINE i1 == WaitEvent(i, b, ReadDone(b))
            i2 == Enqueue(i1, b, Copy(m, w))
<1>0. b \in Streams /\ Copied(b) \in Events /\ ReadDone(b) \in Events
  BY Shapes
<1>1. /\ i1 = [log |-> [i.log EXCEPT ![b] = Append(@, Wait(ReadDone(b), i.recorded[ReadDone(b)]))],
               recorded |-> i.recorded]
  BY <1>0, EnqueueEffect DEF WaitEvent
<1>2. i2 = [log |-> [i.log EXCEPT ![b] = Append(Append(@, Wait(ReadDone(b), i.recorded[ReadDone(b)])), Copy(m, w))],
            recorded |-> i.recorded]
  BY <1>0, <1>1 DEF Enqueue, IssuedType
<1>3. QED
  BY <1>0, <1>2 DEF prefetch, RecordEvent, IssuedType, Three

(* What wait, launch and mark_read_done append and record.                   *)
LEMMA CallEffect ==
  ASSUME NEW i \in IssuedType, NEW b \in Buffers, NEW m \in Blocks, NEW w \in Weights
  PROVE  WaitLaunchMark(i, b, m, w) =
           [log      |-> [i.log EXCEPT ![Compute] =
                            Three(i.log[Compute], Wait(Copied(b), i.recorded[Copied(b)]),
                                  Gemv(m, w), Record(ReadDone(b), i.recorded[ReadDone(b)] + 1))],
            recorded |-> [i.recorded EXCEPT ![ReadDone(b)] = @ + 1]]
<1>. DEFINE i1 == WaitEvent(i, Compute, Copied(b))
            i2 == Enqueue(i1, Compute, Gemv(m, w))
<1>0. Compute \in Streams /\ Copied(b) \in Events /\ ReadDone(b) \in Events
  BY Shapes
<1>1. /\ i1 = [log |-> [i.log EXCEPT ![Compute] = Append(@, Wait(Copied(b), i.recorded[Copied(b)]))],
               recorded |-> i.recorded]
  BY <1>0, EnqueueEffect DEF WaitEvent
<1>2. i2 = [log |-> [i.log EXCEPT ![Compute] = Append(Append(@, Wait(Copied(b), i.recorded[Copied(b)])), Gemv(m, w))],
            recorded |-> i.recorded]
  BY <1>0, <1>1 DEF Enqueue, IssuedType
<1>3. QED
  BY <1>0, <1>2 DEF WaitLaunchMark, Launch, wait, mark_read_done, RecordEvent, IssuedType, Three

-----------------------------------------------------------------------------
(* What the host's two actions do to the logs.                             *)

(* What NewPipeline appends and records.                                     *)
LEMMA NewPipelineEffect ==
  ASSUME TypeOK, NewPipeline
  PROVE  /\ issued' \in IssuedType
         /\ bufs' \in Allocations /\ bufs'[0] \in Blocks
         /\ Log(0)' = Three(Log(0), Wait(ReadDone(0), Reads(0)), Copy(bufs'[0], 0),
                            Record(Copied(0), Copies(0) + 1))
         /\ \A s \in Streams : s # 0 => Log(s)' = Log(s)
         /\ Copies(0)' = Copies(0) + 1
         /\ Copies(1)' = Copies(1)
         /\ \A b \in Buffers : Reads(b)' = Reads(b)
<1>1. /\ issued \in IssuedType /\ 0 \in Buffers /\ 0 \in Weights /\ 0 \in Streams
      /\ bufs' \in Allocations /\ bufs'[0] \in Blocks
  <2>1. issued \in IssuedType
    BY DEF TypeOK, StreamTypeOK, IssuedType
  <2>2. 0 \in Buffers /\ 0 \in Streams /\ 0 \in Weights
    BY Shapes, PipelineAssumption
  <2>3. bufs' \in Allocations
    BY DEF NewPipeline
  <2>4. QED
    BY <2>1, <2>2, <2>3, PipelineAssumption
<1>2. issued' = [log |-> [issued.log EXCEPT ![0] =
                   Three(issued.log[0], Wait(ReadDone(0), issued.recorded[ReadDone(0)]),
                         Copy(bufs'[0], 0), Record(Copied(0), issued.recorded[Copied(0)] + 1))],
                 recorded |-> [issued.recorded EXCEPT ![Copied(0)] = @ + 1]]
  BY <1>1, PrefetchEffect DEF NewPipeline, prefetch_into
<1>3. /\ Wait(ReadDone(0), issued.recorded[ReadDone(0)]) \in Entries
      /\ Copy(bufs'[0], 0) \in Entries
      /\ Record(Copied(0), issued.recorded[Copied(0)] + 1) \in Entries
      /\ issued.log \in [Streams -> Seq(Entries)]
      /\ issued.recorded \in [Events -> Nat]
  BY <1>1, EntryTypes, Shapes DEF IssuedType
<1>4. Three(issued.log[0], Wait(ReadDone(0), issued.recorded[ReadDone(0)]),
            Copy(bufs'[0], 0), Record(Copied(0), issued.recorded[Copied(0)] + 1)) \in Seq(Entries)
  BY <1>1, <1>3, AppendThree
<1>5. issued' \in IssuedType
  BY <1>2, <1>3, <1>4, Shapes, SMTT(30) DEF IssuedType
<1>6. \A b \in Buffers : b \in Streams
  BY Shapes
<1>7. QED
  BY <1>1, <1>2, <1>3, <1>5, <1>6, Shapes DEF Log, Copies, Reads

(* What NextGemv appends and records.                                        *)
LEMMA NextGemvEffect ==
  ASSUME TypeOK, next_gemv, NEW b, b = cur_buf, NEW n, n = 1 - cur_buf
  PROVE  /\ issued' \in IssuedType
         /\ b \in Buffers /\ n \in Buffers /\ n # b
         /\ \A c \in Buffers : c = b \/ c = n
         /\ bufs[b] \in Blocks /\ bufs[n] \in Blocks /\ NextName(cur_name) \in Weights
         /\ cur_buf' = n /\ cur_name' = NextName(cur_name)
         /\ Log(Compute)' = Three(Log(Compute), Wait(Copied(b), Copies(b)), Gemv(bufs[b], cur_name),
                                  Record(ReadDone(b), Reads(b) + 1))
         /\ Log(n)' = Three(Log(n), Wait(ReadDone(n), Reads(n)), Copy(bufs[n], NextName(cur_name)),
                            Record(Copied(n), Copies(n) + 1))
         /\ Log(b)' = Log(b)
         /\ Copies(n)' = Copies(n) + 1 /\ Copies(b)' = Copies(b)
         /\ Reads(b)' = Reads(b) + 1 /\ Reads(n)' = Reads(n)
<1>1. /\ issued \in IssuedType
      /\ b \in Buffers /\ n \in Buffers /\ n # b /\ \A c \in Buffers : c = b \/ c = n
      /\ b \in Streams /\ n \in Streams /\ Compute \in Streams /\ b # Compute /\ n # Compute
      /\ bufs[b] \in Blocks /\ bufs[n] \in Blocks
      /\ cur_name \in Weights /\ NextName(cur_name) \in Weights
  <2>1. issued \in IssuedType
    BY DEF TypeOK, StreamTypeOK, IssuedType
  <2>2. /\ b \in Buffers /\ n \in Buffers /\ n # b /\ \A c \in Buffers : c = b \/ c = n
        /\ b \in Streams /\ n \in Streams /\ Compute \in Streams /\ b # Compute /\ n # Compute
    BY Shapes DEF TypeOK
  <2>3. bufs[b] \in Blocks /\ bufs[n] \in Blocks
    BY <2>2, PipelineAssumption DEF TypeOK
  <2>4. cur_name \in Weights /\ NextName(cur_name) \in Weights
    BY PipelineAssumption DEF TypeOK, NextName
  <2>5. QED
    BY <2>1, <2>2, <2>3, <2>4
<1>2. /\ Copied(b) \in Events /\ Copied(n) \in Events /\ ReadDone(b) \in Events /\ ReadDone(n) \in Events
      /\ Copied(b) # ReadDone(b) /\ Copied(b) # ReadDone(n) /\ Copied(n) # ReadDone(b)
      /\ Copied(n) # ReadDone(n) /\ Copied(b) # Copied(n) /\ ReadDone(b) # ReadDone(n)
  BY <1>1, Shapes
<1>. DEFINE L1 == [issued.log EXCEPT ![Compute] =
                      Three(issued.log[Compute], Wait(Copied(b), issued.recorded[Copied(b)]),
                            Gemv(bufs[b], cur_name), Record(ReadDone(b), issued.recorded[ReadDone(b)] + 1))]
            R1 == [issued.recorded EXCEPT ![ReadDone(b)] = @ + 1]
            mid == WaitLaunchMark(issued, b, bufs[b], cur_name)
<1>3. mid = [log |-> L1, recorded |-> R1]
  BY <1>1, CallEffect
<1>4. /\ Wait(Copied(b), issued.recorded[Copied(b)]) \in Entries
      /\ Gemv(bufs[b], cur_name) \in Entries
      /\ Record(ReadDone(b), issued.recorded[ReadDone(b)] + 1) \in Entries
      /\ issued.log \in [Streams -> Seq(Entries)]
      /\ issued.recorded \in [Events -> Nat]
  BY <1>1, <1>2, EntryTypes DEF IssuedType
<1>5. Three(issued.log[Compute], Wait(Copied(b), issued.recorded[Copied(b)]),
            Gemv(bufs[b], cur_name), Record(ReadDone(b), issued.recorded[ReadDone(b)] + 1)) \in Seq(Entries)
  BY <1>1, <1>4, AppendThree
<1>6. mid \in IssuedType
  BY <1>1, <1>2, <1>3, <1>4, <1>5 DEF IssuedType
<1>7. issued' = prefetch(mid, n, bufs[n], NextName(cur_name))
  BY <1>1 DEF next_gemv, prefetch_into, OtherBuffer
<1>8. issued' = [log |-> [mid.log EXCEPT ![n] =
                   Three(mid.log[n], Wait(ReadDone(n), mid.recorded[ReadDone(n)]),
                         Copy(bufs[n], NextName(cur_name)), Record(Copied(n), mid.recorded[Copied(n)] + 1))],
                 recorded |-> [mid.recorded EXCEPT ![Copied(n)] = @ + 1]]
  <2>. HIDE DEF mid
  <2>1. mid \in IssuedType /\ n \in Buffers /\ bufs[n] \in Blocks /\ NextName(cur_name) \in Weights
    BY <1>1, <1>6
  <2>2. prefetch(mid, n, bufs[n], NextName(cur_name)) =
          [log |-> [mid.log EXCEPT ![n] =
                     Three(mid.log[n], Wait(ReadDone(n), mid.recorded[ReadDone(n)]),
                           Copy(bufs[n], NextName(cur_name)), Record(Copied(n), mid.recorded[Copied(n)] + 1))],
           recorded |-> [mid.recorded EXCEPT ![Copied(n)] = @ + 1]]
    BY <2>1, PrefetchEffect, ZenonT(40)
  <2>3. QED
    BY <1>7, <2>2, Zenon
<1>9. /\ mid.log = L1 /\ mid.recorded = R1
      /\ L1[n] = issued.log[n] /\ L1[b] = issued.log[b]
      /\ R1[ReadDone(n)] = issued.recorded[ReadDone(n)]
      /\ R1[Copied(n)] = issued.recorded[Copied(n)] /\ R1[Copied(b)] = issued.recorded[Copied(b)]
      /\ R1[ReadDone(b)] = issued.recorded[ReadDone(b)] + 1
      /\ L1 \in [Streams -> Seq(Entries)] /\ R1 \in [Events -> Nat]
      /\ L1[Compute] = Three(issued.log[Compute], Wait(Copied(b), issued.recorded[Copied(b)]),
                             Gemv(bufs[b], cur_name), Record(ReadDone(b), issued.recorded[ReadDone(b)] + 1))
  BY <1>1, <1>2, <1>3, <1>4, <1>5, SMTT(30)
<1>. HIDE DEF L1, R1, mid
<1>10. /\ issued'.log = [L1 EXCEPT ![n] =
                   Three(issued.log[n], Wait(ReadDone(n), issued.recorded[ReadDone(n)]),
                         Copy(bufs[n], NextName(cur_name)), Record(Copied(n), issued.recorded[Copied(n)] + 1))]
       /\ issued'.recorded = [R1 EXCEPT ![Copied(n)] = @ + 1]
       /\ issued' = [log |-> issued'.log, recorded |-> issued'.recorded]
  BY <1>8, <1>9
<1>11. /\ Wait(ReadDone(n), issued.recorded[ReadDone(n)]) \in Entries
       /\ Copy(bufs[n], NextName(cur_name)) \in Entries
       /\ Record(Copied(n), issued.recorded[Copied(n)] + 1) \in Entries
  BY <1>1, <1>2, <1>4, EntryTypes
<1>12. Three(issued.log[n], Wait(ReadDone(n), issued.recorded[ReadDone(n)]),
             Copy(bufs[n], NextName(cur_name)), Record(Copied(n), issued.recorded[Copied(n)] + 1)) \in Seq(Entries)
  <2>1. issued.log[n] \in Seq(Entries)
    BY <1>1, <1>4
  <2>. QED  BY <2>1, <1>11, AppendThree
<1>13. issued' \in IssuedType
  <2>1. issued'.log \in [Streams -> Seq(Entries)]
    BY <1>1, <1>9, <1>10, <1>12
  <2>2. issued'.recorded \in [Events -> Nat]
    BY <1>2, <1>9, <1>10
  <2>3. QED  BY <2>1, <2>2, <1>10 DEF IssuedType
<1>14. cur_buf' = n /\ cur_name' = NextName(cur_name)
  BY DEF next_gemv, OtherBuffer
<1>15. QED
  BY <1>1, <1>2, <1>9, <1>10, <1>13, <1>14 DEF Log, Copies, Reads

-----------------------------------------------------------------------------
(* Type correctness.                                                       *)

(* What a stream is at is an entry.                                          *)
LEMMA CurrentType ==
  ASSUME TypeOK, NEW s \in Streams, Pending(s)
  PROVE  Current(s) \in Entries
BY DEF TypeOK, StreamTypeOK, Pending, Current

(* The invariant holds at the start.                                          *)
LEMMA TypeInit == Init => TypeOK
<1> SUFFICES ASSUME Init PROVE TypeOK
  OBVIOUS
<1>1. NothingIssued \in IssuedType
  BY DEF NothingIssued, IssuedType
<1>2. /\ 0 \in Buffers /\ 0 \in Streams /\ 0 \in Weights /\ bufs[0] \in Blocks
      /\ Copied(0) \in Events /\ ReadDone(0) \in Events
  BY Shapes, PipelineAssumption DEF Init
<1>3. issued = [log |-> [NothingIssued.log EXCEPT ![0] =
                  Three(NothingIssued.log[0], Wait(ReadDone(0), NothingIssued.recorded[ReadDone(0)]),
                        Copy(bufs[0], 0), Record(Copied(0), NothingIssued.recorded[Copied(0)] + 1))],
                recorded |-> [NothingIssued.recorded EXCEPT ![Copied(0)] = @ + 1]]
  BY <1>1, <1>2, PrefetchEffect DEF Init, prefetch_into
<1>4. /\ NothingIssued.log \in [Streams -> Seq(Entries)]
      /\ NothingIssued.recorded \in [Events -> Nat]
      /\ NothingIssued.log[0] \in Seq(Entries)
  BY <1>1, <1>2 DEF IssuedType
<1>5. /\ Wait(ReadDone(0), NothingIssued.recorded[ReadDone(0)]) \in Entries
      /\ Copy(bufs[0], 0) \in Entries
      /\ Record(Copied(0), NothingIssued.recorded[Copied(0)] + 1) \in Entries
  BY <1>2, <1>4, EntryTypes
<1>6. Three(NothingIssued.log[0], Wait(ReadDone(0), NothingIssued.recorded[ReadDone(0)]),
            Copy(bufs[0], 0), Record(Copied(0), NothingIssued.recorded[Copied(0)] + 1)) \in Seq(Entries)
  BY <1>4, <1>5, AppendThree, ZenonT(40)
<1>7. issued \in IssuedType
  BY <1>2, <1>3, <1>4, <1>6 DEF IssuedType
<1>8. /\ head \in [Streams -> Nat \ {0}]
      /\ busy \in [Streams -> BOOLEAN]
      /\ done \in [Events -> Nat]
      /\ mem \in [Blocks -> Weights \cup {Torn, Empty}]
      /\ outputs \in Seq(Weights \cup {Torn, Empty})
  BY DEF Init, GpuInit
<1>9. QED
  BY <1>2, <1>7, <1>8 DEF Init, TypeOK, StreamTypeOK, IssuedType

(* Every step keeps the invariant.                                           *)
LEMMA TypeStep == TypeOK /\ [Next]_vars => TypeOK'
<1> SUFFICES ASSUME TypeOK, [Next]_vars PROVE TypeOK'
  OBVIOUS
<1>1. CASE NewPipeline
  <2>1. issued' \in IssuedType /\ bufs' \in Allocations
    BY <1>1, NewPipelineEffect
  <2>2. cur_buf' \in Buffers /\ cur_name' \in Weights
    BY <1>1, Shapes, PipelineAssumption DEF NewPipeline
  <2>3. QED
    BY <1>1, <2>1, <2>2 DEF NewPipeline, gpuVars, TypeOK, StreamTypeOK, IssuedType
<1>2. CASE next_gemv
  <2>1. issued' \in IssuedType /\ cur_buf' \in Buffers /\ cur_name' \in Weights
    BY <1>2, NextGemvEffect
  <2>2. asked' \in Seq(Weights) /\ calls' \in Nat
    BY <1>2 DEF next_gemv, TypeOK
  <2>3. QED
    BY <1>2, <2>1, <2>2 DEF next_gemv, gpuVars, TypeOK, StreamTypeOK, IssuedType
<1>3. ASSUME NEW s \in Streams, GpuStep(s) PROVE TypeOK'
  <2>1. UNCHANGED <<issued, hostVars>>
    BY <1>3 DEF GpuStep, StreamStep
  <2>2. SUFFICES /\ head' \in [Streams -> Nat \ {0}]
                 /\ busy' \in [Streams -> BOOLEAN]
                 /\ done' \in [Events -> Nat]
                 /\ mem' \in [Blocks -> Weights \cup {Torn, Empty}]
                 /\ outputs' \in Seq(Weights \cup {Torn, Empty})
    BY <2>1 DEF TypeOK, StreamTypeOK, hostVars
  <2>3. CASE PassWait(s)
    BY <2>3 DEF PassWait, Advance, TypeOK, StreamTypeOK
  <2>4. CASE ReachRecord(s)
    <3>1. Current(s) \in Entries /\ Current(s).op = "record"
      BY <2>4, CurrentType DEF ReachRecord
    <3>2. Current(s).event \in Events /\ Current(s).ver \in Nat
      BY <3>1 DEF Entries
    <3>3. QED
      BY <2>4, <3>2 DEF ReachRecord, Advance, TypeOK, StreamTypeOK
  <2>5. CASE StartCopy(s)
    BY <2>5 DEF StartCopy, TypeOK, StreamTypeOK
  <2>6. CASE FinishCopy(s)
    <3>1. Current(s) \in Entries /\ Current(s).op = "copy"
      BY <2>6, CurrentType DEF FinishCopy
    <3>2. Current(s).weight \in Weights
      BY <3>1 DEF Entries
    <3>3. mem' \in [Blocks -> Weights \cup {Torn, Empty}]
      BY <2>6, <3>2 DEF FinishCopy, TypeOK, StreamTypeOK
    <3>4. head' \in [Streams -> Nat \ {0}] /\ busy' \in [Streams -> BOOLEAN]
      BY <2>6 DEF FinishCopy, Advance, TypeOK, StreamTypeOK
    <3>5. QED
      BY <2>6, <3>3, <3>4 DEF FinishCopy, TypeOK, StreamTypeOK
  <2>7. CASE StartGemv(s)
    BY <2>7 DEF StartGemv, TypeOK, StreamTypeOK
  <2>8. CASE FinishGemv(s)
    <3>1. Current(s) \in Entries /\ Current(s).op = "gemv"
      BY <2>8, CurrentType DEF FinishGemv
    <3>2. Current(s).mem \in Blocks
      BY <3>1 DEF Entries
    <3>3. mem \in [Blocks -> Weights \cup {Torn, Empty}]
      BY DEF TypeOK, StreamTypeOK
    <3>4. mem[Current(s).mem] \in Weights \cup {Torn, Empty}
      BY <3>2, <3>3
    <3>5. QED
      BY <2>8, <3>4 DEF FinishGemv, Advance, TypeOK, StreamTypeOK
  <2>9. QED
    BY <1>3, <2>3, <2>4, <2>5, <2>6, <2>7, <2>8 DEF GpuStep, StreamStep
<1>4. CASE UNCHANGED vars
  BY <1>4 DEF vars, gpuVars, hostVars, TypeOK, StreamTypeOK
<1>5. QED
  BY <1>1, <1>2, <1>3, <1>4 DEF Next

(* Every entry the streams execute, every event version and every block       *)
(* content stays in its type, for any number of weights, blocks and calls.    *)
THEOREM TypeCorrect == Spec => []TypeOK
<1>1. QED  BY TypeInit, TypeStep, PTL DEF Spec

-----------------------------------------------------------------------------
(* Where a stream stands.                                                  *)

(* What TypeOK says of the numbers in a state.                               *)
LEMMA Types ==
  ASSUME TypeOK
  PROVE  /\ \A s \in Streams : head[s] \in Nat /\ head[s] > 0 /\ busy[s] \in BOOLEAN
                               /\ Log(s) \in Seq(Entries) /\ Len(Log(s)) \in Nat
         /\ \A b \in Buffers : /\ Copies(b) \in Nat /\ Reads(b) \in Nat
                               /\ done[Copied(b)] \in Nat /\ done[ReadDone(b)] \in Nat
         /\ Len(asked) \in Nat /\ Len(outputs) \in Nat
         /\ \A b \in Buffers : b \in Streams /\ b # Compute
         /\ Compute \in Streams
         /\ \A s \in Streams : s \in Buffers \/ s = Compute
<1>1. /\ issued.log \in [Streams -> Seq(Entries)]
      /\ issued.recorded \in [Events -> Nat]
      /\ head \in [Streams -> Nat \ {0}]
      /\ busy \in [Streams -> BOOLEAN]
      /\ done \in [Events -> Nat]
      /\ outputs \in Seq(Weights \cup {Torn, Empty})
      /\ asked \in Seq(Weights)
  BY DEF TypeOK, StreamTypeOK
<1>2. /\ \A b \in Buffers : b \in Streams /\ b # Compute
      /\ Compute \in Streams
      /\ \A s \in Streams : s \in Buffers \/ s = Compute
  BY Shapes
<1>3. \A s \in Streams : Log(s) \in Seq(Entries) /\ Len(Log(s)) \in Nat
  BY <1>1 DEF Log
<1>4. \A s \in Streams : head[s] \in Nat /\ head[s] > 0 /\ busy[s] \in BOOLEAN
  BY <1>1
<1>5. \A b \in Buffers : /\ Copies(b) \in Nat /\ Reads(b) \in Nat
                         /\ done[Copied(b)] \in Nat /\ done[ReadDone(b)] \in Nat
  BY <1>1, Shapes DEF Copies, Reads
<1>6. QED
  BY <1>1, <1>2, <1>3, <1>4, <1>5

(* The transfer at the head of a copy stream. *)
AtTransfer(b, j, u, m, w) ==
  /\ j = done[Copied(b)] + 1
  /\ TransferIs(b, j, u, m, w)
  /\ head[b] > 3*j - 2 => done[ReadDone(b)] >= u
  /\ \/ head[b] = 3*j - 2 /\ Current(b) = Wait(ReadDone(b), u)
     \/ head[b] = 3*j - 1 /\ Current(b) = Copy(m, w)
     \/ head[b] = 3*j /\ Current(b) = Record(Copied(b), j)

(* A copy stream with work left is at a place in a transfer.                 *)
LEMMA PendingTransfer ==
  ASSUME TypeOK, Lengths, Positions, TransfersOK, NEW b \in Buffers, Pending(b)
  PROVE  \E j \in 1 .. Copies(b), u \in 0 .. Reads(b), a \in Allocations, w \in Weights :
           AtTransfer(b, j, u, a[b], w)
<1>. DEFINE j == done[Copied(b)] + 1
<1>1. /\ head[b] \in Nat /\ done[Copied(b)] \in Nat /\ Copies(b) \in Nat
      /\ head[b] <= 3 * Copies(b) /\ 3*j - 2 <= head[b] /\ head[b] <= 3*j
  BY Types, SMTT(30) DEF Lengths, Positions, Pending, Log
<1>2. j \in 1 .. Copies(b)
  BY <1>1
<1>3. PICK u \in 0 .. Reads(b), a \in Allocations, w \in Weights :
        /\ TransferIs(b, j, u, a[b], w)
        /\ head[b] > 3*j - 2 => done[ReadDone(b)] >= u
  BY <1>2 DEF TransfersOK
<1>4. head[b] = 3*j - 2 \/ head[b] = 3*j - 1 \/ head[b] = 3*j
  BY <1>1
<1>5. AtTransfer(b, j, u, a[b], w)
  BY <1>3, <1>4 DEF AtTransfer, TransferIs, Current, Log
<1>6. QED
  BY <1>2, <1>5

(* The call at the head of the compute stream. *)
AtCall(i, b, v, r, m) ==
  /\ CallIs(i, b, v, r, m, asked[i])
  /\ Log(b)[3*v - 1] = Copy(m, asked[i])
  /\ Guarded(b, v, r)
  /\ head[Compute] > 3*i - 2 => done[Copied(b)] >= v
  /\ done[ReadDone(b)] < r
  /\ \/ /\ head[Compute] = 3*i - 2 /\ i = Len(outputs) + 1
        /\ Current(Compute) = Wait(Copied(b), v)
     \/ /\ head[Compute] = 3*i - 1 /\ i = Len(outputs) + 1
        /\ Current(Compute) = Gemv(m, asked[i])
     \/ /\ head[Compute] = 3*i /\ i = Len(outputs)
        /\ Current(Compute) = Record(ReadDone(b), r)

(* The compute stream with work left is at a place in a call.                *)
LEMMA PendingCall ==
  ASSUME TypeOK, Lengths, Positions, CallsOK, Pending(Compute)
  PROVE  \E i \in 1 .. Len(asked), b \in Buffers, a \in Allocations :
           \E v \in 1 .. Copies(b), r \in 1 .. Reads(b) : AtCall(i, b, v, r, a[b])
<1>. DEFINE k == Len(outputs)
            i == IF head[Compute] = 3*k THEN k ELSE k + 1
<1>1. /\ head[Compute] \in Nat /\ head[Compute] > 0 /\ k \in Nat /\ Len(asked) \in Nat
      /\ head[Compute] <= 3 * Len(asked) /\ 3*k <= head[Compute] /\ head[Compute] <= 3*k + 2
  BY Types DEF Lengths, Positions, Pending, Log
<1>2. i \in 1 .. Len(asked)
  BY <1>1
<1>3. \/ head[Compute] = 3*i - 2 /\ i = k + 1
      \/ head[Compute] = 3*i - 1 /\ i = k + 1
      \/ head[Compute] = 3*i /\ i = k
  BY <1>1
<1>. HIDE DEF i
<1>4. PICK b \in Buffers, a \in Allocations :
        \E v \in 1 .. Copies(b), r \in 1 .. Reads(b) :
          /\ CallIs(i, b, v, r, a[b], asked[i])
          /\ Log(b)[3*v - 1] = Copy(a[b], asked[i])
          /\ Guarded(b, v, r)
          /\ head[Compute] > 3*i - 2 => done[Copied(b)] >= v
          /\ head[Compute] > 3*i <=> done[ReadDone(b)] >= r
  BY <1>2 DEF CallsOK
<1>5. PICK v \in 1 .. Copies(b), r \in 1 .. Reads(b) :
          /\ CallIs(i, b, v, r, a[b], asked[i])
          /\ Log(b)[3*v - 1] = Copy(a[b], asked[i])
          /\ Guarded(b, v, r)
          /\ head[Compute] > 3*i - 2 => done[Copied(b)] >= v
          /\ head[Compute] > 3*i <=> done[ReadDone(b)] >= r
  BY <1>4
<1>6. done[ReadDone(b)] < r
  <2>1. ~ (head[Compute] > 3*i) /\ i \in Nat
    BY <1>1, <1>2, <1>3
  <2>2. done[ReadDone(b)] \in Nat /\ Reads(b) \in Nat
    BY Types
  <2>3. QED
    BY <1>5, <2>1, <2>2
<1>7. AtCall(i, b, v, r, a[b])
  BY <1>3, <1>5, <1>6 DEF AtCall, CallIs, Current, Log
<1>8. QED
  BY <1>2, <1>5, <1>7

(* What is under way: only copies on the copy streams, only a GEMV on the     *)
(* compute stream.                                                            *)
LEMMA BusyTransfer ==
  ASSUME TypeOK, Lengths, Positions, TransfersOK, NEW b \in Buffers, busy[b]
  PROVE  \E j \in 1 .. Copies(b), u \in 0 .. Reads(b), a \in Allocations, w \in Weights :
           /\ AtTransfer(b, j, u, a[b], w)
           /\ head[b] = 3*j - 1
           /\ Current(b) = Copy(a[b], w)
<1>1. /\ head[b] \in Nat /\ done[Copied(b)] \in Nat /\ Copies(b) \in Nat
      /\ head[b] <= 3 * Copies(b) + 1 /\ head[b] = 3 * done[Copied(b)] + 2
      /\ Len(Log(b)) = 3 * Copies(b)
  BY Types DEF Lengths, Positions
<1>2. Pending(b)
  BY <1>1 DEF Pending, Log
<1>3. PICK j \in 1 .. Copies(b), u \in 0 .. Reads(b), a \in Allocations, w \in Weights :
           AtTransfer(b, j, u, a[b], w)
  BY <1>2, PendingTransfer
<1>4. head[b] = 3*j - 1 /\ Current(b) = Copy(a[b], w)
  BY <1>1, <1>3, SMTT(30) DEF AtTransfer
<1>5. QED
  BY <1>3, <1>4

(* If it is busy, it runs the GEMV of that call.                             *)
LEMMA BusyCall ==
  ASSUME TypeOK, Lengths, Positions, CallsOK, busy[Compute]
  PROVE  \E i \in 1 .. Len(asked), b \in Buffers, a \in Allocations :
           \E v \in 1 .. Copies(b), r \in 1 .. Reads(b) :
             /\ AtCall(i, b, v, r, a[b])
             /\ head[Compute] = 3*i - 1
             /\ i = Len(outputs) + 1
             /\ Current(Compute) = Gemv(a[b], asked[i])
<1>1. /\ head[Compute] \in Nat /\ Len(outputs) \in Nat /\ Len(asked) \in Nat
      /\ head[Compute] <= 3 * Len(asked) + 1 /\ head[Compute] = 3 * Len(outputs) + 2
      /\ Len(Log(Compute)) = 3 * Len(asked)
  BY Types DEF Lengths, Positions
<1>2. Pending(Compute)
  BY <1>1 DEF Pending, Log
<1>3. PICK i \in 1 .. Len(asked), b \in Buffers, a \in Allocations :
           \E v \in 1 .. Copies(b), r \in 1 .. Reads(b) : AtCall(i, b, v, r, a[b])
  BY <1>2, PendingCall
<1>4. PICK v \in 1 .. Copies(b), r \in 1 .. Reads(b) : AtCall(i, b, v, r, a[b])
  BY <1>3
<1>5. /\ head[Compute] = 3*i - 1 /\ i = Len(outputs) + 1
      /\ Current(Compute) = Gemv(a[b], asked[i])
  BY <1>1, <1>4 DEF AtCall
<1>6. QED
  BY <1>4, <1>5

-----------------------------------------------------------------------------
(* The invariant implies the properties.                                   *)

(* While a call's GEMV runs on buffer b, no later transfer into b has passed *)
(* its wait: the handshake of the two events of b.                           *)
LEMMA Handshake ==
  ASSUME TypeOK, TransfersOK,
         NEW i \in Nat, NEW b \in Buffers, NEW v \in Nat, NEW r \in Nat, NEW m,
         AtCall(i, b, v, r, m), NEW j \in 1 .. Copies(b), j > v
  PROVE  head[b] <= 3*j - 2
<1>1. /\ done[ReadDone(b)] \in Nat /\ head[b] \in Nat
      /\ Copies(b) \in Nat /\ Reads(b) \in Nat
  BY Types
<1>2. done[ReadDone(b)] < r /\ Log(b)[3*j - 2].ver >= r
  BY DEF AtCall, Guarded
<1>3. PICK u \in 0 .. Reads(b), a \in Allocations, w \in Weights :
        /\ TransferIs(b, j, u, a[b], w)
        /\ head[b] > 3*j - 2 => done[ReadDone(b)] >= u
  BY DEF TransfersOK
<1>4. Log(b)[3*j - 2].ver = u
  BY <1>3 DEF TransferIs, Wait
<1>5. ~ (head[b] > 3*j - 2)
  BY <1>1, <1>2, <1>3, <1>4
<1>6. QED
  BY <1>1, <1>5

(* A stream that copies is in the middle of a transfer.                      *)
LEMMA CopyingIsTransfer ==
  ASSUME IInv, NEW m \in Blocks, NEW s \in Copying(m)
  PROVE  /\ s \in Buffers
         /\ \E j \in 1 .. Copies(s), u \in 0 .. Reads(s), a \in Allocations, w \in Weights :
              AtTransfer(s, j, u, a[s], w) /\ head[s] = 3*j - 1 /\ m = a[s]
<1>1. s \in Streams /\ busy[s] /\ Current(s).op = "copy" /\ Current(s).mem = m
  BY DEF Copying
<1>2. s # Compute
  <2>1. SUFFICES ASSUME s = Compute PROVE FALSE
    OBVIOUS
  <2>2. Current(Compute).op = "gemv"
    BY <1>1, <2>1, BusyCall DEF IInv, Gemv
  <2>3. QED
    BY <1>1, <2>1, <2>2
<1>3. s \in Buffers
  BY <1>1, <1>2, Types DEF IInv
<1>4. PICK j \in 1 .. Copies(s), u \in 0 .. Reads(s), a \in Allocations, w \in Weights :
         AtTransfer(s, j, u, a[s], w) /\ head[s] = 3*j - 1 /\ Current(s) = Copy(a[s], w)
  BY <1>1, <1>3, BusyTransfer DEF IInv
<1>5. m = a[s]
  BY <1>1, <1>4 DEF Copy
<1>6. QED
  BY <1>3, <1>4, <1>5

(* A stream that reads is in the middle of a call.                           *)
LEMMA ReadingIsCall ==
  ASSUME IInv, NEW m \in Blocks, NEW s \in Reading(m)
  PROVE  /\ s = Compute
         /\ \E i \in 1 .. Len(asked), b \in Buffers, a \in Allocations :
              \E v \in 1 .. Copies(b), r \in 1 .. Reads(b) :
                AtCall(i, b, v, r, a[b]) /\ head[Compute] = 3*i - 1 /\ m = a[b]
<1>1. s \in Streams /\ busy[s] /\ Current(s).op = "gemv" /\ Current(s).mem = m
  BY DEF Reading
<1>2. s \notin Buffers
  <2>1. SUFFICES ASSUME s \in Buffers PROVE FALSE
    OBVIOUS
  <2>2. Current(s).op = "copy"
    BY <1>1, <2>1, BusyTransfer DEF IInv, Copy
  <2>3. QED
    BY <1>1, <2>2
<1>3. s = Compute
  BY <1>1, <1>2, Types DEF IInv
<1>4. PICK i \in 1 .. Len(asked), b \in Buffers, a \in Allocations :
           \E v \in 1 .. Copies(b), r \in 1 .. Reads(b) :
             /\ AtCall(i, b, v, r, a[b])
             /\ head[Compute] = 3*i - 1
             /\ i = Len(outputs) + 1
             /\ Current(Compute) = Gemv(a[b], asked[i])
  BY <1>1, <1>3, BusyCall DEF IInv
<1>5. m = a[b]
  BY <1>1, <1>3, <1>4 DEF Gemv
<1>6. QED
  BY <1>3, <1>4, <1>5

(* With stable allocations the invariant rules out conflicts.                *)
LEMMA ConflictFree == StableAllocations /\ IInv => NoTransferConflict
<1> SUFFICES ASSUME StableAllocations, IInv PROVE NoTransferConflict
  OBVIOUS
<1>1. ASSUME NEW m \in Blocks, NEW s \in Copying(m), NEW t \in Reading(m) PROVE FALSE
  <2>1. PICK j \in 1 .. Copies(s), u \in 0 .. Reads(s), a \in Allocations, w \in Weights :
          AtTransfer(s, j, u, a[s], w) /\ head[s] = 3*j - 1 /\ m = a[s]
    BY <1>1, CopyingIsTransfer
  <2>2. PICK i \in 1 .. Len(asked), b \in Buffers, a2 \in Allocations :
              \E v \in 1 .. Copies(b), r \in 1 .. Reads(b) :
                AtCall(i, b, v, r, a2[b]) /\ head[Compute] = 3*i - 1 /\ m = a2[b]
    BY <1>1, ReadingIsCall
  <2>3. PICK v \in 1 .. Copies(b), r \in 1 .. Reads(b) :
                AtCall(i, b, v, r, a2[b]) /\ head[Compute] = 3*i - 1 /\ m = a2[b]
    BY <2>2
  <2>4. s \in Buffers /\ s = b
    BY <1>1, <2>1, <2>3, CopyingIsTransfer DEF StableAllocations
  <2>5. /\ Copies(b) \in Nat /\ Reads(b) \in Nat /\ Len(asked) \in Nat
        /\ TypeOK
    BY Types DEF IInv
  <2>6. v \in Nat /\ r \in Nat /\ i \in Nat /\ u \in Nat /\ j \in 1 .. Copies(b)
    BY <2>1, <2>4, <2>5
  <2>7. j > v
    <3>1. /\ j = done[Copied(b)] + 1 /\ done[Copied(b)] >= v /\ done[Copied(b)] \in Nat
      BY <2>1, <2>3, <2>4, <2>5, <2>6, Types DEF AtTransfer, AtCall
    <3>2. QED
      BY <3>1, <2>6
  <2>8. head[b] <= 3*j - 2
    BY <2>3, <2>5, <2>6, <2>7, Handshake DEF IInv
  <2>9. QED
    BY <2>1, <2>4, <2>6, <2>8
<1>2. ASSUME NEW m \in Blocks, NEW s \in Copying(m), NEW t \in Copying(m) PROVE s = t
  <2>1. PICK a \in Allocations : m = a[s]
    BY <1>2, CopyingIsTransfer
  <2>2. PICK a2 \in Allocations : m = a2[t]
    BY <1>2, CopyingIsTransfer
  <2>3. s \in Buffers /\ t \in Buffers
    BY <1>2, CopyingIsTransfer
  <2>4. QED
    BY <2>1, <2>2, <2>3 DEF StableAllocations
<1>3. QED
  BY <1>1, <1>2 DEF NoTransferConflict, NoTransferDuringRead

(* The block a GEMV reads holds the whole of the transfer it waited for.     *)
LEMMA ReadsIts == IInv => GemvReadsItsWeight
<1> SUFFICES ASSUME IInv, busy[Compute]
             PROVE  mem[Current(Compute).mem] = Current(Compute).weight
  BY DEF GemvReadsItsWeight
<1>1. PICK i \in 1 .. Len(asked), b \in Buffers, a \in Allocations :
           \E v \in 1 .. Copies(b), r \in 1 .. Reads(b) :
             /\ AtCall(i, b, v, r, a[b])
             /\ head[Compute] = 3*i - 1
             /\ i = Len(outputs) + 1
             /\ Current(Compute) = Gemv(a[b], asked[i])
  BY BusyCall DEF IInv
<1>2. PICK v \in 1 .. Copies(b), r \in 1 .. Reads(b) :
             /\ AtCall(i, b, v, r, a[b])
             /\ head[Compute] = 3*i - 1
             /\ Current(Compute) = Gemv(a[b], asked[i])
  BY <1>1
<1>3. /\ TypeOK /\ Copies(b) \in Nat /\ Reads(b) \in Nat /\ Len(asked) \in Nat
      /\ head[b] \in Nat /\ done[Copied(b)] \in Nat
      /\ b \in Streams /\ Len(Log(b)) = 3 * Copies(b)
      /\ 3 * done[Copied(b)] + 1 <= head[b] /\ head[b] <= 3 * Copies(b) + 1
      /\ busy[b] => head[b] = 3 * done[Copied(b)] + 2
      /\ busy[b] \in BOOLEAN
  BY Types DEF IInv, Lengths, Positions
<1>4. done[Copied(b)] >= v
  BY <1>2, <1>3 DEF AtCall
<1>5. v < Copies(b) => head[b] <= 3*v + 1
  <2>1. SUFFICES ASSUME v < Copies(b) PROVE head[b] <= 3*v + 1
    OBVIOUS
  <2>2. /\ v + 1 \in 1 .. Copies(b) /\ v + 1 > v
        /\ v \in Nat /\ r \in Nat /\ i \in Nat
    BY <1>3, <2>1
  <2>3. head[b] <= 3*(v + 1) - 2
    BY <1>2, <1>3, <2>2, Handshake DEF IInv
  <2>4. QED
    BY <1>3, <2>2, <2>3, SMTT(30)
<1>6. LastCopyIs(b, v)
  <2>1. v \in Nat /\ (v < Copies(b) \/ v = Copies(b))
    BY <1>3
  <2>2. head[b] <= 3*v + 1
    BY <1>3, <1>5, <2>1
  <2>3. head[b] >= 3*v + 1
    BY <1>3, <1>4, <2>1, SMTT(30)
  <2>4. QED
    BY <1>3, <2>1, <2>2, <2>3, SMTT(30) DEF LastCopyIs
<1>7. mem[Log(b)[3*v - 1].mem] = Log(b)[3*v - 1].weight
  BY <1>6 DEF IInv, ContentOK
<1>8. QED
  BY <1>2, <1>7 DEF AtCall, Copy, Gemv

-----------------------------------------------------------------------------
(* The steps of a copy stream.                                             *)

(* A step of the device changes nothing that was issued.                     *)
LEMMA Unissued ==
  ASSUME UNCHANGED <<issued, hostVars>>
  PROVE  /\ \A s \in Streams : Log(s)' = Log(s)
         /\ \A b \in Buffers : Copies(b)' = Copies(b) /\ Reads(b)' = Reads(b)
         /\ asked' = asked /\ bufs' = bufs /\ cur_buf' = cur_buf /\ cur_name' = cur_name
BY DEF Log, Copies, Reads, hostVars

WaitPassed(s, j, u) ==
  /\ head[s] = 3*j - 2 /\ head' = [head EXCEPT ![s] = 3*j - 1]
  /\ done[ReadDone(s)] >= u
  /\ busy' = busy /\ done' = done /\ mem' = mem

CopyStarted(s, j, m) ==
  /\ head[s] = 3*j - 1 /\ ~ busy[s]
  /\ busy' = [busy EXCEPT ![s] = TRUE] /\ mem' = [mem EXCEPT ![m] = Torn]
  /\ head' = head /\ done' = done

CopyFinished(s, j, m, w) ==
  /\ head[s] = 3*j - 1 /\ busy[s] /\ head' = [head EXCEPT ![s] = 3*j]
  /\ busy' = [busy EXCEPT ![s] = FALSE] /\ mem' = [mem EXCEPT ![m] = w]
  /\ done' = done

TransferRecorded(s, j) ==
  /\ head[s] = 3*j /\ ~ busy[s] /\ head' = [head EXCEPT ![s] = 3*j + 1]
  /\ done' = [done EXCEPT ![Copied(s)] = j]
  /\ busy' = busy /\ mem' = mem

(* What a step of a copy stream does.                                        *)
LEMMA TransferEffect ==
  ASSUME IInv, NEW s \in Buffers, GpuStep(s)
  PROVE  /\ UNCHANGED <<issued, hostVars, outputs>>
         /\ \E j \in 1 .. Copies(s), u \in 0 .. Reads(s), a \in Allocations, w \in Weights :
              /\ AtTransfer(s, j, u, a[s], w)
              /\ \/ WaitPassed(s, j, u)
                 \/ CopyStarted(s, j, a[s])
                 \/ CopyFinished(s, j, a[s], w)
                 \/ TransferRecorded(s, j)
<1>1. Pending(s) /\ UNCHANGED <<issued, hostVars>>
  BY DEF GpuStep, StreamStep, PassWait, ReachRecord, StartCopy, FinishCopy, StartGemv, FinishGemv
<1>2. PICK j \in 1 .. Copies(s), u \in 0 .. Reads(s), a \in Allocations, w \in Weights :
           AtTransfer(s, j, u, a[s], w)
  BY <1>1, PendingTransfer DEF IInv
<1>3. /\ head[s] \in Nat /\ done[Copied(s)] \in Nat /\ j \in Nat /\ TypeOK
      /\ busy[s] => head[s] = 3 * done[Copied(s)] + 2
      /\ j = done[Copied(s)] + 1
      /\ head[s] > 3*j - 2 => done[ReadDone(s)] >= u
  <2>1. TypeOK /\ Positions
    BY DEF IInv
  <2>2. head[s] \in Nat /\ done[Copied(s)] \in Nat
    BY <2>1, Types
  <2>3. j = done[Copied(s)] + 1 /\ (head[s] > 3*j - 2 => done[ReadDone(s)] >= u)
    BY <1>2 DEF AtTransfer
  <2>4. busy[s] => head[s] = 3 * done[Copied(s)] + 2
    BY <2>1 DEF Positions
  <2>5. QED
    BY <2>1, <2>2, <2>3, <2>4
<1>4. CASE head[s] = 3*j - 2 /\ Current(s) = Wait(ReadDone(s), u)
  <2>1. PassWait(s)
    BY <1>4 DEF GpuStep, StreamStep, PassWait, ReachRecord, StartCopy, FinishCopy,
                StartGemv, FinishGemv, Wait
  <2>2. WaitPassed(s, j, u) /\ outputs' = outputs
    <3>1. Current(s).event = ReadDone(s) /\ Current(s).ver = u
      BY <1>4 DEF Wait
    <3>2. head[s] + 1 = 3*j - 1
      BY <1>3, <1>4
    <3>3. QED
      BY <1>4, <2>1, <3>1, <3>2 DEF PassWait, WaitPassed, Advance
  <2>3. QED
    BY <1>1, <1>2, <2>2
<1>5. CASE head[s] = 3*j - 1 /\ Current(s) = Copy(a[s], w)
  <2>1. StartCopy(s) \/ FinishCopy(s)
    BY <1>5 DEF GpuStep, StreamStep, PassWait, ReachRecord, StartCopy, FinishCopy,
                StartGemv, FinishGemv, Copy
  <2>2. StartCopy(s) => CopyStarted(s, j, a[s]) /\ outputs' = outputs
    BY <1>3, <1>5 DEF StartCopy, CopyStarted, Copy
  <2>3. FinishCopy(s) => CopyFinished(s, j, a[s], w) /\ outputs' = outputs
    <3>1. Current(s).mem = a[s] /\ Current(s).weight = w
      BY <1>5 DEF Copy
    <3>2. head[s] + 1 = 3*j
      BY <1>3, <1>5
    <3>3. QED
      BY <1>5, <3>1, <3>2 DEF FinishCopy, CopyFinished, Advance
  <2>4. QED
    BY <1>1, <1>2, <2>1, <2>2, <2>3
<1>6. CASE head[s] = 3*j /\ Current(s) = Record(Copied(s), j)
  <2>1. ReachRecord(s)
    BY <1>6 DEF GpuStep, StreamStep, PassWait, ReachRecord, StartCopy, FinishCopy,
                StartGemv, FinishGemv, Record
  <2>2. TransferRecorded(s, j) /\ outputs' = outputs
    BY <1>3, <1>6, <2>1 DEF ReachRecord, TransferRecorded, Advance, Record
  <2>3. QED
    BY <1>1, <1>2, <2>2
<1>7. QED
  BY <1>2, <1>4, <1>5, <1>6 DEF AtTransfer

(* The action Transfer keeps the invariant.                                  *)
LEMMA TransferKeeps ==
  ASSUME StableAllocations, IInv, NEW s \in Buffers, GpuStep(s)
  PROVE  IInv'
<1>1. /\ \A t \in Streams : Log(t)' = Log(t)
      /\ \A b \in Buffers : Copies(b)' = Copies(b) /\ Reads(b)' = Reads(b)
      /\ asked' = asked /\ bufs' = bufs /\ cur_buf' = cur_buf /\ cur_name' = cur_name
      /\ outputs' = outputs
  BY TransferEffect, Unissued
<1>2. PICK j \in 1 .. Copies(s), u \in 0 .. Reads(s), a \in Allocations, w \in Weights :
              /\ AtTransfer(s, j, u, a[s], w)
              /\ \/ WaitPassed(s, j, u)
                 \/ CopyStarted(s, j, a[s])
                 \/ CopyFinished(s, j, a[s], w)
                 \/ TransferRecorded(s, j)
  BY TransferEffect
<1>3. /\ \A t \in Streams : head[t] \in Nat /\ busy[t] \in BOOLEAN /\ Len(Log(t)) \in Nat
      /\ \A b \in Buffers : /\ Copies(b) \in Nat /\ Reads(b) \in Nat
                            /\ done[Copied(b)] \in Nat /\ done[ReadDone(b)] \in Nat
                            /\ b \in Streams /\ b # Compute
      /\ Len(asked) \in Nat /\ Len(outputs) \in Nat /\ Compute \in Streams
      /\ \A t \in Streams : t \in Buffers \/ t = Compute
      /\ j \in Nat /\ j >= 1 /\ j <= Copies(s) /\ u \in Nat
      /\ a \in [Buffers -> Blocks] /\ a[s] \in Blocks
  BY Types, PipelineAssumption DEF IInv
<1>4. /\ TypeOK /\ Lengths /\ Positions /\ TransfersOK /\ CallsOK /\ RecordsOrdered
      /\ NextPrimed /\ ContentOK /\ OutputsOK
  BY DEF IInv
<1>5. /\ \A t \in Streams : t # s => head'[t] = head[t] /\ busy'[t] = busy[t]
      /\ \A b \in Buffers : /\ done'[ReadDone(b)] = done[ReadDone(b)]
                            /\ b # s => done'[Copied(b)] = done[Copied(b)]
                            /\ done'[Copied(b)] >= done[Copied(b)]
      /\ j = done[Copied(s)] + 1
  <2>1. /\ head \in [Streams -> Nat \ {0}] /\ busy \in [Streams -> BOOLEAN] /\ done \in [Events -> Nat]
    BY <1>4 DEF TypeOK, StreamTypeOK
  <2>2. j = done[Copied(s)] + 1
    BY <1>2 DEF AtTransfer
  <2>3. CASE TransferRecorded(s, j)
    <3>1. /\ Copied(s) \in Events
          /\ \A b \in Buffers : /\ ReadDone(b) # Copied(s) /\ ReadDone(b) \in Events
                                /\ Copied(b) \in Events
                                /\ b # s => Copied(b) # Copied(s)
      BY Shapes
    <3>2. /\ \A e \in Events : e # Copied(s) => done'[e] = done[e]
          /\ done'[Copied(s)] = done[Copied(s)] + 1
      BY <2>1, <2>2, <2>3, <3>1 DEF TransferRecorded
    <3>3. \A t \in Streams : t # s => head'[t] = head[t] /\ busy'[t] = busy[t]
      BY <2>1, <2>3 DEF TransferRecorded
    <3>4. \A b \in Buffers : done'[Copied(b)] >= done[Copied(b)]
      BY <1>3, <3>1, <3>2, SMTT(30)
    <3>5. QED
      BY <2>2, <3>1, <3>2, <3>3, <3>4
  <2>4. CASE ~ TransferRecorded(s, j)
    <3>1. done' = done
      BY <1>2, <2>4 DEF WaitPassed, CopyStarted, CopyFinished
    <3>2. \A t \in Streams : t # s => head'[t] = head[t] /\ busy'[t] = busy[t]
      BY <1>2, <2>1, <2>4 DEF WaitPassed, CopyStarted, CopyFinished
    <3>3. QED
      BY <1>3, <2>2, <3>1, <3>2
  <2>5. QED
    BY <2>3, <2>4
<1>6. \/ head[s] = 3*j - 2 /\ head'[s] = 3*j - 1 /\ busy'[s] = busy[s] /\ done'[Copied(s)] = j - 1
         /\ done[ReadDone(s)] >= u /\ mem' = mem
      \/ head[s] = 3*j - 1 /\ head'[s] = 3*j - 1 /\ busy'[s] = TRUE /\ done'[Copied(s)] = j - 1
         /\ ~ busy[s] /\ mem' = [mem EXCEPT ![a[s]] = Torn]
      \/ head[s] = 3*j - 1 /\ head'[s] = 3*j /\ busy'[s] = FALSE /\ done'[Copied(s)] = j - 1
         /\ mem' = [mem EXCEPT ![a[s]] = w]
      \/ head[s] = 3*j /\ head'[s] = 3*j + 1 /\ busy'[s] = FALSE /\ done'[Copied(s)] = j
         /\ mem' = mem
  <2>1. /\ head \in [Streams -> Nat \ {0}] /\ busy \in [Streams -> BOOLEAN] /\ done \in [Events -> Nat]
        /\ s \in Streams /\ Copied(s) \in Events
        /\ done[Copied(s)] = j - 1
    <3>1. /\ head \in [Streams -> Nat \ {0}] /\ busy \in [Streams -> BOOLEAN] /\ done \in [Events -> Nat]
      BY <1>4 DEF TypeOK, StreamTypeOK
    <3>2. done[Copied(s)] \in Nat /\ j = done[Copied(s)] + 1
      BY <1>3, <1>5
    <3>3. done[Copied(s)] = j - 1
      BY <3>2
    <3>4. s \in Streams /\ Copied(s) \in Events
      BY Shapes
    <3>5. QED
      BY <3>1, <3>3, <3>4
  <2>2. CASE WaitPassed(s, j, u)
    BY <2>1, <2>2 DEF WaitPassed
  <2>3. CASE CopyStarted(s, j, a[s])
    BY <1>3, <1>5, <2>1, <2>3 DEF CopyStarted
  <2>4. CASE CopyFinished(s, j, a[s], w)
    BY <1>3, <1>5, <2>1, <2>4 DEF CopyFinished
  <2>5. CASE TransferRecorded(s, j)
    BY <1>3, <1>5, <2>1, <2>5 DEF TransferRecorded
  <2>6. QED
    BY <1>2, <2>2, <2>3, <2>4, <2>5
<1>7. TypeOK'
  BY <1>3, <1>4, TypeStep DEF Next
<1>8. Lengths'
  BY <1>1, <1>3, <1>4 DEF Lengths
<1>9. Positions'
  <2>1. /\ head'[s] <= Len(Log(s)) + 1
        /\ 3 * done'[Copied(s)] + 1 <= head'[s] /\ head'[s] <= 3 * done'[Copied(s)] + 3
        /\ busy'[s] => head'[s] = 3 * done'[Copied(s)] + 2
    <3>1. /\ Len(Log(s)) = 3 * Copies(s) /\ Copies(s) \in Nat /\ j <= Copies(s) /\ j \in Nat /\ j >= 1
          /\ busy[s] => head[s] = 3 * done[Copied(s)] + 2
          /\ done[Copied(s)] = j - 1
      BY <1>3, <1>4, <1>5, SMTT(30) DEF Lengths, Positions
    <3>2. QED
      BY <1>6, <3>1, SMTT(30)
  <2>2. QED
    BY <1>1, <1>3, <1>4, <1>5, <2>1 DEF Positions
<1>10. TransfersOK'
  <2>1. SUFFICES ASSUME NEW b \in Buffers, NEW p \in 1 .. Copies(b)
                 PROVE  \E u2 \in 0 .. Reads(b), a2 \in Allocations, w2 \in Weights :
                          /\ TransferIs(b, p, u2, a2[b], w2)
                          /\ head'[b] > 3*p - 2 => done'[ReadDone(b)] >= u2
    <3>1. \A b \in Buffers : \A p, u2, m2, w2 : TransferIs(b, p, u2, m2, w2)' <=> TransferIs(b, p, u2, m2, w2)
      BY <1>1, <1>3 DEF TransferIs
    <3>2. QED
      BY <1>1, <3>1 DEF TransfersOK
  <2>2. PICK u2 \in 0 .. Reads(b), a2 \in Allocations, w2 \in Weights :
           /\ TransferIs(b, p, u2, a2[b], w2)
           /\ head[b] > 3*p - 2 => done[ReadDone(b)] >= u2
    BY <1>4 DEF TransfersOK
  <2>3. CASE b # s
    BY <1>3, <1>5, <2>2, <2>3
  <2>4. CASE b = s /\ p # j
    <3>1. head'[s] > 3*p - 2 => head[s] > 3*p - 2
      <4>1. p \in Nat /\ p # j /\ j \in Nat
        BY <1>3, <2>4
      <4>2. QED
        BY <1>6, <4>1
    <3>2. QED
      BY <1>5, <2>2, <2>4, <3>1
  <2>5. CASE b = s /\ p = j
    <3>1. u2 = u
      BY <1>2, <2>2, <2>5 DEF AtTransfer, TransferIs, Wait
    <3>2. done[ReadDone(s)] >= u \/ ~ (head'[s] > 3*j - 2)
      <4>1. head[s] > 3*j - 2 => done[ReadDone(s)] >= u
        BY <1>2 DEF AtTransfer
      <4>2. QED
        BY <1>3, <1>6, <4>1, SMTT(30)
    <3>3. QED
      BY <1>5, <2>2, <2>5, <3>1, <3>2
  <2>6. QED
    BY <2>3, <2>4, <2>5
<1>11. CallsOK'
  <2>1. SUFFICES ASSUME NEW i \in 1 .. Len(asked)
                 PROVE  \E b \in Buffers, a2 \in Allocations :
                          \E v \in 1 .. Copies(b), r \in 1 .. Reads(b) :
                            /\ CallIs(i, b, v, r, a2[b], asked[i])
                            /\ Log(b)[3*v - 1] = Copy(a2[b], asked[i])
                            /\ Guarded(b, v, r)
                            /\ head'[Compute] > 3*i - 2 => done'[Copied(b)] >= v
                            /\ head'[Compute] > 3*i <=> done'[ReadDone(b)] >= r
    <3>1. \A i, b, v, r, m2, w2 : CallIs(i, b, v, r, m2, w2)' <=> CallIs(i, b, v, r, m2, w2)
      BY <1>1, <1>3 DEF CallIs
    <3>2. \A b \in Buffers : \A v, r : Guarded(b, v, r)' <=> Guarded(b, v, r)
      BY <1>1, <1>3 DEF Guarded
    <3>3. \A b \in Buffers : Log(b)' = Log(b) /\ Copies(b)' = Copies(b) /\ Reads(b)' = Reads(b)
      BY <1>1, <1>3
    <3>4. QED
      BY <1>1, <3>1, <3>2, <3>3 DEF CallsOK
  <2>2. PICK b \in Buffers, a2 \in Allocations :
           \E v \in 1 .. Copies(b), r \in 1 .. Reads(b) :
             /\ CallIs(i, b, v, r, a2[b], asked[i])
             /\ Log(b)[3*v - 1] = Copy(a2[b], asked[i])
             /\ Guarded(b, v, r)
             /\ head[Compute] > 3*i - 2 => done[Copied(b)] >= v
             /\ head[Compute] > 3*i <=> done[ReadDone(b)] >= r
    BY <1>4 DEF CallsOK
  <2>3. /\ head'[Compute] = head[Compute]
        /\ done'[ReadDone(b)] = done[ReadDone(b)]
        /\ done'[Copied(b)] >= done[Copied(b)] /\ done[Copied(b)] \in Nat
        /\ Copies(b) \in Nat
        /\ done'[Copied(b)] \in Nat
    <3>1. done'[Copied(b)] \in Nat
      BY <1>7, Shapes DEF TypeOK, StreamTypeOK
    <3>2. QED
      BY <1>3, <1>5, <3>1
  <2>4. QED
    BY <2>2, <2>3, SMTT(30)
<1>12. RecordsOrdered'
  BY <1>1, <1>3, <1>4 DEF RecordsOrdered
<1>13. NextPrimed'
  <2>1. cur_buf \in Buffers
    BY <1>4 DEF TypeOK
  <2>2. QED
    BY <1>1, <1>3, <1>4, <2>1 DEF NextPrimed
<1>14. ContentOK'
  <2>1. SUFFICES ASSUME NEW b \in Buffers, NEW p \in 1 .. Copies(b),
                        \/ head'[b] = 3*p \/ head'[b] = 3*p + 1
                        \/ head'[b] = 3*p + 2 /\ ~ busy'[b]
                 PROVE  mem'[Log(b)[3*p - 1].mem] = Log(b)[3*p - 1].weight
    BY <1>1, <1>3 DEF ContentOK, LastCopyIs
  <2>2. PICK a2 \in Allocations, w2 \in Weights : Log(b)[3*p - 1] = Copy(a2[b], w2)
    BY <1>4 DEF TransfersOK, TransferIs
  <2>3. a2[b] \in Blocks /\ Log(b)[3*p - 1].mem = a2[b] /\ Log(b)[3*p - 1].weight = w2
    BY <2>2, PipelineAssumption DEF Copy
  <2>4. mem \in [Blocks -> Weights \cup {Torn, Empty}]
    BY <1>4 DEF TypeOK, StreamTypeOK
  <2>5. CASE b # s
    <3>1. a2[b] # a[s]
      BY <2>5 DEF StableAllocations
    <3>2. mem'[a2[b]] = mem[a2[b]]
      BY <1>3, <1>6, <2>3, <2>4, <3>1
    <3>3. LastCopyIs(b, p)
      BY <1>3, <1>5, <2>1, <2>5 DEF LastCopyIs
    <3>4. QED
      BY <1>4, <2>3, <3>2, <3>3 DEF ContentOK
  <2>6. CASE b = s /\ head[s] = 3*j - 1 /\ head'[s] = 3*j
    <3>1. p = j
      <4>1. p \in Nat /\ j \in Nat
        BY <1>3
      <4>2. QED
        BY <2>1, <2>6, <4>1
    <3>2. Log(s)[3*j - 1] = Copy(a[s], w)
      BY <1>2 DEF AtTransfer, TransferIs
    <3>3. a2[b] = a[s] /\ w2 = w
      BY <2>2, <2>6, <3>1, <3>2 DEF Copy
    <3>4. mem' = [mem EXCEPT ![a[s]] = w]
      <4>1. j \in Nat
        BY <1>3
      <4>2. QED
        BY <1>6, <2>6, <4>1
    <3>5. QED
      BY <2>3, <2>4, <3>3, <3>4
  <2>7. CASE b = s /\ ~ (head[s] = 3*j - 1 /\ head'[s] = 3*j)
    <3>0. p \in Nat /\ j \in Nat /\ head[s] \in Nat
      BY <1>3
    <3>1. ~ (head[s] = 3*j - 1 /\ busy'[s] = TRUE)
      BY <1>6, <2>1, <2>7, <3>0
    <3>2. \/ head[s] = 3*j - 2 /\ head'[s] = 3*j - 1 /\ busy'[s] = busy[s] /\ mem' = mem
          \/ head[s] = 3*j /\ head'[s] = 3*j + 1 /\ mem' = mem
      BY <1>6, <2>1, <2>7, <3>0, <3>1
    <3>3. LastCopyIs(s, p) /\ mem' = mem
      BY <2>1, <2>7, <3>0, <3>2 DEF LastCopyIs
    <3>4. QED
      BY <1>4, <2>7, <3>3 DEF ContentOK
  <2>8. QED
    BY <2>5, <2>6, <2>7
<1>15. OutputsOK'
  BY <1>1, <1>4 DEF OutputsOK
<1>16. QED
  BY <1>7, <1>8, <1>9, <1>10, <1>11, <1>12, <1>13, <1>14, <1>15 DEF IInv

-----------------------------------------------------------------------------
(* The steps of the compute stream.                                        *)

CallWaitPassed(i, b, v) ==
  /\ head[Compute] = 3*i - 2 /\ head' = [head EXCEPT ![Compute] = 3*i - 1]
  /\ done[Copied(b)] >= v
  /\ busy' = busy /\ done' = done /\ outputs' = outputs

GemvStarted(i) ==
  /\ head[Compute] = 3*i - 1 /\ busy' = [busy EXCEPT ![Compute] = TRUE]
  /\ head' = head /\ done' = done /\ outputs' = outputs

GemvFinished(i) ==
  /\ head[Compute] = 3*i - 1 /\ busy[Compute]
  /\ head' = [head EXCEPT ![Compute] = 3*i]
  /\ busy' = [busy EXCEPT ![Compute] = FALSE]
  /\ outputs' = Append(outputs, asked[i])
  /\ done' = done

ReadRecorded(i, b, r) ==
  /\ head[Compute] = 3*i /\ ~ busy[Compute] /\ head' = [head EXCEPT ![Compute] = 3*i + 1]
  /\ done' = [done EXCEPT ![ReadDone(b)] = r]
  /\ busy' = busy /\ outputs' = outputs

(* What a step of the compute stream does.                                   *)
LEMMA CallStepEffect ==
  ASSUME IInv, GpuStep(Compute)
  PROVE  /\ UNCHANGED <<issued, hostVars, mem>>
         /\ \E i \in 1 .. Len(asked), b \in Buffers, a \in Allocations :
              \E v \in 1 .. Copies(b), r \in 1 .. Reads(b) :
                /\ AtCall(i, b, v, r, a[b])
                /\ \/ CallWaitPassed(i, b, v)
                   \/ GemvStarted(i)
                   \/ GemvFinished(i)
                   \/ ReadRecorded(i, b, r)
<1>1. Pending(Compute) /\ UNCHANGED <<issued, hostVars>>
  BY DEF GpuStep, StreamStep, PassWait, ReachRecord, StartCopy, FinishCopy, StartGemv, FinishGemv
<1>2. PICK i \in 1 .. Len(asked), b \in Buffers, a \in Allocations :
           \E v \in 1 .. Copies(b), r \in 1 .. Reads(b) : AtCall(i, b, v, r, a[b])
  BY <1>1, PendingCall DEF IInv
<1>3. PICK v \in 1 .. Copies(b), r \in 1 .. Reads(b) : AtCall(i, b, v, r, a[b])
  BY <1>2
<1>4. i \in Nat /\ head[Compute] \in Nat /\ (busy[Compute] => head[Compute] = 3*Len(outputs) + 2)
      /\ Len(outputs) \in Nat
  <2>1. TypeOK /\ Positions
    BY DEF IInv
  <2>2. Len(asked) \in Nat /\ head[Compute] \in Nat /\ Len(outputs) \in Nat
    BY <2>1, Types
  <2>3. QED
    BY <2>1, <2>2 DEF Positions
<1>5. CASE head[Compute] = 3*i - 2 /\ Current(Compute) = Wait(Copied(b), v)
  <2>1. PassWait(Compute)
    BY <1>5 DEF GpuStep, StreamStep, PassWait, ReachRecord, StartCopy, FinishCopy,
                StartGemv, FinishGemv, Wait
  <2>2. Current(Compute).event = Copied(b) /\ Current(Compute).ver = v
    BY <1>5 DEF Wait
  <2>3. head[Compute] + 1 = 3*i - 1
    BY <1>4, <1>5
  <2>4. CallWaitPassed(i, b, v) /\ mem' = mem
    BY <1>5, <2>1, <2>2, <2>3 DEF PassWait, CallWaitPassed, Advance
  <2>5. QED
    BY <1>1, <1>3, <2>4
<1>6. CASE head[Compute] = 3*i - 1 /\ Current(Compute) = Gemv(a[b], asked[i])
  <2>1. StartGemv(Compute) \/ FinishGemv(Compute)
    BY <1>6 DEF GpuStep, StreamStep, PassWait, ReachRecord, StartCopy, FinishCopy,
                StartGemv, FinishGemv, Gemv
  <2>2. Current(Compute).mem = a[b] /\ Current(Compute).weight = asked[i]
    BY <1>6 DEF Gemv
  <2>3. head[Compute] + 1 = 3*i
    BY <1>4, <1>6
  <2>4. StartGemv(Compute) => GemvStarted(i) /\ mem' = mem
    BY <1>6 DEF StartGemv, GemvStarted
  <2>5. FinishGemv(Compute) => GemvFinished(i) /\ mem' = mem
    <3>1. SUFFICES ASSUME FinishGemv(Compute) PROVE GemvFinished(i) /\ mem' = mem
      OBVIOUS
    <3>2. mem[Current(Compute).mem] = asked[i]
      BY <2>2, <3>1, ReadsIts DEF FinishGemv, GemvReadsItsWeight
    <3>3. QED
      BY <1>6, <2>3, <3>1, <3>2 DEF FinishGemv, GemvFinished, Advance
  <2>6. QED
    BY <1>1, <1>3, <2>1, <2>4, <2>5
<1>7. CASE head[Compute] = 3*i /\ i = Len(outputs) /\ Current(Compute) = Record(ReadDone(b), r)
  <2>1. ReachRecord(Compute)
    BY <1>7 DEF GpuStep, StreamStep, PassWait, ReachRecord, StartCopy, FinishCopy,
                StartGemv, FinishGemv, Record
  <2>2. Current(Compute).event = ReadDone(b) /\ Current(Compute).ver = r
    BY <1>7 DEF Record
  <2>3. ~ busy[Compute]
    BY <1>4, <1>7
  <2>4. ReadRecorded(i, b, r) /\ mem' = mem
    BY <1>7, <2>1, <2>2, <2>3 DEF ReachRecord, ReadRecorded, Advance
  <2>5. QED
    BY <1>1, <1>3, <2>4
<1>8. QED
  BY <1>3, <1>5, <1>6, <1>7 DEF AtCall

(* The action CallStep keeps the invariant.                                  *)
LEMMA CallStepKeeps ==
  ASSUME IInv, GpuStep(Compute)
  PROVE  IInv'
<1>1. /\ \A t \in Streams : Log(t)' = Log(t)
      /\ \A b \in Buffers : Copies(b)' = Copies(b) /\ Reads(b)' = Reads(b)
      /\ asked' = asked /\ bufs' = bufs /\ cur_buf' = cur_buf /\ cur_name' = cur_name
      /\ mem' = mem
  BY CallStepEffect, Unissued
<1>2. PICK k \in 1 .. Len(asked), c \in Buffers, a \in Allocations :
              \E v \in 1 .. Copies(c), r \in 1 .. Reads(c) :
                /\ AtCall(k, c, v, r, a[c])
                /\ \/ CallWaitPassed(k, c, v)
                   \/ GemvStarted(k)
                   \/ GemvFinished(k)
                   \/ ReadRecorded(k, c, r)
  BY CallStepEffect
<1>3. PICK v \in 1 .. Copies(c), r \in 1 .. Reads(c) :
                /\ AtCall(k, c, v, r, a[c])
                /\ \/ CallWaitPassed(k, c, v)
                   \/ GemvStarted(k)
                   \/ GemvFinished(k)
                   \/ ReadRecorded(k, c, r)
  BY <1>2
<1>4. /\ TypeOK /\ Lengths /\ Positions /\ TransfersOK /\ CallsOK /\ RecordsOrdered
      /\ NextPrimed /\ ContentOK /\ OutputsOK
  BY DEF IInv
<1>5. /\ \A t \in Streams : head[t] \in Nat /\ busy[t] \in BOOLEAN /\ Len(Log(t)) \in Nat
      /\ \A b \in Buffers : /\ Copies(b) \in Nat /\ Reads(b) \in Nat
                            /\ done[Copied(b)] \in Nat /\ done[ReadDone(b)] \in Nat
                            /\ b \in Streams /\ b # Compute
      /\ Len(asked) \in Nat /\ Len(outputs) \in Nat /\ Compute \in Streams
      /\ \A t \in Streams : t \in Buffers \/ t = Compute
      /\ k \in Nat /\ k >= 1 /\ k <= Len(asked) /\ v \in Nat /\ r \in Nat /\ r <= Reads(c)
  BY <1>4, Types
<1>6. /\ head \in [Streams -> Nat \ {0}] /\ busy \in [Streams -> BOOLEAN] /\ done \in [Events -> Nat]
      /\ outputs \in Seq(Weights \cup {Torn, Empty}) /\ asked \in Seq(Weights)
      /\ Compute \in Streams
  BY <1>4, <1>5 DEF TypeOK, StreamTypeOK
<1>7. TypeOK'
  BY <1>4, <1>5, TypeStep DEF Next
<1>8. Lengths'
  BY <1>1, <1>5, <1>4 DEF Lengths
<1>9. done[ReadDone(c)] < r
  BY <1>3 DEF AtCall
<1>10. /\ \A b \in Buffers : /\ head'[b] = head[b] /\ busy'[b] = busy[b]
                             /\ done'[Copied(b)] = done[Copied(b)]
                             /\ done'[ReadDone(b)] >= done[ReadDone(b)]
                             /\ done'[ReadDone(b)] <= Reads(b)
                             /\ b # c => done'[ReadDone(b)] = done[ReadDone(b)]
  <2>1. \A b \in Buffers : done[ReadDone(b)] <= Reads(b)
    BY <1>4 DEF Positions
  <2>2. CASE ReadRecorded(k, c, r)
    <3>1. /\ ReadDone(c) \in Events
          /\ \A b \in Buffers : /\ Copied(b) # ReadDone(c) /\ Copied(b) \in Events
                                /\ ReadDone(b) \in Events
                                /\ b # c => ReadDone(b) # ReadDone(c)
      BY Shapes
    <3>2. /\ \A e \in Events : e # ReadDone(c) => done'[e] = done[e]
          /\ done'[ReadDone(c)] = r
      BY <1>6, <2>2, <3>1 DEF ReadRecorded
    <3>3. \A b \in Buffers : head'[b] = head[b] /\ busy'[b] = busy[b]
      BY <1>5, <1>6, <2>2 DEF ReadRecorded
    <3>4. done'[ReadDone(c)] >= done[ReadDone(c)] /\ done'[ReadDone(c)] <= Reads(c)
      BY <1>5, <1>9, <3>2
    <3>5. \A b \in Buffers : done[ReadDone(b)] >= done[ReadDone(b)]
      BY <1>5
    <3>6. QED
      BY <2>1, <3>1, <3>2, <3>3, <3>4, <3>5
  <2>3. CASE ~ ReadRecorded(k, c, r)
    <3>1. done' = done
      BY <1>3, <2>3 DEF CallWaitPassed, GemvStarted, GemvFinished
    <3>2. \A b \in Buffers : head'[b] = head[b] /\ busy'[b] = busy[b]
      BY <1>3, <1>5, <1>6, <2>3 DEF CallWaitPassed, GemvStarted, GemvFinished
    <3>3. \A b \in Buffers : done[ReadDone(b)] >= done[ReadDone(b)]
      BY <1>5
    <3>4. QED
      BY <2>1, <3>1, <3>2, <3>3
  <2>4. QED
    BY <2>2, <2>3
<1>11. \/ head[Compute] = 3*k - 2 /\ head'[Compute] = 3*k - 1 /\ busy'[Compute] = busy[Compute]
          /\ k = Len(outputs) + 1 /\ outputs' = outputs
          /\ done[Copied(c)] >= v /\ done'[ReadDone(c)] = done[ReadDone(c)]
       \/ head[Compute] = 3*k - 1 /\ head'[Compute] = 3*k - 1
          /\ k = Len(outputs) + 1 /\ outputs' = outputs
          /\ done'[ReadDone(c)] = done[ReadDone(c)]
       \/ head[Compute] = 3*k - 1 /\ head'[Compute] = 3*k /\ busy'[Compute] = FALSE
          /\ k = Len(outputs) + 1 /\ outputs' = Append(outputs, asked[k])
          /\ done'[ReadDone(c)] = done[ReadDone(c)]
       \/ head[Compute] = 3*k /\ head'[Compute] = 3*k + 1 /\ busy'[Compute] = FALSE
          /\ k = Len(outputs) /\ outputs' = outputs
          /\ done'[ReadDone(c)] = r
  <2>1. /\ head[Compute] = 3*k - 2 => k = Len(outputs) + 1
        /\ head[Compute] = 3*k - 1 => k = Len(outputs) + 1
        /\ head[Compute] = 3*k => k = Len(outputs)
    BY <1>3, <1>5, SMTT(30) DEF AtCall
  <2>2. ReadDone(c) \in Events
    BY Shapes
  <2>3. CASE CallWaitPassed(k, c, v)
    BY <1>6, <2>1, <2>3 DEF CallWaitPassed
  <2>4. CASE GemvStarted(k)
    BY <1>6, <2>1, <2>4 DEF GemvStarted
  <2>5. CASE GemvFinished(k)
    BY <1>6, <2>1, <2>5 DEF GemvFinished
  <2>6. CASE ReadRecorded(k, c, r)
    BY <1>6, <2>1, <2>2, <2>6 DEF ReadRecorded
  <2>7. QED
    BY <1>3, <2>3, <2>4, <2>5, <2>6
<1>12. Len(outputs)' = IF head[Compute] = 3*k - 1 /\ head'[Compute] = 3*k
                       THEN Len(outputs) + 1 ELSE Len(outputs)
  <2>1. Len(Append(outputs, asked[k])) = Len(outputs) + 1
    BY <1>6
  <2>2. k \in Nat
    BY <1>5
  <2>3. QED
    BY <1>11, <2>1, <2>2
<1>13. Positions'
  <2>1. /\ head'[Compute] <= Len(Log(Compute)) + 1
        /\ 3 * Len(outputs)' <= head'[Compute] /\ head'[Compute] <= 3 * Len(outputs)' + 2
        /\ busy'[Compute] => head'[Compute] = 3 * Len(outputs)' + 2
    <3>1. /\ Len(Log(Compute)) = 3 * Len(asked) /\ Len(asked) \in Nat /\ Len(outputs) \in Nat
          /\ k \in Nat /\ k <= Len(asked) /\ k >= 1
          /\ busy[Compute] => head[Compute] = 3 * Len(outputs) + 2
      BY <1>4, <1>5 DEF Lengths, Positions
    <3>2. \/ head'[Compute] = 3*k - 1 /\ Len(outputs)' = k - 1
          \/ head'[Compute] = 3*k /\ Len(outputs)' = k /\ busy'[Compute] = FALSE
          \/ head'[Compute] = 3*k + 1 /\ Len(outputs)' = k /\ busy'[Compute] = FALSE
      <4>1. CASE head'[Compute] = 3*k - 1
        <5>1. k = Len(outputs) + 1
          BY <1>11, <3>1, <4>1
        <5>2. Len(outputs)' = Len(outputs)
          BY <1>12, <3>1, <4>1
        <5>3. QED
          BY <3>1, <4>1, <5>1, <5>2
      <4>2. CASE head'[Compute] = 3*k
        <5>1. k = Len(outputs) + 1 /\ head[Compute] = 3*k - 1 /\ busy'[Compute] = FALSE
          BY <1>11, <3>1, <4>2
        <5>2. QED
          BY <1>12, <3>1, <4>2, <5>1
      <4>3. CASE head'[Compute] = 3*k + 1
        <5>1. k = Len(outputs) /\ head[Compute] = 3*k /\ busy'[Compute] = FALSE
          BY <1>11, <3>1, <4>3
        <5>2. QED
          BY <1>12, <3>1, <4>3, <5>1
      <4>4. QED
        BY <1>11, <4>1, <4>2, <4>3
    <3>3. QED
      <4>. DEFINE h == head'[Compute]
                  o == Len(outputs)'
                  u == busy'[Compute]
      <4>1. \/ h = 3*k - 1 /\ o = k - 1
            \/ h = 3*k /\ o = k /\ u = FALSE
            \/ h = 3*k + 1 /\ o = k /\ u = FALSE
        BY <3>2
      <4>. HIDE DEF h, o, u
      <4>2. /\ h <= Len(Log(Compute)) + 1
            /\ 3 * o <= h /\ h <= 3 * o + 2
            /\ u => h = 3 * o + 2
        BY <3>1, <4>1
      <4>3. QED
        BY <4>2 DEF h, o, u
  <2>2. \A t \in Streams : head'[t] <= Len(Log(t)') + 1
    <3>1. \A b \in Buffers : head[b] <= Len(Log(b)) + 1
      BY <1>4, <1>5 DEF Positions
    <3>2. QED
      BY <1>1, <1>5, <1>10, <2>1, <3>1
  <2>3. \A b \in Buffers :
          /\ 3 * done'[Copied(b)] + 1 <= head'[b] /\ head'[b] <= 3 * done'[Copied(b)] + 3
          /\ busy'[b] => head'[b] = 3 * done'[Copied(b)] + 2
          /\ done'[ReadDone(b)] <= Reads(b)'
    BY <1>1, <1>4, <1>10 DEF Positions
  <2>4. QED
    BY <2>1, <2>2, <2>3 DEF Positions
<1>14. TransfersOK'
  <2>1. SUFFICES ASSUME NEW b \in Buffers, NEW p \in 1 .. Copies(b)
                 PROVE  \E u2 \in 0 .. Reads(b), a2 \in Allocations, w2 \in Weights :
                          /\ TransferIs(b, p, u2, a2[b], w2)
                          /\ head'[b] > 3*p - 2 => done'[ReadDone(b)] >= u2
    <3>1. \A b \in Buffers : \A p, u2, m2, w2 : TransferIs(b, p, u2, m2, w2)' <=> TransferIs(b, p, u2, m2, w2)
      BY <1>1, <1>5 DEF TransferIs
    <3>2. QED
      BY <1>1, <3>1 DEF TransfersOK
  <2>2. PICK u2 \in 0 .. Reads(b), a2 \in Allocations, w2 \in Weights :
           /\ TransferIs(b, p, u2, a2[b], w2)
           /\ head[b] > 3*p - 2 => done[ReadDone(b)] >= u2
    BY <1>4 DEF TransfersOK
  <2>3. head'[b] > 3*p - 2 => done'[ReadDone(b)] >= u2
    <3>1. /\ head'[b] = head[b] /\ done'[ReadDone(b)] >= done[ReadDone(b)]
          /\ done[ReadDone(b)] \in Nat /\ done'[ReadDone(b)] \in Nat /\ u2 \in Nat
      <4>1. done'[ReadDone(b)] \in Nat
        BY <1>7, Shapes DEF TypeOK, StreamTypeOK
      <4>2. QED
        BY <1>5, <1>10, <4>1
    <3>2. QED
      BY <2>2, <3>1
  <2>4. QED
    BY <2>2, <2>3
<1>15. CallsOK'
  <2>1. SUFFICES ASSUME NEW i \in 1 .. Len(asked)
                 PROVE  \E b \in Buffers, a2 \in Allocations :
                          \E v2 \in 1 .. Copies(b), r2 \in 1 .. Reads(b) :
                            /\ CallIs(i, b, v2, r2, a2[b], asked[i])
                            /\ Log(b)[3*v2 - 1] = Copy(a2[b], asked[i])
                            /\ Guarded(b, v2, r2)
                            /\ head'[Compute] > 3*i - 2 => done'[Copied(b)] >= v2
                            /\ head'[Compute] > 3*i <=> done'[ReadDone(b)] >= r2
    <3>1. \A i, b, v2, r2, m2, w2 : CallIs(i, b, v2, r2, m2, w2)' <=> CallIs(i, b, v2, r2, m2, w2)
      BY <1>1, <1>5 DEF CallIs
    <3>2. \A b \in Buffers : \A v2, r2 : Guarded(b, v2, r2)' <=> Guarded(b, v2, r2)
      BY <1>1, <1>5 DEF Guarded
    <3>3. \A b \in Buffers : Log(b)' = Log(b) /\ Copies(b)' = Copies(b) /\ Reads(b)' = Reads(b)
      BY <1>1, <1>5
    <3>4. QED
      BY <1>1, <3>1, <3>2, <3>3 DEF CallsOK
  <2>2. PICK b \in Buffers, a2 \in Allocations :
           \E v2 \in 1 .. Copies(b), r2 \in 1 .. Reads(b) :
             /\ CallIs(i, b, v2, r2, a2[b], asked[i])
             /\ Log(b)[3*v2 - 1] = Copy(a2[b], asked[i])
             /\ Guarded(b, v2, r2)
             /\ head[Compute] > 3*i - 2 => done[Copied(b)] >= v2
             /\ head[Compute] > 3*i <=> done[ReadDone(b)] >= r2
    BY <1>4 DEF CallsOK
  <2>3. PICK v2 \in 1 .. Copies(b), r2 \in 1 .. Reads(b) :
             /\ CallIs(i, b, v2, r2, a2[b], asked[i])
             /\ Log(b)[3*v2 - 1] = Copy(a2[b], asked[i])
             /\ Guarded(b, v2, r2)
             /\ head[Compute] > 3*i - 2 => done[Copied(b)] >= v2
             /\ head[Compute] > 3*i <=> done[ReadDone(b)] >= r2
    BY <2>2
  <2>4. i \in Nat /\ v2 \in Nat /\ r2 \in Nat
    BY <1>5
  <2>5. head'[Compute] > 3*i - 2 => done'[Copied(b)] >= v2
    <3>1. CASE i # k
      <4>1. head'[Compute] > 3*i - 2 => head[Compute] > 3*i - 2
        BY <1>5, <1>11, <2>4, <3>1, SMTT(30)
      <4>2. QED
        BY <1>10, <2>3, <4>1
    <3>2. CASE i = k
      <4>1. b = c /\ v2 = v
        BY <1>3, <2>3, <3>2, Shapes DEF AtCall, CallIs, Wait
      <4>2. head[Compute] > 3*k - 2 => done[Copied(c)] >= v
        BY <1>3 DEF AtCall
      <4>3. done[Copied(c)] >= v
        BY <1>5, <1>11, <4>2, SMTT(30)
      <4>4. QED
        BY <1>10, <4>1, <4>3
    <3>3. QED
      BY <3>1, <3>2
  <2>6. head'[Compute] > 3*i <=> done'[ReadDone(b)] >= r2
    <3>1. CASE ~ (head[Compute] = 3*k /\ head'[Compute] = 3*k + 1)
      <4>1. head'[Compute] > 3*i <=> head[Compute] > 3*i
        <5>1. \/ head[Compute] = 3*k - 2 /\ head'[Compute] = 3*k - 1
              \/ head[Compute] = 3*k - 1 /\ head'[Compute] = 3*k - 1
              \/ head[Compute] = 3*k - 1 /\ head'[Compute] = 3*k
          BY <1>11, <3>1
        <5>2. k \in Nat
          BY <1>5
        <5>3. QED
          BY <2>4, <5>1, <5>2
      <4>2. done'[ReadDone(c)] = done[ReadDone(c)]
        BY <1>5, <1>11, <3>1
      <4>3. QED
        BY <1>10, <2>3, <4>1, <4>2
    <3>2. CASE /\ head[Compute] = 3*k /\ head'[Compute] = 3*k + 1
               /\ b # c
      <4>1. i # k
        <5>1. Log(Compute)[3*k - 2].event = Copied(c) /\ Log(Compute)[3*i - 2].event = Copied(b)
          BY <1>3, <2>3 DEF AtCall, CallIs, Wait
        <5>2. QED
          BY <3>2, <5>1, Shapes
      <4>2. head'[Compute] > 3*i <=> head[Compute] > 3*i
        BY <1>5, <2>4, <3>2, <4>1, SMTT(30)
      <4>3. QED
        BY <1>10, <2>3, <3>2, <4>2
    <3>3. CASE /\ head[Compute] = 3*k /\ head'[Compute] = 3*k + 1
               /\ b = c
      <4>1. done'[ReadDone(c)] = r
        BY <1>5, <1>11, <3>3, SMTT(30)
      <4>2. /\ Log(Compute)[3*k].event = ReadDone(c) /\ Log(Compute)[3*k].ver = r
            /\ Log(Compute)[3*i].event = ReadDone(c) /\ Log(Compute)[3*i].ver = r2
        BY <1>3, <2>3, <3>3 DEF AtCall, CallIs, Record
      <4>3. /\ i < k => r2 < r
            /\ k < i => r < r2
            /\ i = k => r2 = r
        BY <1>4, <1>5, <4>2 DEF RecordsOrdered
      <4>4. i <= k <=> r >= r2
        BY <1>5, <2>4, <4>3
      <4>5. head'[Compute] > 3*i <=> i <= k
        BY <1>5, <2>4, <3>3
      <4>6. QED
        BY <3>3, <4>1, <4>4, <4>5
    <3>4. QED
      BY <3>1, <3>2, <3>3
  <2>7. QED
    BY <2>3, <2>5, <2>6
<1>16. RecordsOrdered'
  BY <1>1, <1>5, <1>4 DEF RecordsOrdered
<1>17. NextPrimed'
  <2>1. cur_buf \in Buffers
    BY <1>4 DEF TypeOK
  <2>2. QED
    BY <1>1, <1>5, <1>4, <2>1 DEF NextPrimed
<1>18. ContentOK'
  <2>1. \A b \in Buffers : \A p : LastCopyIs(b, p)' <=> LastCopyIs(b, p)
    BY <1>10 DEF LastCopyIs
  <2>2. QED
    BY <1>1, <1>4, <1>5, <2>1 DEF ContentOK
<1>19. OutputsOK'
  <2>1. CASE outputs' = outputs
    BY <1>1, <1>4, <2>1 DEF OutputsOK
  <2>2. CASE outputs' = Append(outputs, asked[k]) /\ k = Len(outputs) + 1
    <3>1. SUFFICES ASSUME NEW n \in 1 .. Len(outputs')
                   PROVE  outputs'[n] = asked[n]
      BY <1>1 DEF OutputsOK
    <3>2. Len(outputs') = Len(outputs) + 1
      BY <1>6, <2>2
    <3>3. CASE n = k
      BY <1>6, <2>2, <3>3
    <3>4. CASE n # k
      <4>1. n \in 1 .. Len(outputs)
        BY <1>5, <2>2, <3>2, <3>4
      <4>2. outputs'[n] = outputs[n]
        BY <1>6, <2>2, <4>1
      <4>3. QED
        BY <1>4, <4>1, <4>2 DEF OutputsOK
    <3>5. QED
      BY <3>3, <3>4
  <2>3. QED
    BY <1>11, <2>1, <2>2
<1>20. QED
  BY <1>7, <1>8, <1>13, <1>14, <1>15, <1>16, <1>17, <1>18, <1>19 DEF IInv

-----------------------------------------------------------------------------
(* The initial state, and the host's two actions, keep the invariant.      *)

(* What the first constructor has issued.                                    *)
LEMMA InitEffect ==
  ASSUME Init
  PROVE  /\ bufs \in Allocations /\ bufs[0] \in Blocks
         /\ Log(0) = Three(<<>>, Wait(ReadDone(0), 0), Copy(bufs[0], 0), Record(Copied(0), 1))
         /\ Log(1) = <<>> /\ Log(Compute) = <<>>
         /\ Copies(0) = 1 /\ Copies(1) = 0
         /\ Reads(0) = 0 /\ Reads(1) = 0
<1>1. NothingIssued \in IssuedType
  BY DEF NothingIssued, IssuedType
<1>2. bufs \in Allocations /\ 0 \in Buffers /\ 0 \in Weights /\ bufs[0] \in Blocks
  BY Shapes, PipelineAssumption DEF Init
<1>3. issued = [log |-> [NothingIssued.log EXCEPT ![0] =
                   Three(NothingIssued.log[0], Wait(ReadDone(0), NothingIssued.recorded[ReadDone(0)]),
                         Copy(bufs[0], 0), Record(Copied(0), NothingIssued.recorded[Copied(0)] + 1))],
                recorded |-> [NothingIssued.recorded EXCEPT ![Copied(0)] = @ + 1]]
  BY <1>1, <1>2, PrefetchEffect DEF Init, prefetch_into
<1>4. /\ \A t \in Streams : NothingIssued.log[t] = <<>>
      /\ \A e \in Events : NothingIssued.recorded[e] = 0
      /\ NothingIssued.log \in [Streams -> Seq(Entries)]
      /\ NothingIssued.recorded \in [Events -> Nat]
  BY <1>1 DEF NothingIssued, IssuedType
<1>5. /\ 0 \in Streams /\ 1 \in Streams /\ Compute \in Streams /\ 1 # 0 /\ Compute # 0
      /\ Copied(0) \in Events /\ Copied(1) \in Events /\ ReadDone(0) \in Events /\ ReadDone(1) \in Events
      /\ Copied(1) # Copied(0) /\ ReadDone(0) # Copied(0) /\ ReadDone(1) # Copied(0)
  BY Shapes
<1>6. issued.log = [NothingIssued.log EXCEPT ![0] =
                   Three(<<>>, Wait(ReadDone(0), 0), Copy(bufs[0], 0), Record(Copied(0), 1))]
  BY <1>3, <1>4, <1>5
<1>7. issued.recorded = [NothingIssued.recorded EXCEPT ![Copied(0)] = 1]
  BY <1>3, <1>4, <1>5
<1>8. /\ Log(0) = Three(<<>>, Wait(ReadDone(0), 0), Copy(bufs[0], 0), Record(Copied(0), 1))
      /\ Log(1) = <<>> /\ Log(Compute) = <<>>
  BY <1>4, <1>5, <1>6 DEF Log
<1>9. Copies(0) = 1 /\ Copies(1) = 0 /\ Reads(0) = 0 /\ Reads(1) = 0
  BY <1>4, <1>5, <1>7 DEF Copies, Reads
<1>10. QED
  BY <1>2, <1>8, <1>9

(* The invariant holds at the start.                                          *)
LEMMA InvInit == Init => IInv
<1> SUFFICES ASSUME Init PROVE IInv
  OBVIOUS
<1>1. TypeOK
  BY TypeInit
<1>2. /\ bufs \in Allocations /\ bufs[0] \in Blocks
      /\ Log(0) = Three(<<>>, Wait(ReadDone(0), 0), Copy(bufs[0], 0), Record(Copied(0), 1))
      /\ Log(1) = <<>> /\ Log(Compute) = <<>>
      /\ Copies(0) = 1 /\ Copies(1) = 0
      /\ Reads(0) = 0 /\ Reads(1) = 0
  BY InitEffect
<1>3. /\ \A t \in Streams : head[t] = 1 /\ busy[t] = FALSE
      /\ \A e \in Events : done[e] = 0
      /\ outputs = <<>> /\ asked = <<>> /\ cur_buf = 0 /\ cur_name = 0
  BY DEF Init, GpuInit
<1>4. 0 \in Weights
  BY PipelineAssumption
<1>5. /\ Len(Log(0)) = 3
      /\ Log(0)[1] = Wait(ReadDone(0), 0) /\ Log(0)[2] = Copy(bufs[0], 0) /\ Log(0)[3] = Record(Copied(0), 1)
  <2>1. /\ <<>> \in Seq(Entries) /\ Len(<<>>) = 0
        /\ Wait(ReadDone(0), 0) \in Entries /\ Copy(bufs[0], 0) \in Entries
        /\ Record(Copied(0), 1) \in Entries
    BY <1>2, <1>4, Shapes, EntryTypes
  <2>2. Extends3(Log(0), <<>>, Wait(ReadDone(0), 0), Copy(bufs[0], 0), Record(Copied(0), 1))
    BY <1>2 DEF Extends3
  <2>3. /\ Len(Log(0)) = Len(<<>>) + 3
        /\ Log(0)[Len(<<>>) + 1] = Wait(ReadDone(0), 0)
        /\ Log(0)[Len(<<>>) + 2] = Copy(bufs[0], 0)
        /\ Log(0)[Len(<<>>) + 3] = Record(Copied(0), 1)
    <3>. DEFINE q == <<>>
    <3>1. q \in Seq(Entries) /\ Extends3(Log(0), q, Wait(ReadDone(0), 0), Copy(bufs[0], 0), Record(Copied(0), 1))
      BY <2>1, <2>2
    <3>. HIDE DEF q
    <3>2. /\ Len(Log(0)) = Len(q) + 3
          /\ Log(0)[Len(q) + 1] = Wait(ReadDone(0), 0)
          /\ Log(0)[Len(q) + 2] = Copy(bufs[0], 0)
          /\ Log(0)[Len(q) + 3] = Record(Copied(0), 1)
      BY <2>1, <3>1, Extends3Effect
    <3>3. QED
      BY <3>2 DEF q
  <2>4. Len(<<>>) + 1 = 1 /\ Len(<<>>) + 2 = 2 /\ Len(<<>>) + 3 = 3
    OBVIOUS
  <2>5. QED
    BY <2>3, <2>4
<1>6. Len(Log(1)) = 0 /\ Len(Log(Compute)) = 0 /\ Len(asked) = 0 /\ Len(outputs) = 0
  BY <1>2, <1>3
<1>7. /\ \A b \in Buffers : b = 0 \/ b = 1
      /\ \A b \in Buffers : b \in Streams /\ Copied(b) \in Events /\ ReadDone(b) \in Events
      /\ \A t \in Streams : t = 0 \/ t = 1 \/ t = Compute
      /\ Compute \in Streams
  BY Shapes
<1>8. Lengths
  <2>1. Len(Log(0)) = 3 * Copies(0)
    <3>1. Len(Log(0)) = 3 /\ Copies(0) = 1
      BY <1>2, <1>5
    <3>2. 3 * 1 = 3
      OBVIOUS
    <3>3. QED
      BY <3>1, <3>2, Zenon
  <2>2. Len(Log(1)) = 3 * Copies(1)
    BY <1>2, <1>6
  <2>3. Len(Log(Compute)) = 3 * Len(asked)
    BY <1>6
  <2>4. QED
    BY <1>7, <2>1, <2>2, <2>3 DEF Lengths
<1>9. Positions
  BY <1>2, <1>3, <1>5, <1>6, <1>7 DEF Positions
<1>10. TransfersOK
  <2>1. TransferIs(0, 1, 0, bufs[0], 0)
    BY <1>5 DEF TransferIs
  <2>2. SUFFICES ASSUME NEW b \in Buffers, NEW j \in 1 .. Copies(b)
                 PROVE  \E u \in 0 .. Reads(b), a \in Allocations, w \in Weights :
                          /\ TransferIs(b, j, u, a[b], w)
                          /\ head[b] > 3*j - 2 => done[ReadDone(b)] >= u
    BY DEF TransfersOK
  <2>3. b = 0 /\ j = 1
    BY <1>2, <1>7
  <2>4. QED
    BY <1>2, <1>3, <1>4, <1>7, <2>1, <2>3
<1>11. CallsOK /\ RecordsOrdered /\ OutputsOK
  BY <1>6 DEF CallsOK, RecordsOrdered, OutputsOK
<1>12. NextPrimed
  BY <1>2, <1>3, <1>5 DEF NextPrimed
<1>13. ContentOK
  <2>1. SUFFICES ASSUME NEW b \in Buffers, NEW j \in 1 .. Copies(b)
                 PROVE  ~ LastCopyIs(b, j)
    BY DEF ContentOK
  <2>2. b = 0 /\ j = 1
    BY <1>2, <1>7
  <2>3. QED
    BY <1>3, <1>7, <2>2 DEF LastCopyIs
<1>14. QED
  BY <1>1, <1>8, <1>9, <1>10, <1>11, <1>12, <1>13 DEF IInv

(* A transfer of w to a[n] appended to the log of stream n, which waits for  *)
(* every read of buffer n issued so far.                                     *)
LEMMA TransferAppended ==
  ASSUME IInv, TypeOK', NEW n \in Buffers, NEW a \in Allocations, NEW w \in Weights,
         UNCHANGED gpuVars,
         Extends3(Log(n)', Log(n), Wait(ReadDone(n), Reads(n)), Copy(a[n], w),
                  Record(Copied(n), Copies(n) + 1)),
         Copies(n)' = Copies(n) + 1,
         Reads(n)' = Reads(n),
         \A b \in Buffers : b # n => Log(b)' = Log(b) /\ Copies(b)' = Copies(b),
         \A b \in Buffers : Reads(b) <= Reads(b)'
  PROVE  /\ \A b \in Buffers : Len(Log(b)') = 3 * Copies(b)'
         /\ \A b \in Buffers : \A p \in 1 .. 3 * Copies(b) : Log(b)'[p] = Log(b)[p]
         /\ Log(n)'[3 * Copies(n)' - 1] = Copy(a[n], w)
         /\ \A b \in Buffers : \A v, r \in Nat : r <= Reads(b) /\ Guarded(b, v, r) => Guarded(b, v, r)'
         /\ TransfersOK'
         /\ ContentOK'
<1>1. TypeOK /\ Lengths /\ Positions /\ TransfersOK /\ ContentOK
  BY DEF IInv
<1>2. \A b \in Buffers : /\ Copies(b) \in Nat /\ Reads(b) \in Nat /\ Reads(b)' \in Nat
                        /\ head[b] \in Nat /\ done[ReadDone(b)] \in Nat
                        /\ b \in Streams /\ Log(b) \in Seq(Entries)
                        /\ Len(Log(b)) = 3 * Copies(b)
  <2>1. \A b \in Buffers : Reads(b)' \in Nat
    BY Shapes DEF TypeOK, StreamTypeOK, Reads
  <2>2. QED
    BY <1>1, <2>1, Types DEF Lengths
<1>3. /\ Copies(n) \in Nat /\ 3 * Copies(n) \in Nat /\ Len(Log(n)) = 3 * Copies(n)
      /\ 3 * Copies(n)' - 1 = 3 * Copies(n) + 2 /\ 3 * Copies(n)' - 2 = 3 * Copies(n) + 1
      /\ 3 * Copies(n)' = 3 * Copies(n) + 3
      /\ Copies(n)' \in Nat
  BY <1>2
<1>4. /\ Len(Log(n)') = 3 * Copies(n) + 3
      /\ Log(n)'[3 * Copies(n) + 1] = Wait(ReadDone(n), Reads(n))
      /\ Log(n)'[3 * Copies(n) + 2] = Copy(a[n], w)
      /\ Log(n)'[3 * Copies(n) + 3] = Record(Copied(n), Copies(n) + 1)
      /\ \A p \in 1 .. 3 * Copies(n) : Log(n)'[p] = Log(n)[p]
  <2>1. /\ Wait(ReadDone(n), Reads(n)) \in Entries
        /\ Copy(a[n], w) \in Entries
        /\ Record(Copied(n), Copies(n) + 1) \in Entries
    BY <1>2, Shapes, EntryTypes, PipelineAssumption, SMTT(30)
  <2>2. Log(n) \in Seq(Entries) /\ Len(Log(n)) = 3 * Copies(n)
    BY <1>2
  <2>3. QED
    BY <2>1, <2>2, Extends3Effect
<1>5. \A b \in Buffers : Len(Log(b)') = 3 * Copies(b)'
  BY <1>2, <1>3, <1>4
<1>6. \A b \in Buffers : \A p \in 1 .. 3 * Copies(b) : Log(b)'[p] = Log(b)[p]
  BY <1>4
<1>7. Log(n)'[3 * Copies(n)' - 1] = Copy(a[n], w)
  BY <1>3, <1>4
<1>8. ASSUME NEW b \in Buffers, NEW j \in 1 .. Copies(b)'
      PROVE  \/ /\ j \in 1 .. Copies(b)
                /\ 3*j - 2 \in 1 .. 3 * Copies(b) /\ 3*j - 1 \in 1 .. 3 * Copies(b)
                /\ 3*j \in 1 .. 3 * Copies(b)
             \/ b = n /\ j = Copies(n) + 1
  <2>1. CASE b = n /\ j = Copies(n) + 1
    BY <2>1
  <2>2. CASE ~ (b = n /\ j = Copies(n) + 1)
    <3>1. Copies(b) \in Nat /\ j \in Nat /\ j >= 1
      BY <1>2, <1>3
    <3>2. j <= Copies(b)'
      OBVIOUS
    <3>a. CASE b # n
      BY <3>1, <3>2, <3>a
    <3>b. CASE b = n
      BY <1>3, <2>2, <3>1, <3>2, <3>b, SMTT(30)
    <3>3. QED
      BY <3>a, <3>b
  <2>3. QED
    BY <2>1, <2>2
<1>9. ASSUME NEW b \in Buffers, NEW v \in Nat, NEW r \in Nat, r <= Reads(b), Guarded(b, v, r)
      PROVE  Guarded(b, v, r)'
  <2>1. SUFFICES ASSUME NEW j \in 1 .. Copies(b)', j > v
                 PROVE  Log(b)'[3*j - 2].ver >= r
    BY DEF Guarded
  <2>2. CASE j \in 1 .. Copies(b) /\ 3*j - 2 \in 1 .. 3 * Copies(b)
    BY <1>6, <1>9, <2>1, <2>2 DEF Guarded
  <2>3. CASE b = n /\ j = Copies(n) + 1
    <3>1. 3*j - 2 = 3 * Copies(n) + 1
      BY <1>3, <2>3
    <3>2. Log(b)'[3*j - 2].ver = Reads(n)
      BY <1>4, <2>3, <3>1 DEF Wait
    <3>3. QED
      BY <1>2, <1>9, <2>3, <3>2
  <2>4. QED
    BY <1>8, <2>2, <2>3
<1>10. TransfersOK'
  <2>1. SUFFICES ASSUME NEW b \in Buffers, NEW j \in 1 .. Copies(b)'
                 PROVE  \E u \in 0 .. Reads(b)', a2 \in Allocations, w2 \in Weights :
                          /\ TransferIs(b, j, u, a2[b], w2)'
                          /\ head[b] > 3*j - 2 => done[ReadDone(b)] >= u
    BY DEF TransfersOK, gpuVars
  <2>2. CASE /\ j \in 1 .. Copies(b)
             /\ 3*j - 2 \in 1 .. 3 * Copies(b) /\ 3*j - 1 \in 1 .. 3 * Copies(b)
             /\ 3*j \in 1 .. 3 * Copies(b)
    <3>1. PICK u \in 0 .. Reads(b), a2 \in Allocations, w2 \in Weights :
                 /\ TransferIs(b, j, u, a2[b], w2)
                 /\ head[b] > 3*j - 2 => done[ReadDone(b)] >= u
      BY <1>1, <2>2 DEF TransfersOK
    <3>2. u \in 0 .. Reads(b)'
      BY <1>2
    <3>3. TransferIs(b, j, u, a2[b], w2)'
      BY <1>6, <2>2, <3>1 DEF TransferIs
    <3>4. QED
      BY <3>1, <3>2, <3>3
  <2>3. CASE b = n /\ j = Copies(n) + 1
    <3>1. 3*j - 2 = 3 * Copies(n) + 1 /\ 3*j - 1 = 3 * Copies(n) + 2 /\ 3*j = 3 * Copies(n) + 3
      BY <1>3, <2>3
    <3>2. TransferIs(n, j, Reads(n), a[n], w)'
      BY <1>4, <2>3, <3>1 DEF TransferIs
    <3>3. ~ (head[b] > 3*j - 2)
      <4>1. head[n] <= Len(Log(n)) + 1 /\ head[n] \in Nat
        BY <1>1, <1>2 DEF Positions
      <4>2. QED
        BY <1>3, <2>3, <3>1, <4>1
    <3>4. Reads(n) \in 0 .. Reads(n)'
      BY <1>2
    <3>5. QED
      BY <2>3, <3>2, <3>3, <3>4
  <2>4. QED
    BY <1>8, <2>2, <2>3
<1>11. ContentOK'
  <2>1. SUFFICES ASSUME NEW b \in Buffers, NEW j \in 1 .. Copies(b)', LastCopyIs(b, j)
                 PROVE  mem[Log(b)'[3*j - 1].mem] = Log(b)'[3*j - 1].weight
    BY DEF ContentOK, LastCopyIs, gpuVars
  <2>2. CASE j \in 1 .. Copies(b) /\ 3*j - 1 \in 1 .. 3 * Copies(b)
    BY <1>1, <1>6, <2>1, <2>2 DEF ContentOK
  <2>3. CASE b = n /\ j = Copies(n) + 1
    <3>1. head[n] <= Len(Log(n)) + 1 /\ head[n] \in Nat
      BY <1>1, <1>2 DEF Positions
    <3>2. 3*j = 3 * Copies(n) + 3 /\ head[n] <= 3 * Copies(n) + 1
      BY <1>3, <2>3, <3>1
    <3>3. ~ LastCopyIs(n, j)
      BY <1>3, <3>1, <3>2, SMTT(30) DEF LastCopyIs
    <3>4. QED
      BY <2>1, <2>3, <3>3
  <2>4. QED
    BY <1>8, <2>2, <2>3
<1>12. QED
  BY <1>5, <1>6, <1>7, <1>9, <1>10, <1>11

(* The action NewPipeline keeps the invariant.                               *)
LEMMA NewPipelineKeeps == IInv /\ NewPipeline => IInv'
<1> SUFFICES ASSUME IInv, NewPipeline PROVE IInv'
  OBVIOUS
<1>1. /\ TypeOK /\ Lengths /\ Positions /\ TransfersOK /\ CallsOK /\ RecordsOrdered
      /\ NextPrimed /\ ContentOK /\ OutputsOK
  BY DEF IInv
<1>2. TypeOK'
  BY <1>1, TypeStep DEF Next
<1>3. /\ bufs' \in Allocations /\ bufs'[0] \in Blocks
      /\ Extends3(Log(0)', Log(0), Wait(ReadDone(0), Reads(0)), Copy(bufs'[0], 0),
                  Record(Copied(0), Copies(0) + 1))
      /\ \A t \in Streams : t # 0 => Log(t)' = Log(t)
      /\ Copies(0)' = Copies(0) + 1 /\ Copies(1)' = Copies(1)
      /\ \A b \in Buffers : Reads(b)' = Reads(b)
  BY <1>1, NewPipelineEffect DEF Extends3
<1>4. UNCHANGED <<gpuVars, asked>> /\ cur_name' = 0 /\ cur_buf' = 0
  BY DEF NewPipeline
<1>5. /\ 0 \in Buffers /\ 0 \in Weights /\ Compute \in Streams /\ Compute # 0
      /\ \A b \in Buffers : b \in Streams /\ (b # 0 => b = 1)
  BY Shapes, PipelineAssumption
<1>6. /\ \A b \in Buffers : b # 0 => Log(b)' = Log(b) /\ Copies(b)' = Copies(b)
      /\ \A b \in Buffers : Reads(b) \in Nat /\ Reads(b) <= Reads(b)' /\ Copies(b) \in Nat
      /\ Log(Compute)' = Log(Compute)
  BY <1>1, <1>3, <1>5, Types
<1>7. /\ \A b \in Buffers : Len(Log(b)') = 3 * Copies(b)'
      /\ \A b \in Buffers : \A p \in 1 .. 3 * Copies(b) : Log(b)'[p] = Log(b)[p]
      /\ Log(0)'[3 * Copies(0)' - 1] = Copy(bufs'[0], 0)
      /\ \A b \in Buffers : \A v, r \in Nat : r <= Reads(b) /\ Guarded(b, v, r) => Guarded(b, v, r)'
      /\ TransfersOK' /\ ContentOK'
  BY <1>2, <1>3, <1>4, <1>5, <1>6, TransferAppended
<1>8. /\ Lengths'
  BY <1>1, <1>4, <1>6, <1>7 DEF Lengths
<1>9. \A b \in Buffers : Copies(b)' \in Nat /\ Copies(b) <= Copies(b)'
  BY <1>3, <1>5, <1>6
<1>10. Positions'
  <2>1. \A t \in Streams : head[t] \in Nat /\ head[t] <= Len(Log(t)) + 1
    BY <1>1, Types DEF Positions
  <2>2. \A b \in Buffers : Len(Log(b)) = 3 * Copies(b)
    BY <1>1 DEF Lengths
  <2>3. ASSUME NEW b \in Buffers
        PROVE  head[b] <= Len(Log(b)') + 1
    <3>1. head[b] \in Nat /\ head[b] <= 3 * Copies(b) + 1
      BY <1>5, <2>1, <2>2
    <3>2. /\ Len(Log(b)') = 3 * Copies(b)' /\ Copies(b) \in Nat /\ Copies(b)' \in Nat
          /\ Copies(b) <= Copies(b)'
      BY <1>6, <1>7, <1>9
    <3>3. QED
      BY <3>1, <3>2
  <2>4. \A t \in Streams : t \in Buffers \/ t = Compute
    BY Shapes
  <2>5. \A t \in Streams : head[t] <= Len(Log(t)') + 1
    BY <1>6, <2>1, <2>3, <2>4
  <2>6. QED
    BY <1>1, <1>3, <1>4, <2>5 DEF Positions, gpuVars
<1>11. CallsOK'
  <2>1. SUFFICES ASSUME NEW i \in 1 .. Len(asked)
                 PROVE  \E b \in Buffers, a \in Allocations :
                          \E v \in 1 .. Copies(b)', r \in 1 .. Reads(b)' :
                            /\ CallIs(i, b, v, r, a[b], asked[i])'
                            /\ Log(b)'[3*v - 1] = Copy(a[b], asked[i])
                            /\ Guarded(b, v, r)'
                            /\ head[Compute] > 3*i - 2 => done[Copied(b)] >= v
                            /\ head[Compute] > 3*i <=> done[ReadDone(b)] >= r
    <3>1. \A i, b, v, r, a : CallIs(i, b, v, r, a, asked[i])' <=> CallIs(i, b, v, r, a, asked[i])
      BY <1>4, <1>6 DEF CallIs
    <3>2. QED
      BY <1>4, <1>6, <3>1 DEF CallsOK, gpuVars, CallIs
  <2>2. PICK b \in Buffers, a \in Allocations :
           \E v \in 1 .. Copies(b), r \in 1 .. Reads(b) :
             /\ CallIs(i, b, v, r, a[b], asked[i])
             /\ Log(b)[3*v - 1] = Copy(a[b], asked[i])
             /\ Guarded(b, v, r)
             /\ head[Compute] > 3*i - 2 => done[Copied(b)] >= v
             /\ head[Compute] > 3*i <=> done[ReadDone(b)] >= r
    BY <1>1 DEF CallsOK
  <2>3. PICK v \in 1 .. Copies(b), r \in 1 .. Reads(b) :
             /\ CallIs(i, b, v, r, a[b], asked[i])
             /\ Log(b)[3*v - 1] = Copy(a[b], asked[i])
             /\ Guarded(b, v, r)
             /\ head[Compute] > 3*i - 2 => done[Copied(b)] >= v
             /\ head[Compute] > 3*i <=> done[ReadDone(b)] >= r
    BY <2>2
  <2>4. /\ v \in Nat /\ r \in Nat /\ r <= Reads(b) /\ 3*v - 1 \in 1 .. 3 * Copies(b)
        /\ v \in 1 .. Copies(b)' /\ r \in 1 .. Reads(b)'
    BY <1>3, <1>6, <1>9
  <2>5. CallIs(i, b, v, r, a[b], asked[i])'
    BY <1>4, <1>6, <2>3 DEF CallIs
  <2>6. Log(b)'[3*v - 1] = Copy(a[b], asked[i])
    BY <1>7, <2>3, <2>4
  <2>7. Guarded(b, v, r)'
    BY <1>7, <2>3, <2>4
  <2>8. QED
    BY <2>3, <2>4, <2>5, <2>6, <2>7
<1>12. RecordsOrdered'
  BY <1>1, <1>4, <1>6 DEF RecordsOrdered
<1>13. NextPrimed'
  BY <1>3, <1>4, <1>5, <1>6, <1>7 DEF NextPrimed
<1>14. OutputsOK'
  BY <1>1, <1>4 DEF OutputsOK, gpuVars
<1>15. QED
  BY <1>2, <1>7, <1>8, <1>10, <1>11, <1>12, <1>13, <1>14 DEF IInv

(* The call launches on b and transfers w into n. *)
CallOn(b, n, w) == b = cur_buf /\ n = 1 - cur_buf /\ w = NextName(cur_name)

(* The action NextGemv keeps the invariant.                                  *)
LEMMA NextGemvKeeps == IInv /\ next_gemv => IInv'
<1> SUFFICES ASSUME IInv, next_gemv, NEW b, NEW n, NEW w, CallOn(b, n, w)
             PROVE  IInv'
  BY DEF CallOn
<1>1. /\ TypeOK /\ Lengths /\ Positions /\ TransfersOK /\ CallsOK /\ RecordsOrdered
      /\ NextPrimed /\ ContentOK /\ OutputsOK
  BY DEF IInv
<1>2. TypeOK'
  BY <1>1, TypeStep DEF Next
<1>3. /\ b \in Buffers /\ n \in Buffers /\ n # b
      /\ \A c \in Buffers : c = b \/ c = n
      /\ bufs[b] \in Blocks /\ bufs[n] \in Blocks /\ w \in Weights
      /\ cur_buf' = n /\ cur_name' = w
      /\ Extends3(Log(Compute)', Log(Compute), Wait(Copied(b), Copies(b)), Gemv(bufs[b], cur_name),
                  Record(ReadDone(b), Reads(b) + 1))
      /\ Extends3(Log(n)', Log(n), Wait(ReadDone(n), Reads(n)), Copy(bufs[n], w),
                  Record(Copied(n), Copies(n) + 1))
      /\ Log(b)' = Log(b)
      /\ Copies(n)' = Copies(n) + 1 /\ Copies(b)' = Copies(b)
      /\ Reads(b)' = Reads(b) + 1 /\ Reads(n)' = Reads(n)
  BY <1>1, NextGemvEffect DEF Extends3, CallOn
<1>4. UNCHANGED gpuVars /\ bufs' = bufs /\ bufs \in Allocations /\ asked' = Append(asked, cur_name)
  BY <1>1 DEF next_gemv, TypeOK
<1>5. /\ \A c \in Buffers : /\ Copies(c) \in Nat /\ Reads(c) \in Nat
                            /\ done[ReadDone(c)] \in Nat /\ c \in Streams
      /\ Len(asked) \in Nat /\ Len(outputs) \in Nat /\ head[Compute] \in Nat
      /\ Compute \in Streams /\ Log(Compute) \in Seq(Entries)
      /\ Len(Log(Compute)) = 3 * Len(asked)
      /\ cur_name \in Weights /\ asked \in Seq(Weights) /\ cur_buf \in Buffers
  BY <1>1, Types DEF TypeOK, Lengths
<1>6. /\ \A c \in Buffers : c # n => Log(c)' = Log(c) /\ Copies(c)' = Copies(c)
      /\ \A c \in Buffers : Reads(c) <= Reads(c)' /\ Copies(c) <= Copies(c)'
      /\ \A c \in Buffers : Reads(c)' \in Nat /\ Copies(c)' \in Nat
  <2>1. /\ \A c \in Buffers : c = b \/ c = n
        /\ Log(b)' = Log(b) /\ Copies(b)' = Copies(b) /\ Copies(n)' = Copies(n) + 1
        /\ Reads(b)' = Reads(b) + 1 /\ Reads(n)' = Reads(n)
    BY <1>3
  <2>2. \A c \in Buffers : Copies(c) \in Nat /\ Reads(c) \in Nat
    BY <1>5
  <2>3. \A c \in Buffers : c # n => Log(c)' = Log(c) /\ Copies(c)' = Copies(c)
    BY <2>1
  <2>4. ASSUME NEW c \in Buffers
        PROVE  /\ Reads(c) <= Reads(c)' /\ Copies(c) <= Copies(c)'
               /\ Reads(c)' \in Nat /\ Copies(c)' \in Nat
    <3>1. CASE c = b
      BY <2>1, <2>2, <3>1
    <3>2. CASE c = n
      BY <2>1, <2>2, <3>2
    <3>3. QED
      BY <2>1, <3>1, <3>2
  <2>5. QED
    BY <2>3, <2>4
<1>7. /\ \A c \in Buffers : Len(Log(c)') = 3 * Copies(c)'
      /\ \A c \in Buffers : \A p \in 1 .. 3 * Copies(c) : Log(c)'[p] = Log(c)[p]
      /\ Log(n)'[3 * Copies(n)' - 1] = Copy(bufs[n], w)
      /\ \A c \in Buffers : \A v, r \in Nat : r <= Reads(c) /\ Guarded(c, v, r) => Guarded(c, v, r)'
      /\ TransfersOK' /\ ContentOK'
  BY <1>2, <1>3, <1>4, <1>6, TransferAppended
<1>8. /\ Len(asked)' = Len(asked) + 1
      /\ asked'[Len(asked) + 1] = cur_name
      /\ \A i \in 1 .. Len(asked) : asked'[i] = asked[i]
  BY <1>4, <1>5
<1>9. /\ Len(Log(Compute)') = 3 * Len(asked) + 3
      /\ Log(Compute)'[3 * Len(asked) + 1] = Wait(Copied(b), Copies(b))
      /\ Log(Compute)'[3 * Len(asked) + 2] = Gemv(bufs[b], cur_name)
      /\ Log(Compute)'[3 * Len(asked) + 3] = Record(ReadDone(b), Reads(b) + 1)
      /\ \A p \in 1 .. 3 * Len(asked) : Log(Compute)'[p] = Log(Compute)[p]
  <2>1. /\ Wait(Copied(b), Copies(b)) \in Entries
        /\ Gemv(bufs[b], cur_name) \in Entries
        /\ Record(ReadDone(b), Reads(b) + 1) \in Entries
    BY <1>3, <1>5, Shapes, EntryTypes
  <2>2. Log(Compute) \in Seq(Entries) /\ Len(Log(Compute)) = 3 * Len(asked)
    BY <1>5
  <2>3. Extends3(Log(Compute)', Log(Compute), Wait(Copied(b), Copies(b)), Gemv(bufs[b], cur_name),
                 Record(ReadDone(b), Reads(b) + 1))
    BY <1>3
  <2>4. /\ Len(Log(Compute)') = Len(Log(Compute)) + 3
        /\ Log(Compute)'[Len(Log(Compute)) + 1] = Wait(Copied(b), Copies(b))
        /\ Log(Compute)'[Len(Log(Compute)) + 2] = Gemv(bufs[b], cur_name)
        /\ Log(Compute)'[Len(Log(Compute)) + 3] = Record(ReadDone(b), Reads(b) + 1)
        /\ \A p \in 1 .. Len(Log(Compute)) : Log(Compute)'[p] = Log(Compute)[p]
    BY <2>1, <2>2, <2>3, Extends3Effect, SMTT(30)
  <2>5. QED
    BY <2>2, <2>4
<1>10. ASSUME NEW i \in 1 .. Len(asked)'
       PROVE  /\ i \in Nat /\ i >= 1
              /\ \/ /\ i \in 1 .. Len(asked)
                    /\ 3*i - 2 \in 1 .. 3 * Len(asked) /\ 3*i - 1 \in 1 .. 3 * Len(asked)
                    /\ 3*i \in 1 .. 3 * Len(asked)
                 \/ i = Len(asked) + 1
  BY <1>5, <1>8
<1>11. Lengths'
  <2>1. 3 * Len(asked)' = 3 * Len(asked) + 3
    BY <1>5, <1>8
  <2>2. QED
    BY <1>7, <1>9, <2>1 DEF Lengths
<1>12. Positions'
  <2>1. \A t \in Streams : head[t] \in Nat /\ head[t] <= Len(Log(t)) + 1
    BY <1>1, Types DEF Positions
  <2>2. \A c \in Buffers : Len(Log(c)) = 3 * Copies(c)
    BY <1>1 DEF Lengths
  <2>3. ASSUME NEW c \in Buffers
        PROVE  head[c] <= Len(Log(c)') + 1
    <3>1. head[c] \in Nat /\ head[c] <= 3 * Copies(c) + 1
      BY <1>5, <2>1, <2>2
    <3>2. /\ Len(Log(c)') = 3 * Copies(c)' /\ Copies(c) \in Nat /\ Copies(c)' \in Nat
          /\ Copies(c) <= Copies(c)'
      BY <1>5, <1>6, <1>7
    <3>3. QED
      BY <3>1, <3>2
  <2>4. head[Compute] <= Len(Log(Compute)') + 1
    <3>1. head[Compute] <= 3 * Len(asked) + 1
      BY <1>5, <2>1
    <3>2. QED
      BY <1>5, <1>9, <3>1
  <2>5. \A t \in Streams : t \in Buffers \/ t = Compute
    BY Shapes
  <2>6. \A t \in Streams : head[t] <= Len(Log(t)') + 1
    BY <2>3, <2>4, <2>5
  <2>7. ASSUME NEW c \in Buffers
        PROVE  done[ReadDone(c)] <= Reads(c)'
    <3>1. done[ReadDone(c)] <= Reads(c) /\ Reads(c) <= Reads(c)'
      BY <1>1, <1>6 DEF Positions
    <3>2. done[ReadDone(c)] \in Nat /\ Reads(c) \in Nat /\ Reads(c)' \in Nat
      BY <1>5, <1>6
    <3>3. QED
      BY <3>1, <3>2
  <2>8. QED
    BY <1>1, <1>4, <2>6, <2>7 DEF Positions, gpuVars
<1>13. CallsOK'
  <2>1. SUFFICES ASSUME NEW i \in 1 .. Len(asked)'
                 PROVE  \E c \in Buffers, a \in Allocations :
                          \E v \in 1 .. Copies(c)', r \in 1 .. Reads(c)' :
                            /\ CallIs(i, c, v, r, a[c], asked[i])'
                            /\ Log(c)'[3*v - 1] = Copy(a[c], asked'[i])
                            /\ Guarded(c, v, r)'
                            /\ head[Compute] > 3*i - 2 => done[Copied(c)] >= v
                            /\ head[Compute] > 3*i <=> done[ReadDone(c)] >= r
    BY <1>4, SMTT(30) DEF CallsOK, gpuVars
  <2>2. CASE i \in 1 .. Len(asked)
    <3>1. PICK c \in Buffers, a \in Allocations :
             \E v \in 1 .. Copies(c), r \in 1 .. Reads(c) :
               /\ CallIs(i, c, v, r, a[c], asked[i])
               /\ Log(c)[3*v - 1] = Copy(a[c], asked[i])
               /\ Guarded(c, v, r)
               /\ head[Compute] > 3*i - 2 => done[Copied(c)] >= v
               /\ head[Compute] > 3*i <=> done[ReadDone(c)] >= r
      BY <1>1, <2>2 DEF CallsOK
    <3>2. PICK v \in 1 .. Copies(c), r \in 1 .. Reads(c) :
               /\ CallIs(i, c, v, r, a[c], asked[i])
               /\ Log(c)[3*v - 1] = Copy(a[c], asked[i])
               /\ Guarded(c, v, r)
               /\ head[Compute] > 3*i - 2 => done[Copied(c)] >= v
               /\ head[Compute] > 3*i <=> done[ReadDone(c)] >= r
      BY <3>1
    <3>3. /\ v \in Nat /\ r \in Nat /\ r <= Reads(c) /\ 3*v - 1 \in 1 .. 3 * Copies(c)
          /\ v \in 1 .. Copies(c)' /\ r \in 1 .. Reads(c)'
      BY <1>5, <1>6, SMTT(30)
    <3>4. CallIs(i, c, v, r, a[c], asked[i])'
      <4>1. /\ Log(Compute)[3*i - 2] = Wait(Copied(c), v)
            /\ Log(Compute)[3*i - 1] = Gemv(a[c], asked[i])
            /\ Log(Compute)[3*i] = Record(ReadDone(c), r)
        BY <3>2 DEF CallIs
      <4>2. /\ 3*i - 2 \in 1 .. 3 * Len(asked) /\ 3*i - 1 \in 1 .. 3 * Len(asked)
            /\ 3*i \in 1 .. 3 * Len(asked)
        BY <1>5, <2>2
      <4>3. /\ Log(Compute)'[3*i - 2] = Wait(Copied(c), v)
            /\ Log(Compute)'[3*i - 1] = Gemv(a[c], asked'[i])
            /\ Log(Compute)'[3*i] = Record(ReadDone(c), r)
        BY <1>8, <1>9, <2>2, <4>1, <4>2
      <4>4. QED
        BY <4>3 DEF CallIs
    <3>5. Log(c)'[3*v - 1] = Copy(a[c], asked'[i])
      BY <1>7, <1>8, <2>2, <3>2, <3>3
    <3>6. Guarded(c, v, r)'
      BY <1>7, <3>2, <3>3
    <3>7. QED
      BY <3>2, <3>3, <3>4, <3>5, <3>6
  <2>3. CASE i = Len(asked) + 1
    <3>1. 3*i - 2 = 3 * Len(asked) + 1 /\ 3*i - 1 = 3 * Len(asked) + 2 /\ 3*i = 3 * Len(asked) + 3
      BY <1>5, <2>3
    <3>2. ASSUME NEW v, v = Copies(b), NEW r, r = Reads(b) + 1
          PROVE  CallIs(i, b, v, r, bufs[b], asked[i])'
      <4>1. asked'[i] = cur_name /\ bufs' = bufs
        BY <1>4, <1>8, <2>3
      <4>2. /\ Log(Compute)'[3*i - 2] = Wait(Copied(b), v)
            /\ Log(Compute)'[3*i - 1] = Gemv(bufs[b], cur_name)
            /\ Log(Compute)'[3*i] = Record(ReadDone(b), r)
        BY <1>9, <3>1, <3>2
      <4>3. QED
        BY <4>1, <4>2 DEF CallIs
    <3>3. Copies(b) > 0 /\ Log(b)[3 * Copies(b) - 1] = Copy(bufs[b], cur_name)
      BY <1>1 DEF NextPrimed, CallOn
    <3>4. Log(b)'[3 * Copies(b) - 1] = Copy(bufs[b], asked'[i])
      BY <1>3, <1>8, <2>3, <3>3
    <3>5. ASSUME NEW v, v = Copies(b), NEW r
          PROVE  Guarded(b, v, r)'
      BY <1>3, <1>5, <3>5 DEF Guarded
    <3>6. head[Compute] <= 3 * Len(asked) + 1
      BY <1>1, <1>5 DEF Positions
    <3>7. ~ (head[Compute] > 3*i - 2) /\ ~ (head[Compute] > 3*i)
      BY <1>5, <3>1, <3>6
    <3>8. ~ (done[ReadDone(b)] >= Reads(b) + 1)
      <4>1. done[ReadDone(b)] <= Reads(b)
        BY <1>1, <1>3 DEF Positions
      <4>2. QED
        BY <1>3, <1>5, <4>1
    <3>9. Copies(b) \in 1 .. Copies(b)' /\ Reads(b) + 1 \in 1 .. Reads(b)'
      BY <1>3, <1>5, <3>3, SMTT(30)
    <3>10. PICK v \in 1 .. Copies(b)', r \in 1 .. Reads(b)' : v = Copies(b) /\ r = Reads(b) + 1
      BY <3>9
    <3>11. /\ CallIs(i, b, v, r, bufs[b], asked[i])'
           /\ Log(b)'[3*v - 1] = Copy(bufs[b], asked'[i])
           /\ Guarded(b, v, r)'
           /\ ~ (done[ReadDone(b)] >= r)
      BY <3>2, <3>4, <3>5, <3>8, <3>10
    <3>12. PICK a \in Allocations : a = bufs
      BY <1>4
    <3>13. CallIs(i, b, v, r, a[b], asked[i])' /\ Log(b)'[3*v - 1] = Copy(a[b], asked'[i])
      BY <1>4, <3>11, <3>12 DEF CallIs
    <3>14. QED
      BY <1>3, <3>7, <3>11, <3>13
  <2>4. QED
    BY <1>10, <2>2, <2>3
<1>14. RecordsOrdered'
  <2>1. SUFFICES ASSUME NEW i \in 1 .. Len(asked)', NEW k \in 1 .. Len(asked)', i < k,
                        Log(Compute)'[3*i].event = Log(Compute)'[3*k].event
                 PROVE  Log(Compute)'[3*i].ver < Log(Compute)'[3*k].ver
    BY DEF RecordsOrdered
  <2>2. /\ i \in 1 .. Len(asked) /\ 3*i \in 1 .. 3 * Len(asked)
    BY <1>5, <1>8, <2>1
  <2>3. Log(Compute)'[3*i] = Log(Compute)[3*i]
    BY <1>9, <2>2
  <2>4. CASE k \in 1 .. Len(asked) /\ 3*k \in 1 .. 3 * Len(asked)
    <3>1. Log(Compute)'[3*k] = Log(Compute)[3*k]
      BY <1>9, <2>4
    <3>2. QED
      BY <1>1, <2>1, <2>2, <2>3, <2>4, <3>1 DEF RecordsOrdered
  <2>5. CASE k = Len(asked) + 1
    <3>1. Log(Compute)'[3*k] = Record(ReadDone(b), Reads(b) + 1)
      BY <1>5, <1>9, <2>5
    <3>2. PICK c \in Buffers, a \in Allocations :
             \E v \in 1 .. Copies(c), r \in 1 .. Reads(c) : CallIs(i, c, v, r, a[c], asked[i])
      BY <1>1, <2>2 DEF CallsOK
    <3>3. PICK v \in 1 .. Copies(c), r \in 1 .. Reads(c) : CallIs(i, c, v, r, a[c], asked[i])
      BY <3>2
    <3>4. Log(Compute)[3*i].event = ReadDone(c) /\ Log(Compute)[3*i].ver = r
      BY <3>3 DEF CallIs, Record
    <3>5. Log(Compute)'[3*k].event = ReadDone(b) /\ Log(Compute)'[3*k].ver = Reads(b) + 1
      BY <3>1 DEF Record
    <3>6. ReadDone(c) = ReadDone(b)
      BY <2>1, <2>3, <3>4, <3>5
    <3>7. c = b
      BY <1>3, <3>6, Shapes
    <3>8. r < Reads(b) + 1
      BY <1>5, <3>7
    <3>9. QED
      BY <2>3, <3>4, <3>5, <3>8
  <2>6. QED
    BY <1>10, <2>4, <2>5
<1>15. NextPrimed'
  <2>1. Copies(n)' > 0
    BY <1>3, <1>5
  <2>2. \A c : c = n => Copies(c)' > 0 /\ Log(c)'[3 * Copies(c)' - 1] = Copy(bufs[n], w)
    BY <1>7, <2>1
  <2>3. cur_buf' = n /\ bufs' = bufs /\ cur_name' = w
    BY <1>3, <1>4
  <2>4. QED
    BY <2>2, <2>3 DEF NextPrimed, Copies, Log
<1>16. OutputsOK'
  <2>1. Len(outputs) <= Len(asked)
    <3>1. 3 * Len(outputs) <= head[Compute] /\ head[Compute] <= 3 * Len(asked) + 1
      BY <1>1, <1>5 DEF Positions
    <3>2. QED
      BY <1>5, <3>1
  <2>2. ASSUME NEW k \in 1 .. Len(outputs)
        PROVE  outputs[k] = asked'[k]
    <3>1. k \in 1 .. Len(asked)
      BY <1>5, <2>1
    <3>2. QED
      BY <1>1, <1>8, <3>1 DEF OutputsOK
  <2>3. QED
    BY <1>4, <2>2 DEF OutputsOK, gpuVars
<1>17. QED
  BY <1>2, <1>7, <1>11, <1>12, <1>13, <1>14, <1>15, <1>16 DEF IInv

-----------------------------------------------------------------------------
(* The results.                                                            *)

(* IInv is inductive when a block always serves the same buffer index.     *)
LEMMA InvStep == StableAllocations /\ IInv /\ [Next]_vars => IInv'
<1> SUFFICES ASSUME StableAllocations, IInv, [Next]_vars PROVE IInv'
  OBVIOUS
<1>1. CASE NewPipeline
  BY <1>1, NewPipelineKeeps
<1>2. CASE next_gemv
  BY <1>2, NextGemvKeeps
<1>3. CASE \E s \in Streams : GpuStep(s)
  <2>1. PICK s \in Streams : GpuStep(s)
    BY <1>3
  <2>2. CASE s = Compute
    BY <2>1, <2>2, CallStepKeeps
  <2>3. CASE s \in Buffers
    BY <2>1, <2>3, TransferKeeps
  <2>4. QED
    BY <2>2, <2>3, Shapes
<1>4. CASE UNCHANGED vars
  <2>1. TypeOK'
    BY <1>4, TypeStep DEF IInv
  <2>2. /\ Lengths' <=> Lengths
        /\ Positions' <=> Positions
        /\ TransfersOK' <=> TransfersOK
        /\ RecordsOrdered' <=> RecordsOrdered
        /\ NextPrimed' <=> NextPrimed
        /\ OutputsOK' <=> OutputsOK
    BY <1>4 DEF vars, gpuVars, hostVars, Lengths, Positions, TransfersOK, TransferIs,
                RecordsOrdered, NextPrimed, OutputsOK, Log, Copies, Reads
  <2>3. CallsOK' <=> CallsOK
    BY <1>4 DEF vars, gpuVars, hostVars, CallsOK, CallIs, Guarded, Log, Copies, Reads
  <2>4. ContentOK' <=> ContentOK
    BY <1>4 DEF vars, gpuVars, hostVars, ContentOK, LastCopyIs, Log, Copies
  <2>5. QED
    BY <2>1, <2>2, <2>3, <2>4 DEF IInv
<1>5. QED
  BY <1>1, <1>2, <1>3, <1>4 DEF Next

(* The invariant holds of every behaviour.                                   *)
LEMMA Invariance == ASSUME StableAllocations PROVE Spec => []IInv
<1>1. IInv /\ [Next]_vars => IInv'
  BY InvStep
<1>2. QED
  BY InvInit, <1>1, PTL DEF Spec

(* For every number of weights, calls and pipelines, and any stable         *)
(* placements: no transfer writes a block while a GEMV reads it or another  *)
(* transfer writes it, which is what prefetch's wait on read_done_events    *)
(* is for (stream_manager.py:40-60).                                        *)
THEOREM NoConflict == ASSUME StableAllocations PROVE Spec => []NoTransferConflict
<1>1. IInv => NoTransferConflict
  BY ConflictFree
<1>2. QED
  BY Invariance, <1>1, PTL

(* For every number of weights, calls and pipelines, and any stable         *)
(* placements: a GEMV under way reads a whole copy of the weight its call   *)
(* named (next_gemv, generate.py:116-138).                                  *)
THEOREM ReadsNamedWeight == ASSUME StableAllocations PROVE Spec => []GemvReadsItsWeight
<1>1. QED
  BY Invariance, ReadsIts, PTL

(* Every step is one of WeightStream or a stutter.                           *)
LEMMA StepRefines == StableAllocations /\ IInv /\ [Next]_vars => [Abstract!Next]_(Abstract!vars)
<1> SUFFICES ASSUME IInv, [Next]_vars PROVE [Abstract!Next]_(Abstract!vars)
  OBVIOUS
<1>1. CASE NewPipeline \/ UNCHANGED vars
  BY <1>1 DEF NewPipeline, vars, gpuVars, hostVars, Abstract!vars
<1>2. CASE next_gemv
  <2>1. cur_name \in Weights
    BY DEF IInv, TypeOK
  <2>2. asked' = Append(asked, cur_name) /\ outputs' = outputs
    BY <1>2 DEF next_gemv, gpuVars
  <2>3. QED
    BY <2>1, <2>2 DEF Abstract!Next, Abstract!Ask
<1>3. CASE \E s \in Buffers : GpuStep(s)
  BY <1>3, TransferEffect DEF hostVars, Abstract!vars
<1>4. CASE GpuStep(Compute)
  <2>1. PICK i \in 1 .. Len(asked), b \in Buffers, a \in Allocations :
               \E v \in 1 .. Copies(b), r \in 1 .. Reads(b) :
                 /\ AtCall(i, b, v, r, a[b])
                 /\ \/ CallWaitPassed(i, b, v)
                    \/ GemvStarted(i)
                    \/ GemvFinished(i)
                    \/ ReadRecorded(i, b, r)
    BY <1>4, CallStepEffect
  <2>2. asked' = asked
    BY <1>4, CallStepEffect DEF hostVars
  <2>3. CASE outputs' = outputs
    BY <2>2, <2>3 DEF Abstract!vars
  <2>4. CASE GemvFinished(i)
    <3>1. outputs' = Append(outputs, asked[i]) /\ i = Len(outputs) + 1
      BY <2>1, <2>4 DEF GemvFinished, AtCall
    <3>2. Len(outputs) < Len(asked)
      <4>1. Len(outputs) \in Nat /\ Len(asked) \in Nat
        BY Types DEF IInv
      <4>2. QED
        BY <2>1, <3>1, <4>1
    <3>3. QED
      BY <2>2, <3>1, <3>2 DEF Abstract!Next, Abstract!Complete
  <2>5. QED
    BY <2>1, <2>3, <2>4 DEF CallWaitPassed, GemvStarted, ReadRecorded
<1>5. QED
  BY <1>1, <1>2, <1>3, <1>4, Shapes DEF Next

(* The double-buffered pipeline implements the safety part of WeightStream: *)
(* the finished GEMVs read the weights the calls named, in call order, none *)
(* skipped or repeated.                                                     *)
THEOREM ImplementsWeightStream ==
  ASSUME StableAllocations
  PROVE  Spec => Abstract!Init /\ [][Abstract!Next]_(Abstract!vars)
<1>1. Init => Abstract!Init
  BY DEF Init, GpuInit, Abstract!Init
<1>2. StableAllocations
  OBVIOUS
<1>3. QED
  BY Invariance, StepRefines, <1>1, <1>2, PTL DEF Spec

-----------------------------------------------------------------------------
(* Overlap.  More theorems, from the invariant above and what the logs say   *)
(* of the calls of the current pipeline: double buffering does overlap, the  *)
(* next weight is in place once the device is idle, and a dropped pipeline   *)
(* leaves nothing behind once its successor computes.                        *)

(* Each version of a read-done event is recorded by a call. *)
EveryReadRecorded ==
  \A b \in Buffers : \A r \in 1 .. Reads(b) :
    \E i \in 1 .. Len(asked) : Log(Compute)[3*i] = Record(ReadDone(b), r)

(* The call issued last recorded the last version of its buffer's event, and *)
(* no transfer into that buffer waits for it yet.                            *)
LastCall ==
  calls > 0 =>
    /\ Log(Compute)[3 * Len(asked)] = Record(ReadDone(1 - cur_buf), Reads(1 - cur_buf))
    /\ \A j \in 1 .. Copies(1 - cur_buf) :
         Log(1 - cur_buf)[3*j - 2].ver < Reads(1 - cur_buf)

(* Calls take the buffers in turn; the first two wait for the first transfer *)
(* the pipeline issued into their buffer.                                    *)
OldCopies(b) == Copies(b) - Transfers(b)

FirstCalls ==
  /\ calls <= Len(asked) /\ cur_buf = calls % 2
  /\ \A b \in Buffers : OldCopies(b) >= 0
  /\ calls > 0 => Log(Compute)[3 * (Len(asked) - calls) + 1] = Wait(Copied(0), OldCopies(0) + 1)
  /\ calls > 1 => Log(Compute)[3 * (Len(asked) - calls) + 4] = Wait(Copied(1), OldCopies(1) + 1)

OInv == EveryReadRecorded /\ LastCall /\ FirstCalls

-----------------------------------------------------------------------------
(* Counting up by one, the parity flips and one of the halves grows.         *)
LEMMA Halves ==
  ASSUME NEW c \in Nat
  PROVE  /\ (c + 1) % 2 = 1 - (c % 2)
         /\ c % 2 = 0 => /\ ((c + 1) + 2) \div 2 = (c + 2) \div 2
                         /\ ((c + 1) + 1) \div 2 = (c + 1) \div 2 + 1
         /\ c % 2 = 1 => /\ ((c + 1) + 2) \div 2 = (c + 2) \div 2 + 1
                         /\ ((c + 1) + 1) \div 2 = (c + 1) \div 2
<1>1. c % 2 \in {0, 1} /\ c \div 2 \in Nat /\ c = 2 * (c \div 2) + (c % 2)
  OBVIOUS
<1>2. CASE c % 2 = 0
  BY <1>1, <1>2
<1>3. CASE c % 2 = 1
  BY <1>1, <1>3
<1>4. QED
  BY <1>1, <1>2, <1>3

(* The invariant holds at the start.                                          *)
LEMMA OInvInit == Init => OInv
<1> SUFFICES ASSUME Init PROVE OInv
  OBVIOUS
<1>1. TypeOK /\ Lengths
  BY InvInit DEF IInv
<1>2. /\ calls = 0 /\ asked = <<>> /\ cur_buf = 0 /\ bufs[0] \in Blocks /\ bufs \in Allocations
      /\ 0 \in Buffers /\ 0 \in Weights /\ 0 \in Streams
  BY Shapes, PipelineAssumption DEF Init
<1>3. NothingIssued \in IssuedType
  BY DEF NothingIssued, IssuedType
<1>4. issued.recorded = [NothingIssued.recorded EXCEPT ![Copied(0)] = @ + 1]
  BY <1>2, <1>3, PrefetchEffect DEF Init, prefetch_into
<1>5. Copies(0) = 1 /\ Copies(1) = 0 /\ \A b \in Buffers : Reads(b) = 0
  BY <1>4, Shapes DEF NothingIssued, Copies, Reads
<1>6. EveryReadRecorded /\ LastCall
  BY <1>2, <1>5 DEF EveryReadRecorded, LastCall
<1>7. FirstCalls
  BY <1>2, <1>5, Shapes DEF FirstCalls, OldCopies, Transfers
<1>8. QED
  BY <1>6, <1>7 DEF OInv

(* The construction of a pipeline: nothing is called on it yet. *)
LEMMA NewPipelineKeepsO == IInv /\ OInv /\ NewPipeline => OInv'
<1> SUFFICES ASSUME IInv, OInv, NewPipeline PROVE OInv'
  OBVIOUS
<1>1. /\ \A t \in Streams : t # 0 => Log(t)' = Log(t)
      /\ Copies(0)' = Copies(0) + 1 /\ Copies(1)' = Copies(1)
      /\ \A b \in Buffers : Reads(b)' = Reads(b)
  BY NewPipelineEffect DEF IInv
<1>2. calls' = 0 /\ cur_buf' = 0 /\ asked' = asked
  BY DEF NewPipeline
<1>3. /\ Len(asked) \in Nat /\ Compute \in Streams /\ Compute # 0
      /\ Copies(0) \in Nat /\ Copies(1) \in Nat /\ Buffers = {0, 1}
  BY Types, Shapes DEF IInv
<1>4. EveryReadRecorded'
  BY <1>1, <1>2, <1>3 DEF OInv, EveryReadRecorded
<1>5. LastCall'
  BY <1>2 DEF LastCall
<1>6. FirstCalls'
  <2>1. OldCopies(0)' = Copies(0) /\ OldCopies(1)' = Copies(1)
    BY <1>1, <1>2, <1>3 DEF OldCopies, Transfers
  <2>2. QED
    BY <2>1, <1>2, <1>3 DEF FirstCalls
<1>7. QED
  BY <1>4, <1>5, <1>6 DEF OInv

(* next_gemv keeps what the overlap rests on.                                *)
LEMMA NextGemvKeepsO == IInv /\ OInv /\ next_gemv => OInv'
<1> SUFFICES ASSUME IInv, OInv, next_gemv, NEW b, b = cur_buf, NEW n, n = 1 - cur_buf
             PROVE  OInv'
  OBVIOUS
<1>1. /\ b \in Buffers /\ n \in Buffers /\ n # b
      /\ \A c \in Buffers : c = b \/ c = n
      /\ cur_buf' = n
      /\ Extends3(Log(Compute)', Log(Compute), Wait(Copied(b), Copies(b)), Gemv(bufs[b], cur_name),
                  Record(ReadDone(b), Reads(b) + 1))
      /\ Log(b)' = Log(b)
      /\ Copies(n)' = Copies(n) + 1 /\ Copies(b)' = Copies(b)
      /\ Reads(b)' = Reads(b) + 1 /\ Reads(n)' = Reads(n)
      /\ bufs[b] \in Blocks
  BY NextGemvEffect DEF IInv, Extends3
<1>2. /\ calls' = calls + 1 /\ asked' = Append(asked, cur_name)
      /\ asked \in Seq(Weights) /\ cur_name \in Weights /\ calls \in Nat
  BY DEF next_gemv, IInv, TypeOK
<1>3. /\ Len(asked) \in Nat /\ Len(asked)' = Len(asked) + 1
      /\ \A c \in Buffers : Copies(c) \in Nat /\ Reads(c) \in Nat
      /\ Log(Compute) \in Seq(Entries) /\ Len(Log(Compute)) = 3 * Len(asked)
  BY <1>2, Types DEF IInv, Lengths
<1>4. /\ Wait(Copied(b), Copies(b)) \in Entries /\ Gemv(bufs[b], cur_name) \in Entries
      /\ Record(ReadDone(b), Reads(b) + 1) \in Entries
  BY <1>1, <1>2, <1>3, EntryTypes, Shapes
<1>5. /\ Log(Compute)'[3 * Len(asked) + 1] = Wait(Copied(b), Copies(b))
      /\ Log(Compute)'[3 * Len(asked) + 3] = Record(ReadDone(b), Reads(b) + 1)
      /\ \A p \in 1 .. 3 * Len(asked) : Log(Compute)'[p] = Log(Compute)[p]
  <2>1. Log(Compute) \in Seq(Entries) /\ Len(Log(Compute)) = 3 * Len(asked)
    BY <1>3
  <2>2. Extends3(Log(Compute)', Log(Compute), Wait(Copied(b), Copies(b)), Gemv(bufs[b], cur_name),
                 Record(ReadDone(b), Reads(b) + 1))
    BY <1>1
  <2>3. /\ Len(Log(Compute)') = Len(Log(Compute)) + 3
        /\ Log(Compute)'[Len(Log(Compute)) + 1] = Wait(Copied(b), Copies(b))
        /\ Log(Compute)'[Len(Log(Compute)) + 2] = Gemv(bufs[b], cur_name)
        /\ Log(Compute)'[Len(Log(Compute)) + 3] = Record(ReadDone(b), Reads(b) + 1)
        /\ \A p \in 1 .. Len(Log(Compute)) : Log(Compute)'[p] = Log(Compute)[p]
    BY <1>4, <2>1, <2>2, Extends3Effect, SMTT(30)
  <2>4. QED
    BY <2>1, <2>3
<1>6. EveryReadRecorded'
  <2> SUFFICES ASSUME NEW c \in Buffers, NEW r \in 1 .. Reads(c)'
               PROVE  \E i \in 1 .. Len(asked)' : Log(Compute)'[3*i] = Record(ReadDone(c), r)
    BY DEF EveryReadRecorded
  <2>1. CASE r \in 1 .. Reads(c)
    <3>1. PICK i \in 1 .. Len(asked) : Log(Compute)[3*i] = Record(ReadDone(c), r)
      BY <2>1 DEF OInv, EveryReadRecorded
    <3>2. 3*i \in 1 .. 3 * Len(asked) /\ i \in 1 .. Len(asked)'
      BY <1>3
    <3>3. QED
      BY <3>1, <3>2, <1>5
  <2>2. CASE c = b /\ r = Reads(b) + 1
    <3>1. 3 * (Len(asked) + 1) = 3 * Len(asked) + 3 /\ Len(asked) + 1 \in 1 .. Len(asked)'
      BY <1>3
    <3>2. QED
      BY <3>1, <2>2, <1>5
  <2>3. QED
    BY <2>1, <2>2, <1>1, <1>3
<1>7. LastCall'
  <2>1. 1 - cur_buf' = b
    BY <1>1, Shapes
  <2>2. 3 * Len(asked)' = 3 * Len(asked) + 3
    BY <1>3
  <2>3. \A j \in 1 .. Copies(b) : Log(b)[3*j - 2].ver < Reads(b) + 1
    <3> SUFFICES ASSUME NEW j \in 1 .. Copies(b)
                 PROVE  Log(b)[3*j - 2].ver < Reads(b) + 1
      OBVIOUS
    <3>1. PICK u \in 0 .. Reads(b), a \in Allocations, w \in Weights : TransferIs(b, j, u, a[b], w)
      BY <1>1 DEF IInv, TransfersOK
    <3>2. Log(b)[3*j - 2].ver = u
      BY <3>1 DEF TransferIs, Wait
    <3>3. QED
      BY <3>2, <1>1, <1>3
  <2>4. \A c : c = b =>
          /\ Log(Compute)'[3 * Len(asked)'] = Record(ReadDone(c), Reads(c)')
          /\ \A j \in 1 .. Copies(c)' : Log(c)'[3*j - 2].ver < Reads(c)'
    BY <2>2, <2>3, <1>1, <1>5
  <2>5. QED
    BY <2>1, <2>4 DEF LastCall, Log, Copies, Reads
<1>8. FirstCalls'
  <2>1. calls' <= Len(asked)' /\ cur_buf' = calls' % 2
    <3>1. calls <= Len(asked) /\ cur_buf = calls % 2
      BY DEF OInv, FirstCalls
    <3>2. (calls + 1) % 2 = 1 - (calls % 2)
      BY <1>2, Halves
    <3>3. QED
      BY <3>1, <3>2, <1>1, <1>2, <1>3
  <2>2. OldCopies(0)' = OldCopies(0) /\ OldCopies(1)' = OldCopies(1)
    <3>1. CASE b = 0
      <4>1. calls % 2 = 0 /\ n = 1
        BY <3>1 DEF OInv, FirstCalls
      <4>2. (calls' + 2) \div 2 = (calls + 2) \div 2 /\ (calls' + 1) \div 2 = (calls + 1) \div 2 + 1
        BY <4>1, <1>2, Halves
      <4>3. QED
        <5>1. Copies(0)' = Copies(0) /\ Copies(1)' = Copies(1) + 1 /\ Copies(1) \in Nat
          BY <3>1, <4>1, <1>1, <1>3
        <5>2. Transfers(0)' = Transfers(0) /\ Transfers(1)' = Transfers(1) + 1 /\ Transfers(1) \in Int
          BY <4>2, <1>2 DEF Transfers
        <5>3. QED
          BY <5>1, <5>2 DEF OldCopies
    <3>2. CASE b = 1
      <4>1. calls % 2 = 1 /\ n = 0
        BY <3>2 DEF OInv, FirstCalls
      <4>2. (calls' + 2) \div 2 = (calls + 2) \div 2 + 1 /\ (calls' + 1) \div 2 = (calls + 1) \div 2
        BY <4>1, <1>2, Halves
      <4>3. QED
        <5>1. Copies(0)' = Copies(0) + 1 /\ Copies(1)' = Copies(1) /\ Copies(0) \in Nat
          BY <3>2, <4>1, <1>1, <1>3
        <5>2. Transfers(0)' = Transfers(0) + 1 /\ Transfers(1)' = Transfers(1) /\ Transfers(0) \in Int
          BY <4>2, <1>2 DEF Transfers
        <5>3. QED
          BY <5>1, <5>2 DEF OldCopies
    <3>3. QED
      BY <3>1, <3>2, <1>1, Shapes
  <2>3. 3 * (Len(asked)' - calls') = 3 * (Len(asked) - calls) /\ Len(asked) - calls \in Nat
    BY <1>2, <1>3 DEF OInv, FirstCalls
  <2>4. Log(Compute)'[3 * (Len(asked) - calls) + 1] = Wait(Copied(0), OldCopies(0) + 1)
    <3>1. CASE calls = 0
      <4>1. b = 0 /\ OldCopies(0) + 1 = Copies(0)
        BY <3>1, <1>1, <1>3 DEF OInv, FirstCalls, OldCopies, Transfers
      <4>2. QED
        BY <3>1, <4>1, <1>3, <1>5
    <3>2. CASE calls > 0
      <4>1. 3 * (Len(asked) - calls) + 1 \in 1 .. 3 * Len(asked)
        BY <3>2, <2>3, <1>2, <1>3
      <4>2. QED
        BY <3>2, <4>1, <1>5 DEF OInv, FirstCalls
    <3>3. QED
      BY <3>1, <3>2, <1>2
  <2>5. calls > 0 => Log(Compute)'[3 * (Len(asked) - calls) + 4] = Wait(Copied(1), OldCopies(1) + 1)
    <3>1. CASE calls = 1
      <4>1. b = 1 /\ OldCopies(1) + 1 = Copies(1)
        BY <3>1, <1>1, <1>3 DEF OInv, FirstCalls, OldCopies, Transfers
      <4>2. 3 * (Len(asked) - calls) + 4 = 3 * Len(asked) + 1
        BY <3>1, <1>3
      <4>3. QED
        BY <4>1, <4>2, <1>5
    <3>2. CASE calls > 1
      <4>1. 3 * (Len(asked) - calls) + 4 \in 1 .. 3 * Len(asked)
        BY <3>2, <2>3, <1>2, <1>3
      <4>2. QED
        BY <3>2, <4>1, <1>5 DEF OInv, FirstCalls
    <3>3. QED
      BY <3>1, <3>2, <1>2
  <2>6. \A c \in Buffers : OldCopies(c)' >= 0
    BY <2>2, Shapes DEF OInv, FirstCalls
  <2>7. QED
    BY <2>1, <2>2, <2>3, <2>4, <2>5, <2>6, <1>2 DEF FirstCalls
<1>9. QED
  BY <1>6, <1>7, <1>8 DEF OInv

(* Every step keeps the invariant.                                           *)
LEMMA OInvStep == IInv /\ OInv /\ [Next]_vars => OInv'
<1> SUFFICES ASSUME IInv, OInv, [Next]_vars PROVE OInv'
  OBVIOUS
<1>1. CASE NewPipeline
  BY <1>1, NewPipelineKeepsO
<1>2. CASE next_gemv
  BY <1>2, NextGemvKeepsO
<1>3. CASE (\E s \in Streams : GpuStep(s)) \/ UNCHANGED vars
  <2>1. UNCHANGED <<issued, asked, calls, cur_buf>>
    BY <1>3 DEF GpuStep, StreamStep, hostVars, vars
  <2>2. QED
    BY <2>1 DEF OInv, EveryReadRecorded, LastCall, FirstCalls, OldCopies, Transfers, Log, Copies, Reads
<1>4. QED
  BY <1>1, <1>2, <1>3 DEF Next

(* The strengthened invariant holds of every behaviour.                      *)
LEMMA OInvariance == ASSUME StableAllocations PROVE Spec => [](IInv /\ OInv)
<1>1. OInv /\ IInv /\ [Next]_vars => OInv'
  BY OInvStep
<1>2. QED
  BY Invariance, OInvInit, <1>1, PTL DEF Spec

-----------------------------------------------------------------------------
(* With an idle device the buffer the next call reads holds the weight it    *)
(* names, for any number of weights, calls and pipelines.                    *)
THEOREM IdleIsPrimed == ASSUME StableAllocations PROVE Spec => []PrimedAhead
<1>1. IInv => PrimedAhead
  <2> SUFFICES ASSUME IInv, Quiescent PROVE mem[bufs[cur_buf]] = cur_name
    BY DEF PrimedAhead
  <2>1. cur_buf \in Buffers /\ cur_buf \in Streams /\ Copies(cur_buf) \in Nat
    BY Types DEF IInv, TypeOK
  <2>2. head[cur_buf] = 3 * Copies(cur_buf) + 1
    <3>1. head[cur_buf] \in Nat /\ Len(Log(cur_buf)) = 3 * Copies(cur_buf)
          /\ head[cur_buf] <= Len(Log(cur_buf)) + 1
      BY <2>1, Types DEF IInv, Lengths, Positions
    <3>2. ~ (head[cur_buf] <= Len(Log(cur_buf)))
      BY <2>1 DEF Quiescent, Pending, Log
    <3>3. QED
      BY <2>1, <3>1, <3>2
  <2>3. /\ Copies(cur_buf) \in 1 .. Copies(cur_buf)
        /\ Log(cur_buf)[3 * Copies(cur_buf) - 1] = Copy(bufs[cur_buf], cur_name)
    BY <2>1 DEF IInv, NextPrimed
  <2>4. mem[Log(cur_buf)[3 * Copies(cur_buf) - 1].mem] = Log(cur_buf)[3 * Copies(cur_buf) - 1].weight
    BY <2>1, <2>2, <2>3 DEF IInv, ContentOK, LastCopyIs
  <2>5. QED
    BY <2>3, <2>4 DEF Copy
<1>2. QED
  BY <1>1, Invariance, PTL

(* While compute works on the call issued last, no transfer is held back: a  *)
(* transfer waits for the last reader of its own buffer, which is an earlier *)
(* call (stream_manager.py:57, generate.py:132-136).                         *)
THEOREM Overlaps == ASSUME StableAllocations PROVE Spec => []NextTransferOverlaps
<1>1. IInv /\ OInv => NextTransferOverlaps
  <2> SUFFICES ASSUME IInv, OInv, calls > 0, head[Compute] + 3 > Len(issued.log[Compute]),
                      NEW b \in Buffers, HeldBack(b)
               PROVE  FALSE
    BY DEF NextTransferOverlaps
  <2>1. PICK j \in 1 .. Copies(b), u \in 0 .. Reads(b), a \in Allocations, w \in Weights :
               AtTransfer(b, j, u, a[b], w)
    BY PendingTransfer DEF IInv, HeldBack
  <2>2. Current(b) = Wait(ReadDone(b), u)
    BY <2>1 DEF AtTransfer, HeldBack, Wait, Copy, Record
  <2>3. done[ReadDone(b)] < u /\ u \in Nat /\ done[ReadDone(b)] \in Nat /\ Reads(b) \in Nat
    BY <2>1, <2>2, Types DEF HeldBack, Wait, IInv
  <2>4. u \in 1 .. Reads(b)
    BY <2>1, <2>3
  <2>5. PICK i \in 1 .. Len(asked) : Log(Compute)[3*i] = Record(ReadDone(b), u)
    BY <2>4 DEF OInv, EveryReadRecorded
  <2>6. i # Len(asked)
    <3> SUFFICES ASSUME i = Len(asked) PROVE FALSE
      OBVIOUS
    <3>1. /\ cur_buf \in Buffers /\ 1 - cur_buf \in Buffers
          /\ Log(Compute)[3 * Len(asked)] = Record(ReadDone(1 - cur_buf), Reads(1 - cur_buf))
      BY Shapes DEF IInv, TypeOK, OInv, LastCall
    <3>2. ReadDone(b) = ReadDone(1 - cur_buf) /\ u = Reads(1 - cur_buf)
      BY <2>5, <3>1 DEF Record
    <3>3. b = 1 - cur_buf
      BY <3>1, <3>2, Shapes
    <3>4. Log(b)[3*j - 2].ver < Reads(b)
      BY <3>3, <2>1 DEF OInv, LastCall
    <3>5. Log(b)[3*j - 2].ver = u
      BY <2>1 DEF AtTransfer, TransferIs, Wait
    <3>6. QED
      BY <3>2, <3>3, <3>4, <3>5, <2>3
  <2>7. head[Compute] > 3*i
    <3>1. Len(issued.log[Compute]) = 3 * Len(asked) /\ head[Compute] \in Nat /\ Len(asked) \in Nat
      BY Types DEF IInv, Lengths, Log
    <3>2. QED
      BY <3>1, <2>5, <2>6
  <2>8. PICK c \in Buffers, d \in Allocations :
               \E v \in 1 .. Copies(c), r \in 1 .. Reads(c) :
                 CallIs(i, c, v, r, d[c], asked[i]) /\ done[ReadDone(c)] >= r
    BY <2>7 DEF IInv, CallsOK
  <2>9. PICK v \in 1 .. Copies(c), r \in 1 .. Reads(c) :
               CallIs(i, c, v, r, d[c], asked[i]) /\ done[ReadDone(c)] >= r
    BY <2>8
  <2>10. ReadDone(c) = ReadDone(b) /\ r = u
    BY <2>5, <2>9 DEF CallIs, Record
  <2>11. QED
    BY <2>3, <2>9, <2>10
<1>2. QED
  BY <1>1, OInvariance, PTL

(* Once compute is past the waits of a pipeline's first two calls, nothing   *)
(* that earlier pipelines issued is left on a copy stream, so that a tensor  *)
(* placed in one of their buffers afterwards is safe (generate.py:438-441).  *)
THEOREM DroppedQuiet == ASSUME StableAllocations PROVE Spec => []DroppedBuffersQuiet
<1>1. IInv /\ OInv => DroppedBuffersQuiet
  <2> SUFFICES ASSUME IInv, OInv, calls >= 2, head[Compute] > OldEntries(Compute) + 4,
                      NEW b \in Buffers
               PROVE  head[b] > OldEntries(b)
    BY DEF DroppedBuffersQuiet
  <2>1. /\ Len(asked) \in Nat /\ calls \in Nat /\ calls <= Len(asked)
        /\ Len(Log(Compute)) = 3 * Len(asked) /\ Len(Log(b)) = 3 * Copies(b)
        /\ Copies(b) \in Nat /\ head[b] \in Nat /\ head[Compute] \in Nat
        /\ done[Copied(b)] \in Nat /\ b # Compute /\ Buffers = {0, 1}
        /\ 3 * done[Copied(b)] + 1 <= head[b]
    BY Types, Shapes DEF IInv, TypeOK, OInv, FirstCalls, Lengths, Positions
  <2>2. /\ OldEntries(b) = 3 * OldCopies(b)
        /\ OldEntries(Compute) = 3 * (Len(asked) - calls)
        /\ OldCopies(b) \in Nat
    <3>1. Transfers(b) \in Int
      BY <2>1 DEF Transfers
    <3>2. OldCopies(b) >= 0
      BY DEF OInv, FirstCalls
    <3>3. QED
      BY <2>1, <3>1, <3>2 DEF OldEntries, OldCopies, Log
  <2>3. \E i \in 1 .. Len(asked) :
           /\ head[Compute] > 3*i - 2
           /\ Log(Compute)[3*i - 2] = Wait(Copied(b), OldCopies(b) + 1)
    <3>1. CASE b = 0
      <4>1. Len(asked) - calls + 1 \in 1 .. Len(asked)
            /\ 3 * (Len(asked) - calls + 1) - 2 = 3 * (Len(asked) - calls) + 1
        BY <2>1
      <4>2. head[Compute] > 3 * (Len(asked) - calls) + 1
        BY <2>1, <2>2
      <4>3. Log(Compute)[3 * (Len(asked) - calls) + 1] = Wait(Copied(0), OldCopies(0) + 1)
        BY <2>1 DEF OInv, FirstCalls
      <4>4. QED
        BY <4>1, <4>2, <4>3, <3>1
    <3>2. CASE b = 1
      <4>1. Len(asked) - calls + 2 \in 1 .. Len(asked)
            /\ 3 * (Len(asked) - calls + 2) - 2 = 3 * (Len(asked) - calls) + 4
        BY <2>1
      <4>2. head[Compute] > 3 * (Len(asked) - calls) + 4
        BY <2>1, <2>2
      <4>3. Log(Compute)[3 * (Len(asked) - calls) + 4] = Wait(Copied(1), OldCopies(1) + 1)
        BY <2>1 DEF OInv, FirstCalls
      <4>4. QED
        BY <4>1, <4>2, <4>3, <3>2
    <3>3. QED
      BY <3>1, <3>2, <2>1
  <2>4. PICK i \in 1 .. Len(asked) :
           /\ head[Compute] > 3*i - 2
           /\ Log(Compute)[3*i - 2] = Wait(Copied(b), OldCopies(b) + 1)
    BY <2>3
  <2>5. PICK c \in Buffers, d \in Allocations :
               \E v \in 1 .. Copies(c), r \in 1 .. Reads(c) :
                 CallIs(i, c, v, r, d[c], asked[i]) /\ done[Copied(c)] >= v
    BY <2>4 DEF IInv, CallsOK
  <2>6. PICK v \in 1 .. Copies(c), r \in 1 .. Reads(c) :
               CallIs(i, c, v, r, d[c], asked[i]) /\ done[Copied(c)] >= v
    BY <2>5
  <2>7. Copied(c) = Copied(b) /\ v = OldCopies(b) + 1
    BY <2>4, <2>6 DEF CallIs, Wait
  <2>8. done[Copied(b)] >= OldCopies(b) + 1
    BY <2>6, <2>7
  <2>9. \A h, x, o \in Nat : 3 * x + 1 <= h /\ x >= o + 1 => h > 3 * o
    OBVIOUS
  <2>10. head[b] > 3 * OldCopies(b)
    <3>1. head[b] \in Nat /\ done[Copied(b)] \in Nat /\ 3 * done[Copied(b)] + 1 <= head[b]
      BY <2>1
    <3>2. OldCopies(b) \in Nat
      BY <2>2
    <3>3. QED
      BY <3>1, <3>2, <2>8, <2>9, ZenonT(40)
  <2>11. QED
    BY <2>2, <2>10
<1>2. QED
  BY <1>1, OInvariance, PTL
=============================================================================
