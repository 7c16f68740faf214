--------------------------- MODULE HotCachePolicies ---------------------------
(***************************************************************************)
(* The trace-driven policy simulations of                                  *)
(* python/soinfer/offload/hot_cache.py.  A step feeds the next token's     *)
(* selection to the LRU and the LFU-with-decay policy of every cache size  *)
(* at once, as compare_policies does; the static policy is a function of   *)
(* the whole trace so far.  Frequencies are counted in units that every    *)
(* decay by 1/2 divides without a rest.                                    *)
(***************************************************************************)
EXTENDS Integers, Sequences, FiniteSets, SequencesExt, FiniteSetsExt

CONSTANTS
  I,            \* number of channels
  dip_k,        \* channels selected per token
  Sizes,        \* bound: cache_sizes
  decay_every,
  MaxTokens     \* bound: the length of the trace

ASSUME PoliciesAssumption ==
  /\ I \in Nat \ {0} /\ dip_k \in 1 .. I
  /\ Sizes \subseteq Nat
  /\ decay_every \in Nat /\ MaxTokens \in Nat

Channels == 0 .. I - 1

VARIABLES
  trace,      \* the selections, as sets
  lru,        \* per size, the OrderedDict: least recently used first
  lfu,        \* per size, the set of cached channels
  freq,       \* LFU: per channel, its decayed frequency
  lru_hits, lfu_hits

policyVars == <<trace, lru, lfu, freq, lru_hits, lfu_hits>>

-----------------------------------------------------------------------------
(* _as_sorted_ints *)
Ascending(S) ==
  [n \in 1 .. Cardinality(S) |-> CHOOSE c \in S : Cardinality({d \in S : d < c}) = n - 1]

(* LRU: all hits of a token are found before its misses are inserted. *)
InsertLru(size, cache, c) ==
  IF size = 0 THEN cache
  ELSE Append(IF Len(cache) >= size THEN Tail(cache) ELSE cache, c)

Touched(cache, S) ==
  LET kept == Ascending({n \in DOMAIN cache : cache[n] \notin S})
  IN  [n \in DOMAIN kept |-> cache[kept[n]]] \o Ascending(S \cap ToSet(cache))

(* Mutant: hits and misses are served one channel at a time. *)
one_at_a_time(size, cache, S) ==
  FoldLeft(LAMBDA s, c : IF c \in ToSet(s.cache)
                         THEN [cache |-> Touched(s.cache, {c}), hits |-> s.hits + 1]
                         ELSE [cache |-> InsertLru(size, s.cache, c), hits |-> s.hits],
           [cache |-> cache, hits |-> 0], Ascending(S))
LruToken(size, cache, S) ==
  [cache |-> FoldLeft(LAMBDA s, c : InsertLru(size, s, c), Touched(cache, S),
                      Ascending(S \ ToSet(cache))),
   hits  |-> Cardinality(S \cap ToSet(cache))]

(* LFU: one channel at a time; the frequency grows before the victim is     *)
(* chosen, ties go against the higher index.                                *)
Unit == 2 ^ MaxTokens

Victim(cache, f) ==
  CHOOSE v \in cache : \A c \in cache \ {v} : f[v] < f[c] \/ (f[v] = f[c] /\ v > c)

LfuChannel(size, s, c) ==
  LET f == [s.freq EXCEPT ![c] = @ + Unit]
  IN  [freq  |-> f,
       hits  |-> s.hits + IF c \in s.cache THEN 1 ELSE 0,
       cache |-> IF c \in s.cache \/ size = 0 THEN s.cache
                 ELSE IF Cardinality(s.cache) < size THEN s.cache \cup {c}
                 ELSE (s.cache \ {Victim(s.cache, f)}) \cup {c}]

(* Mutant: all hits of a token are served before its misses, as by LRUPolicy. *)
hits_first(size, cache, f, S) ==
  FoldLeft(LAMBDA s, c : LfuChannel(size, s, c),
           [freq |-> f, hits |-> 0, cache |-> cache],
           Ascending(S \cap cache) \o Ascending(S \ cache))
LfuToken(size, cache, f, S) ==
  FoldLeft(LAMBDA s, c : LfuChannel(size, s, c),
           [freq |-> f, hits |-> 0, cache |-> cache], Ascending(S))

(* Mutant: only the channels just selected decay. *)
decay_selected(f, step, S) ==
  IF decay_every > 0 /\ step % decay_every = 0
  THEN [c \in Channels |-> IF c \in S THEN f[c] \div 2 ELSE f[c]] ELSE f
Decayed(f, step, S) ==
  IF decay_every > 0 /\ step % decay_every = 0
  THEN [c \in Channels |-> f[c] \div 2] ELSE f

(* Static: the most frequent channels, ties in favour of the lower index.   *)
(* Mutant: the least frequent ones. *)
coldest(f, size) ==
  {c \in DOMAIN f : Cardinality({d \in DOMAIN f : f[d] < f[c] \/ (f[d] = f[c] /\ d < c)}) < size}
hot_set(f, size) ==
  {c \in DOMAIN f : Cardinality({d \in DOMAIN f : f[d] > f[c] \/ (f[d] = f[c] /\ d < c)}) < size}

Counts(t) == [c \in Channels |-> Cardinality({i \in DOMAIN t : c \in t[i]})]
FixedHits(t, S) == FoldLeft(LAMBDA n, tok : n + Cardinality(tok \cap S), 0, t)

-----------------------------------------------------------------------------
PoliciesInit ==
  /\ trace = <<>>
  /\ lru = [s \in Sizes |-> <<>>]
  /\ lfu = [s \in Sizes |-> {}]
  /\ freq = [c \in Channels |-> 0]
  /\ lru_hits = [s \in Sizes |-> 0]
  /\ lfu_hits = [s \in Sizes |-> 0]

Token(S) ==
  LET after == [s \in Sizes |-> LruToken(s, lru[s], S)]
      afterLfu == [s \in Sizes |-> LfuToken(s, lfu[s], freq, S)]
      counted == [c \in Channels |-> freq[c] + IF c \in S THEN Unit ELSE 0]
  IN  /\ Len(trace) < MaxTokens
      /\ trace' = Append(trace, S)
      /\ lru' = [s \in Sizes |-> after[s].cache]
      /\ lru_hits' = [s \in Sizes |-> lru_hits[s] + after[s].hits]
      /\ lfu' = [s \in Sizes |-> afterLfu[s].cache]
      /\ lfu_hits' = [s \in Sizes |-> lfu_hits[s] + afterLfu[s].hits]
      /\ freq' = Decayed(counted, Len(trace'), S)

PoliciesNext == \E S \in kSubset(dip_k, Channels) : Token(S)

PoliciesSpec == PoliciesInit /\ [][PoliciesNext]_policyVars

-----------------------------------------------------------------------------
Seen == UNION ToSet(trace)
LastUse(c) == Max({0} \cup {i \in DOMAIN trace : c \in trace[i]})
(* A channel in the LRU cache at the end of a token hits if the next one     *)
(* selects it, whatever else that token selects, and the cache holds the     *)
(* channels used last - though a token may select more channels than it has  *)
(* places, and its misses evict its own hits (hot_cache.py:103-116, 123-140).*)
KeepsMostRecent(size) ==
  \A c \in ToSet(lru[size]) : \A d \in Channels \ ToSet(lru[size]) : LastUse(c) >= LastUse(d)

LruServesMostRecent ==
  [][\A s \in Sizes :
       /\ trace' # trace =>
            lru_hits'[s] - lru_hits[s] = Cardinality(Last(trace') \cap ToSet(lru[s]))
       /\ KeepsMostRecent(s)']_policyVars

(* At most one cached channel - the one let in unconditionally last - is     *)
(* less frequent than some channel left out: evicting the least frequent and *)
(* decaying all alike keeps the order (hot_cache.py:167-186).                *)
LfuKeepsFrequent ==
  \A s \in Sizes :
    Cardinality({c \in lfu[s] : \E d \in Channels \ lfu[s] : freq[c] < freq[d]}) <= 1

(* No fixed set of channels would have hit more often than the static        *)
(* policy fed with the frequencies of the same trace, "its best case"        *)
(* (hot_cache.py:197-203).                                                   *)
StaticIsBestFixedSet ==
  \A s \in Sizes : \A S \in SUBSET Channels :
    Cardinality(S) <= s => FixedHits(trace, S) <= FixedHits(trace, hot_set(Counts(trace), s))

(* A larger LFU cache holds whatever a smaller one does, and so never hits   *)
(* less: all sizes rank the channels alike, one channel at a time            *)
(* (hot_cache.py:164-182).                                                   *)
LargerLfuNeverHurts ==
  \A s, t \in Sizes : s <= t => lfu[s] \subseteq lfu[t] /\ lfu_hits[s] <= lfu_hits[t]

(* "larger cache never hurts hit rate, checked across both adaptive          *)
(* policies" (docs/LEARNING_NOTES.md:1355, tests/test_hot_cache.py:161).     *)
(* Not for LRU: which channels of a token outlive it depends on which of     *)
(* them were hits, and so on the size.                                       *)
LargerLruNeverHurts ==
  \A s, t \in Sizes : s <= t => lru_hits[s] <= lru_hits[t]
=============================================================================
