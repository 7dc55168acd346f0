---------------------------- MODULE EngineProofs ----------------------------
(***************************************************************************)
(* Invariants of cn-engine (module Engine) for every choice of models,     *)
(* prompts, reference images, capacities and bounds, whether or not files  *)
(* change while a command is served, and what it shows on stdout.  What    *)
(* says which latents a generation is given needs RefsFit.                 *)
(***************************************************************************)
EXTENDS EngineProperties, SequenceTheorems, FiniteSetTheorems, TLAPS

-----------------------------------------------------------------------------
(* The caches: what their operations preserve and establish, for any       *)
(* entries and any capacity                                                *)

EntriesOf(cache) == {cache[i] : i \in 1 .. Len(cache)}

\* The entries with these keys are the newest ones: none is evicted before all
\* others are.
Newest(cache, keys) ==
  \A i, j \in 1 .. Len(cache) :
    i < j /\ cache[i].key \in keys => cache[j].key \in keys

-----------------------------------------------------------------------------
(* A hit *)

\* A key that is present is found at a position of the cache.
LEMMA PositionFound ==
  ASSUME NEW S, NEW cache \in Seq(S), NEW key, Holds(cache, key)
  PROVE  /\ PositionOf(cache, key) \in 1 .. Len(cache)
         /\ cache[PositionOf(cache, key)].key = key
<1>1. PICK i \in 1 .. Len(cache) : cache[i].key = key
  BY DEF Holds, KeysOf
<1>. QED
  BY <1>1 DEF PositionOf

\* MoveToEnd permutes a cache: it keeps the length and moves position p to the
\* end, the ones behind it one place forward.
LEMMA MoveToEndShape ==
  ASSUME NEW S, NEW cache \in Seq(S), NEW p \in 1 .. Len(cache)
  PROVE  /\ MoveToEnd(cache, p) \in Seq(S)
         /\ Len(MoveToEnd(cache, p)) = Len(cache)
         /\ MoveToEnd(cache, p)[Len(cache)] = cache[p]
         /\ EntriesOf(MoveToEnd(cache, p)) = EntriesOf(cache)
<1>. DEFINE moved == MoveToEnd(cache, p)
            n == Len(cache)
<1>0. n \in Nat /\ \A i \in 1 .. n : cache[i] \in S
  OBVIOUS
<1>1. moved = [i \in 1 .. n |->
                 IF i < p THEN cache[i] ELSE IF i < n THEN cache[i + 1] ELSE cache[p]]
  BY DEF MoveToEnd
<1>2. \A i \in 1 .. n : moved[i] \in S
  BY <1>0, <1>1
<1>3. moved \in Seq(S) /\ Len(moved) = n
  BY <1>0, <1>1, <1>2
<1>4. moved[n] = cache[p]
  BY <1>0, <1>1
<1>5. \A i \in 1 .. n : \E j \in 1 .. n : moved[i] = cache[j]
  BY <1>0, <1>1
<1>6. \A j \in 1 .. n : \E i \in 1 .. n : moved[i] = cache[j]
  <2>. TAKE j \in 1 .. n
  <2>1. CASE j < p
    BY <2>1, <1>0, <1>1
  <2>2. CASE j = p
    BY <2>2, <1>0, <1>4
  <2>3. CASE j > p
    <3>1. j - 1 \in 1 .. n /\ ~(j - 1 < p) /\ j - 1 < n /\ (j - 1) + 1 = j
      BY <2>3, <1>0
    <3>. QED
      BY <3>1, <1>1
  <2>. QED
    BY <2>1, <2>2, <2>3
<1>7. EntriesOf(moved) = EntriesOf(cache)
  <2>1. EntriesOf(moved) = {moved[i] : i \in 1 .. n}
    BY <1>3 DEF EntriesOf
  <2>2. EntriesOf(cache) = {cache[i] : i \in 1 .. n}
    BY DEF EntriesOf
  <2>. HIDE DEF moved, n
  <2>3. {moved[i] : i \in 1 .. n} \subseteq {cache[i] : i \in 1 .. n}
    BY <1>5
  <2>4. {cache[i] : i \in 1 .. n} \subseteq {moved[i] : i \in 1 .. n}
    BY <1>6
  <2>. QED
    BY <2>1, <2>2, <2>3, <2>4
<1>. QED
  BY <1>3, <1>4, <1>7
\* MoveToEnd keeps keys distinct: no two positions get the same entry.
LEMMA MoveToEndIsMap ==
  ASSUME NEW S, NEW cache \in Seq(S), NEW p \in 1 .. Len(cache), IsMap(cache)
  PROVE  IsMap(MoveToEnd(cache, p))
<1>. DEFINE n == Len(cache)
            From(i) == IF i < p THEN i ELSE IF i < n THEN i + 1 ELSE p
<1>1. n \in Nat /\ Len(MoveToEnd(cache, p)) = n
  BY MoveToEndShape
<1>2. \A i \in 1 .. n : From(i) \in 1 .. n /\ MoveToEnd(cache, p)[i] = cache[From(i)]
  BY <1>1 DEF MoveToEnd
<1>3. \A i, j \in 1 .. n : From(i) = From(j) => i = j
  BY <1>1
<1>. QED
  <2>. HIDE DEF From, n
  <2>. QED
    BY <1>1, <1>2, <1>3 DEF IsMap, n

\* A hit keeps the entries, their number and the keys distinct, and leaves the
\* entry that was hit as the newest.
LEMMA TouchKeeps ==
  ASSUME NEW S, NEW cache \in Seq(S), NEW key, Holds(cache, key)
  PROVE  /\ Touch(cache, key) \in Seq(S)
         /\ Len(Touch(cache, key)) = Len(cache)
         /\ EntriesOf(Touch(cache, key)) = EntriesOf(cache)
         /\ Len(cache) > 0 /\ Touch(cache, key)[Len(cache)].key = key
         /\ IsMap(cache) => IsMap(Touch(cache, key))
<1>1. PositionOf(cache, key) \in 1 .. Len(cache)
      /\ cache[PositionOf(cache, key)].key = key
  BY PositionFound
<1>2. Len(cache) > 0
  BY <1>1
<1>. QED
  BY <1>1, <1>2, MoveToEndShape, MoveToEndIsMap DEF Touch

-----------------------------------------------------------------------------
(* A miss *)

\* Eviction makes room in a cache within its capacity, keeps the keys distinct
\* and adds nothing.
LEMMA EvictKeeps ==
  ASSUME NEW S, NEW cache \in Seq(S), NEW capacity \in Nat \ {0},
         Len(cache) <= capacity
  PROVE  /\ EvictIfFull(cache, capacity) \in Seq(S)
         /\ Len(EvictIfFull(cache, capacity)) < capacity
         /\ EntriesOf(EvictIfFull(cache, capacity)) \subseteq EntriesOf(cache)
         /\ IsMap(cache) => IsMap(EvictIfFull(cache, capacity))
<1>1. CASE Len(cache) < capacity
  BY <1>1 DEF EvictIfFull
<1>2. CASE ~(Len(cache) < capacity)
  <2>1. cache # <<>> /\ EvictIfFull(cache, capacity) = Tail(cache)
    BY <1>2 DEF EvictIfFull
  <2>2. /\ Tail(cache) \in Seq(S) /\ Len(Tail(cache)) = Len(cache) - 1
        /\ \A i \in 1 .. Len(cache) - 1 :
             i + 1 \in 1 .. Len(cache) /\ Tail(cache)[i] = cache[i + 1]
    BY <2>1
  <2>3. EntriesOf(Tail(cache)) \subseteq EntriesOf(cache)
    BY <2>2 DEF EntriesOf
  <2>4. IsMap(cache) => IsMap(Tail(cache))
    BY <2>2 DEF IsMap
  <2>. QED
    BY <1>2, <2>1, <2>2, <2>3, <2>4
<1>. QED
  BY <1>1, <1>2

\* Emplace adds the entry unless its key is taken.
LEMMA EmplaceKeeps ==
  ASSUME NEW S, NEW cache \in Seq(S), NEW entry \in S
  PROVE  /\ Emplace(cache, entry) \in Seq(S)
         /\ Len(Emplace(cache, entry)) <= Len(cache) + 1
         /\ EntriesOf(Emplace(cache, entry)) \subseteq EntriesOf(cache) \cup {entry}
         /\ Holds(Emplace(cache, entry), entry.key)
         /\ IsMap(cache) => IsMap(Emplace(cache, entry))
<1>1. CASE Holds(cache, entry.key)
  BY <1>1 DEF Emplace
<1>2. CASE ~Holds(cache, entry.key)
  <2>. DEFINE more == Append(cache, entry)
              n == Len(cache)
  <2>1. /\ n \in Nat /\ more \in Seq(S) /\ Len(more) = n + 1
        /\ more[n + 1] = entry
        /\ \A i \in 1 .. n : more[i] = cache[i]
    OBVIOUS
  <2>2. EntriesOf(more) \subseteq EntriesOf(cache) \cup {entry}
    BY <2>1 DEF EntriesOf
  <2>3. Holds(more, entry.key)
    BY <2>1 DEF Holds, KeysOf
  <2>4. \A i \in 1 .. n : cache[i].key # entry.key
    BY <1>2 DEF Holds, KeysOf
  <2>5. IsMap(cache) => IsMap(more)
    BY <2>1, <2>4 DEF IsMap
  <2>. QED
    BY <1>2, <2>1, <2>2, <2>3, <2>5 DEF Emplace
<1>. QED
  BY <1>1, <1>2

\* An insertion stays within the capacity, keeps the keys distinct, adds at
\* most the new entry and leaves its key in the cache.
LEMMA InsertKeeps ==
  ASSUME NEW S, NEW cache \in Seq(S), NEW entry \in S, NEW capacity \in Nat \ {0},
         Len(cache) <= capacity
  PROVE  /\ Insert(cache, entry, capacity) \in Seq(S)
         /\ Len(Insert(cache, entry, capacity)) <= capacity
         /\ EntriesOf(Insert(cache, entry, capacity)) \subseteq EntriesOf(cache) \cup {entry}
         /\ Holds(Insert(cache, entry, capacity), entry.key)
         /\ IsMap(cache) => IsMap(Insert(cache, entry, capacity))
<1>. DEFINE kept == EvictIfFull(cache, capacity)
<1>1. /\ kept \in Seq(S) /\ Len(kept) < capacity
      /\ EntriesOf(kept) \subseteq EntriesOf(cache)
      /\ IsMap(cache) => IsMap(kept)
  BY EvictKeeps
<1>2. Len(kept) \in Nat
  BY <1>1
<1>. HIDE DEF kept
<1>3. /\ Emplace(kept, entry) \in Seq(S)
      /\ Len(Emplace(kept, entry)) <= Len(kept) + 1
      /\ EntriesOf(Emplace(kept, entry)) \subseteq EntriesOf(kept) \cup {entry}
      /\ Holds(Emplace(kept, entry), entry.key)
      /\ IsMap(kept) => IsMap(Emplace(kept, entry))
  BY <1>1, EmplaceKeeps
<1>4. Len(Emplace(kept, entry)) <= capacity
  <2>1. Len(Emplace(kept, entry)) \in Nat
    BY <1>3
  <2>. QED
    BY <1>1, <1>2, <1>3, <2>1
<1>. QED
  BY <1>1, <1>3, <1>4 DEF Insert, kept

\* The key inserted into a cache that did not hold it is the newest.
LEMMA InsertedIsNewest ==
  ASSUME NEW S, NEW cache \in Seq(S), NEW entry \in S, NEW capacity \in Nat \ {0},
         Len(cache) <= capacity, ~Holds(cache, entry.key)
  PROVE  LET grown == Insert(cache, entry, capacity)
         IN  Len(grown) > 0 /\ grown[Len(grown)].key = entry.key
<1>. DEFINE kept == EvictIfFull(cache, capacity)
<1>1. kept \in Seq(S) /\ EntriesOf(kept) \subseteq EntriesOf(cache)
  BY EvictKeeps
<1>2. ~Holds(kept, entry.key)
  BY <1>1 DEF Holds, KeysOf, EntriesOf
<1>3. Insert(cache, entry, capacity) = Append(kept, entry)
  BY <1>2 DEF Insert, Emplace
<1>. QED
  <2>. HIDE DEF kept
  <2>. QED
    BY <1>1, <1>3

-----------------------------------------------------------------------------
(* Which entries are evicted last *)

\* A hit adds its key to those of the newest entries.
LEMMA TouchNewest ==
  ASSUME NEW S, NEW cache \in Seq(S), NEW key, NEW keys,
         Holds(cache, key), IsMap(cache), Newest(cache, keys)
  PROVE  Newest(Touch(cache, key), keys \cup {key})
<1>. DEFINE p == PositionOf(cache, key)
            n == Len(cache)
            From(i) == IF i < p THEN i ELSE IF i < n THEN i + 1 ELSE p
            moved == Touch(cache, key)
<1>1. n \in Nat /\ p \in 1 .. n /\ cache[p].key = key
  BY PositionFound
<1>2. Len(moved) = n
  BY TouchKeeps
<1>3. \A i \in 1 .. n : From(i) \in 1 .. n /\ moved[i] = cache[From(i)]
  BY <1>1 DEF Touch, MoveToEnd
<1>4. \A i, j \in 1 .. n : i < j /\ j < n => From(i) < From(j)
  BY <1>1
<1>5. \A i \in 1 .. n : From(i) = p <=> i = n
  BY <1>1
<1>. HIDE DEF From, n, p, moved
<1>6. SUFFICES ASSUME NEW i \in 1 .. n, NEW j \in 1 .. n, i < j,
                      moved[i].key \in keys \cup {key}
               PROVE  moved[j].key \in keys \cup {key}
  BY <1>2 DEF Newest, moved
<1>7. CASE j = n
  BY <1>1, <1>3, <1>5, <1>7
<1>8. CASE j < n
  <2>1. i # n
    BY <1>1, <1>6, <1>8
  <2>2. cache[From(i)].key # key
    <3>1. From(i) # p
      BY <1>5, <2>1
    <3>. QED
      BY <1>1, <1>3, <3>1 DEF IsMap, n
  <2>3. cache[From(i)].key \in keys
    BY <1>3, <1>6, <2>2
  <2>. QED
    BY <1>3, <1>4, <1>6, <1>8, <2>3 DEF Newest, n
<1>. QED
  BY <1>1, <1>7, <1>8

\* As many keys, as many newest entries.
LEMMA NewestAreFew ==
  ASSUME NEW S, NEW cache \in Seq(S), NEW keys, IsFiniteSet(keys),
         IsMap(cache), Newest(cache, keys),
         NEW i \in 1 .. Len(cache), cache[i].key \in keys
  PROVE  i > Len(cache) - Cardinality(keys)
<1>. DEFINE n == Len(cache)
            key == [j \in i .. n |-> cache[j].key]
<1>0. n \in Nat /\ i \in 1 .. n
  OBVIOUS
<1>1. key \in [i .. n -> keys]
  <2>1. \A j \in i .. n : cache[j].key \in keys
    BY <1>0 DEF Newest
  <2>. QED
    BY <2>1
<1>2. \A j, k \in i .. n : key[j] = key[k] => j = k
  BY <1>0 DEF IsMap
<1>3. key \in Injection(i .. n, keys)
  BY <1>1, <1>2 DEF Injection, IsInjective
<1>4. Cardinality(i .. n) <= Cardinality(keys)
  BY <1>3, FS_Injection
<1>5. Cardinality(i .. n) = n - i + 1
  BY <1>0, FS_Interval
<1>6. Cardinality(keys) \in Nat
  BY FS_CardinalityType
<1>. QED
  BY <1>0, <1>4, <1>5, <1>6

\* Entries with fewer keys than the capacity survive an insertion, after which
\* they and the new entry are the newest.
LEMMA InsertNewest ==
  ASSUME NEW S, NEW cache \in Seq(S), NEW entry \in S, NEW capacity \in Nat \ {0},
         NEW keys, IsFiniteSet(keys), Cardinality(keys) < capacity,
         Len(cache) <= capacity, ~Holds(cache, entry.key),
         IsMap(cache), Newest(cache, keys)
  PROVE  LET grown == Insert(cache, entry, capacity)
         IN  /\ Newest(grown, keys \cup {entry.key})
             /\ entry \in EntriesOf(grown)
             /\ \A i \in 1 .. Len(cache) :
                  cache[i].key \in keys => cache[i] \in EntriesOf(grown)
<1>. DEFINE kept == EvictIfFull(cache, capacity)
<1>1. kept \in Seq(S) /\ EntriesOf(kept) \subseteq EntriesOf(cache)
  BY EvictKeeps
<1>2. \A i \in 1 .. Len(kept) : kept[i].key # entry.key
  BY <1>1 DEF Holds, KeysOf, EntriesOf
<1>3. Insert(cache, entry, capacity) = Append(kept, entry)
  BY <1>2 DEF Insert, Emplace, Holds, KeysOf
<1>4. /\ Newest(kept, keys)
      /\ \A i \in 1 .. Len(cache) :
           cache[i].key \in keys => \E j \in 1 .. Len(kept) : kept[j] = cache[i]
  <2>1. CASE Len(cache) < capacity
    BY <2>1 DEF EvictIfFull
  <2>2. CASE ~(Len(cache) < capacity)
    <3>1. Len(cache) = capacity /\ cache # <<>> /\ kept = Tail(cache)
      BY <2>2 DEF EvictIfFull
    <3>2. /\ Len(kept) = Len(cache) - 1
          /\ \A j \in 1 .. Len(kept) : j + 1 \in 1 .. Len(cache) /\ kept[j] = cache[j + 1]
      BY <3>1
    <3>3. Newest(kept, keys)
      BY <3>2 DEF Newest
    <3>4. ASSUME NEW i \in 1 .. Len(cache), cache[i].key \in keys
          PROVE  \E j \in 1 .. Len(kept) : kept[j] = cache[i]
      <4>1. i > Len(cache) - Cardinality(keys)
        BY <3>4, NewestAreFew
      <4>2. Cardinality(keys) \in Nat
        BY FS_CardinalityType
      <4>3. i # 1
        BY <3>1, <4>1, <4>2
      <4>4. i - 1 \in 1 .. Len(kept) /\ (i - 1) + 1 = i
        BY <3>2, <4>3
      <4>. QED
        BY <3>2, <4>4
    <3>. QED
      BY <3>3, <3>4
  <2>. QED
    BY <2>1, <2>2
<1>. DEFINE n == Len(kept)
            grown == Append(kept, entry)
<1>. HIDE DEF kept
<1>5. /\ n \in Nat /\ Len(grown) = n + 1 /\ grown[n + 1] = entry
      /\ \A i \in 1 .. n : grown[i] = kept[i]
  BY <1>1
<1>. HIDE DEF grown
<1>6. Newest(grown, keys \cup {entry.key})
  <2>1. SUFFICES ASSUME NEW i \in 1 .. n + 1, NEW j \in 1 .. n + 1, i < j,
                        grown[i].key \in keys \cup {entry.key}
                 PROVE  grown[j].key \in keys \cup {entry.key}
    BY <1>5 DEF Newest
  <2>2. i \in 1 .. n /\ kept[i].key \in keys
    BY <1>2, <1>5, <2>1
  <2>3. CASE j \in 1 .. n
    BY <1>4, <1>5, <2>1, <2>2, <2>3 DEF Newest
  <2>4. CASE j = n + 1
    BY <1>5, <2>4
  <2>. QED
    BY <1>5, <2>1, <2>3, <2>4
<1>7. entry \in EntriesOf(grown)
  BY <1>5 DEF EntriesOf
<1>8. \A i \in 1 .. Len(cache) : cache[i].key \in keys => cache[i] \in EntriesOf(grown)
  BY <1>4, <1>5 DEF EntriesOf
<1>. QED
  BY <1>3, <1>6, <1>7, <1>8 DEF grown

-----------------------------------------------------------------------------
(* What holds at each point of a handler *)

\* Where handle_generate is past its check of state.ctx.
Generating ==
  {"generateParams", "loadRefs", "prompt", "refCache", "lookup", "encode", "run",
   "upscaleResult"}

\* A model is there wherever a handler goes on to use it, and none while
\* handle_load replaces it.
ModelAtHand ==
  /\ pc \in Generating \cup {"loadUpscaler"} => ctx # Null
  /\ pc = "loadParams" => ctx = Null
  /\ pc = "loadUpscaler" => ~upscaler /\ prompts = <<>> /\ latents = <<>>

\* idx counts what its loop has done.
LoopIndex ==
  /\ pc = "loadRefs" => idx = Len(pixels) + 1 /\ idx <= Len(req.refs) + 1
  /\ pc \notin {"loadRefs", "lookup", "encode", "upscalePass", "upscaleResult", "crashed"}
       => idx = 1

\* The reference images are in memory from the loop that loads them until
\* generation ends.
PixelsMatch ==
  /\ pc \in {"prompt", "refCache", "lookup", "encode", "run"}
       => Len(pixels) = Len(req.refs)
  /\ pc \notin {"loadRefs", "prompt", "refCache", "lookup", "encode", "run", "crashed"}
       => pixels = <<>>

\* cached_latents has a slot for each reference image that was looked up.
SlotsMatch ==
  /\ pc = "lookup" => idx = Len(lats) + 1 /\ idx <= Len(req.refs) + 1
  /\ pc = "encode" => Len(lats) = Len(req.refs)
  /\ pc \notin {"lookup", "encode", "run", "upscaleResult", "crashed"} => lats = <<>>

\* A pointer into the prompt cache is only held between the step that looks the
\* prompt up and the answer.
ConditionHeld ==
  pc \notin {"refCache", "lookup", "encode", "run", "upscaleResult", "crashed"}
    => cond = Null

\* What is on the heap at each point: the current image of handle_upscale, or
\* the array of results with final_image, which is results[0] until the first
\* pass.
HeapMatch ==
  /\ pc \notin {"upscalePass", "upscaleResult"} => bufs = {}
  /\ pc \notin {"upscaleInput", "upscalePass"} => ~temp
  /\ pc = "upscalePass" => image = idx /\ bufs = {idx}
  /\ pc = "upscaleResult" =>
       /\ image = idx /\ bufs = {0, idx}
       /\ usesResult = (idx = 1)
       /\ result = IF usesResult THEN idx ELSE Null

Flow == ModelAtHand /\ LoopIndex /\ PixelsMatch /\ SlotsMatch /\ ConditionHeld

\* The inductive invariant.
Inv ==
  /\ TypeOK
  /\ Flow
  /\ HeapMatch
  /\ CachesBounded
  /\ StateBelongsToModel
  /\ ConditionAlive
-----------------------------------------------------------------------------
(* Type correctness *)

\* The empty sequence is a sequence over any set.
LEMMA EmptyIsSeq ==
  ASSUME NEW S
  PROVE  <<>> \in Seq(S)
OBVIOUS

\* The request between commands.
LEMMA NoRequestType == NoRequest \in Requests
BY DEF NoRequest, Requests

\* The request of handle_upscale.
LEMMA UpscaleRequestType ==
  ASSUME NEW n \in Nat
  PROVE  [NoRequest EXCEPT !.repeats = n] \in Requests
BY DEF NoRequest, Requests

\* The requests handle_generate can parse.
LEMMA GenerateRequestType ==
  [prompt : Prompts \cup {Null}, refs : RefLists, useLatents : BOOLEAN,
   tiled : Tilings, repeats : 0 .. MaxRepeats] \subseteq Requests
<1>1. Tilings \subseteq BOOLEAN /\ 0 .. MaxRepeats \subseteq Nat
  BY RequestAssumption
<1>. QED
  BY <1>1 DEF Requests

\* The reference images of a request are paths.
LEMMA RefsType ==
  ASSUME LocalsType
  PROVE  req.refs \in Seq(Paths)
<1>1. <<>> \in Seq(Paths)
  BY EmptyIsSeq
<1>2. req.refs \in RefLists \cup {<<>>}
  BY DEF LocalsType, Requests
<1>. QED
  BY <1>1, <1>2, RequestAssumption

\* The key of a reference image.
LEMMA LatentKeyType ==
  ASSUME DiskType, NEW p \in Paths
  PROVE  LatentKey(p) \in Paths \X Nat
<1>1. disk[p] \in [ver : Nat, exists : BOOLEAN]
  BY DEF DiskType
<1>2. Stamp(p) \in Nat
  BY <1>1 DEF Stamp
<1>. QED
  BY <1>2 DEF LatentKey

\* Leaving a handler keeps the types of its locals.
LEMMA LocalsDieType ==
  ASSUME LocalsDie
  PROVE  LocalsType'
<1>1. lats' \in Seq(Latents \cup {Null})
  BY EmptyIsSeq DEF LocalsDie
<1>2. req' \in Requests
  BY NoRequestType DEF LocalsDie
<1>3. cond' \in Prompts \cup {Null} /\ idx' \in Nat \ {0}
  BY DEF LocalsDie
<1>4. image' \in Nat \cup {Null} /\ result' \in Nat \cup {Null}
  BY DEF LocalsDie
<1>5. usesResult' \in BOOLEAN
  BY DEF LocalsDie
<1>. QED
  BY <1>1, <1>2, <1>3, <1>4, <1>5 DEF LocalsType

\* A step that leaves the locals alone.
LEMMA LocalsStay ==
  ASSUME LocalsType, UNCHANGED locals
  PROVE  LocalsType'
BY DEF LocalsType, locals

\* A step that leaves EngineState alone.
LEMMA StateStay ==
  ASSUME StateType, UNCHANGED stateVars
  PROVE  StateType'
BY DEF StateType, stateVars, modelVars

\* Cleared caches are caches.
LEMMA ClearCachesType ==
  ASSUME ClearCaches
  PROVE  prompts' \in Seq(PromptEntries) /\ latents' \in Seq(LatentEntries)
BY DEF ClearCaches

\* The model variables after free_sd_ctx.
LEMMA FreeModelType ==
  ASSUME FreeModel
  PROVE  ctx' \in Models \cup {Null} /\ decodeOnly' \in BOOLEAN /\ tiling' \in BOOLEAN
BY DEF FreeModel

\* free() removes buffers and may notice an error.
LEMMA FreeType ==
  ASSUME HeapType, NEW ptrs, Free(ptrs)
  PROVE  bufs' \in SUBSET Nat /\ memoryError' \in BOOLEAN
BY DEF HeapType, Free

-----------------------------------------------------------------------------
(* What the three steps that work on the caches do to them *)

\* Condition keeps the prompt cache within its capacity and its keys distinct,
\* leaves the condition it uses in it, as the newest entry if it was not there
\* before or was hit, and adds only what the present model computed.
LEMMA ConditionCaches ==
  ASSUME StateType, LocalsType, CachesBounded, ModelAtHand, Condition
  PROVE  /\ prompts' \in Seq(PromptEntries)
         /\ Len(prompts') <= MaxPromptEntries /\ IsMap(prompts')
         /\ \/ UNCHANGED <<prompts, cond>>
            \/ /\ cond' # Null
               /\ Holds(prompts', cond')
               /\ Len(prompts') > 0 /\ prompts'[Len(prompts')].key = cond'
               /\ \A e \in EntriesOf(prompts') : e \in EntriesOf(prompts) \/ e.model = ctx
<1>. DEFINE entry == [key |-> req.prompt, model |-> ctx]
<1>0. /\ prompts \in Seq(PromptEntries)
      /\ Len(prompts) <= MaxPromptEntries /\ IsMap(prompts)
      /\ MaxPromptEntries \in Nat \ {0}
  BY CapacityAssumption DEF StateType, CachesBounded
<1>1. CASE CachesPrompt /\ Holds(prompts, req.prompt)
           /\ prompts' = Touch(prompts, req.prompt) /\ cond' = req.prompt
  <2>1. /\ prompts' \in Seq(PromptEntries) /\ Len(prompts') = Len(prompts)
        /\ EntriesOf(prompts') = EntriesOf(prompts) /\ IsMap(prompts')
        /\ Len(prompts) > 0 /\ prompts'[Len(prompts)].key = req.prompt
    BY <1>0, <1>1, TouchKeeps
  <2>2. Holds(prompts', cond')
    BY <1>1, <2>1 DEF Holds, KeysOf
  <2>. QED
    BY <1>0, <1>1, <2>1, <2>2 DEF CachesPrompt
<1>2. CASE CachesPrompt /\ ~Holds(prompts, req.prompt)
           /\ prompts' = Insert(prompts, entry, MaxPromptEntries) /\ cond' = req.prompt
  <2>1. ctx \in Models
    BY DEF StateType, ModelAtHand, Generating, Condition
  <2>2. entry \in PromptEntries /\ entry.key = req.prompt /\ entry.model = ctx
    BY <1>2, <2>1 DEF CachesPrompt, LocalsType, Requests, PromptEntries
  <2>. HIDE DEF entry
  <2>3. /\ prompts' \in Seq(PromptEntries) /\ Len(prompts') <= MaxPromptEntries
        /\ EntriesOf(prompts') \subseteq EntriesOf(prompts) \cup {entry}
        /\ Holds(prompts', entry.key) /\ IsMap(prompts')
    BY <1>0, <1>2, <2>2, InsertKeeps
  <2>4. Len(prompts') > 0 /\ prompts'[Len(prompts')].key = entry.key
    BY <1>0, <1>2, <2>2, InsertedIsNewest
  <2>. QED
    BY <1>2, <2>2, <2>3, <2>4 DEF CachesPrompt
<1>3. CASE UNCHANGED <<prompts, cond>>
  BY <1>0, <1>3
<1>. QED
  BY <1>1, <1>2, <1>3 DEF Condition

\* LookupRef permutes the latent cache at most, and points to an entry of it.
LEMMA LookupCaches ==
  ASSUME StateType, LocalsType, DiskType, CachesBounded, LookupRef
  PROVE  /\ latents' \in Seq(LatentEntries)
         /\ Len(latents') <= MaxLatentEntries /\ IsMap(latents')
         /\ EntriesOf(latents') = EntriesOf(latents)
         /\ lats' \in Seq(Latents \cup {Null})
<1>. DEFINE key == LatentKey(req.refs[idx])
<1>0. /\ latents \in Seq(LatentEntries) /\ Len(latents) <= MaxLatentEntries
      /\ IsMap(latents) /\ lats \in Seq(Latents \cup {Null})
  BY DEF StateType, LocalsType, CachesBounded
<1>1. CASE Holds(latents, key)
  <2>1. latents' = Touch(latents, key) /\ lats' = Append(lats, Lookup(latents, key).obj)
    BY <1>1 DEF LookupRef
  <2>2. Lookup(latents, key) \in LatentEntries
    BY <1>0, <1>1, PositionFound DEF Lookup
  <2>3. Lookup(latents, key).obj \in Latents
    BY <2>2 DEF LatentEntries
  <2>. HIDE DEF key
  <2>4. /\ latents' \in Seq(LatentEntries) /\ Len(latents') = Len(latents)
        /\ EntriesOf(latents') = EntriesOf(latents) /\ IsMap(latents')
    BY <1>0, <1>1, <2>1, TouchKeeps
  <2>. QED
    BY <1>0, <2>1, <2>3, <2>4
<1>2. CASE ~Holds(latents, key)
  BY <1>0, <1>2 DEF LookupRef
<1>. QED
  BY <1>1, <1>2

\* EncodeRef keeps the latent cache within its capacity and its keys distinct,
\* and adds only what the present model, which can encode, encoded.
LEMMA EncodeCaches ==
  ASSUME StateType, LocalsType, HeapType, DiskType, CachesBounded, ModelAtHand,
         PixelsMatch, EncodeRef
  PROVE  /\ latents' \in Seq(LatentEntries)
         /\ Len(latents') <= MaxLatentEntries /\ IsMap(latents')
         /\ \/ latents' = latents
            \/ /\ ~decodeOnly
               /\ \A e \in EntriesOf(latents') : e \in EntriesOf(latents) \/ e.model = ctx
<1>0. /\ latents \in Seq(LatentEntries)
      /\ Len(latents) <= MaxLatentEntries /\ IsMap(latents)
      /\ MaxLatentEntries \in Nat \ {0}
  BY CapacityAssumption DEF StateType, CachesBounded
<1>1. CASE latents' = latents
  BY <1>0, <1>1
<1>2. ASSUME NEW id \in Latents, StoreLatent(id), ~decodeOnly
      PROVE  /\ latents' \in Seq(LatentEntries)
             /\ Len(latents') <= MaxLatentEntries /\ IsMap(latents')
             /\ \A e \in EntriesOf(latents') : e \in EntriesOf(latents) \/ e.model = ctx
  <2>. DEFINE entry == [key |-> LatentKey(req.refs[idx]), obj |-> id, model |-> ctx,
                        ver |-> pixels[idx], tiled |-> tiling]
  <2>1. idx \in 1 .. Len(req.refs)
    BY RefsType DEF EncodeRef, LocalsType
  <2>2. LatentKey(req.refs[idx]) \in Paths \X Nat
    BY <2>1, RefsType, LatentKeyType
  <2>3. pixels[idx] \in Nat
    BY <2>1 DEF PixelsMatch, HeapType, EncodeRef
  <2>4. ctx \in Models /\ tiling \in BOOLEAN
    BY DEF StateType, ModelAtHand, Generating, EncodeRef
  <2>5. entry \in LatentEntries /\ entry.model = ctx
    BY <2>2, <2>3, <2>4 DEF LatentEntries
  <2>6. latents' = Insert(latents, entry, MaxLatentEntries)
    BY <1>2 DEF StoreLatent
  <2>. HIDE DEF entry
  <2>7. /\ latents' \in Seq(LatentEntries) /\ Len(latents') <= MaxLatentEntries
        /\ EntriesOf(latents') \subseteq EntriesOf(latents) \cup {entry}
        /\ IsMap(latents')
    BY <1>0, <2>5, <2>6, InsertKeeps
  <2>. QED
    BY <2>5, <2>7
<1>. QED
  BY <1>1, <1>2 DEF EncodeRef

-----------------------------------------------------------------------------

\* Every step keeps the types.
LEMMA TypeStep ==
  ASSUME Inv, [Next]_vars
  PROVE  TypeOK'
<1>0. /\ ControlType /\ StateType /\ LocalsType /\ HeapType /\ DiskType
      /\ CachesBounded /\ ModelAtHand /\ PixelsMatch /\ SlotsMatch
  BY DEF Inv, TypeOK, Flow
<1>1. CASE ReadLine
  <2>1. ControlType'
    BY <1>0, <1>1 DEF ReadLine, ControlType, ControlPoints, Phases
  <2>2. StateType'
    BY <1>0, <1>1 DEF ReadLine, stateVars, modelVars, StateType
  <2>3. LocalsType'
    BY <1>0, <1>1 DEF ReadLine, locals, LocalsType
  <2>4. HeapType'
    BY <1>0, <1>1 DEF ReadLine, heapVars, HeapType
  <2>5. DiskType'
    BY <1>0, <1>1 DEF ReadLine, DiskType
  <2>. QED
    BY <2>1, <2>2, <2>3, <2>4, <2>5 DEF TypeOK
<1>2. CASE CloseStdin
  <2>1. ControlType'
    BY <1>0, <1>2 DEF CloseStdin, protocolVars, ControlType, ControlPoints,
        Phases
  <2>2. StateType'
    BY <1>0, <1>2 DEF CloseStdin, stateVars, modelVars, StateType
  <2>3. LocalsType'
    BY <1>0, <1>2 DEF CloseStdin, locals, LocalsType
  <2>4. HeapType'
    BY <1>0, <1>2 DEF CloseStdin, heapVars, HeapType
  <2>5. DiskType'
    BY <1>0, <1>2 DEF CloseStdin, DiskType
  <2>. QED
    BY <2>1, <2>2, <2>3, <2>4, <2>5 DEF TypeOK
<1>3. CASE HandleSimple
  <2>1. ControlType'
    BY <1>0, <1>3 DEF HandleSimple, Return, ControlType, ControlPoints, Phases
  <2>2. StateType'
    BY <1>0, <1>3 DEF HandleSimple, stateVars, modelVars, StateType
  <2>3. LocalsType'
    BY <1>0, <1>3, LocalsDieType, LocalsStay DEF HandleSimple, Return
  <2>4. HeapType'
    BY <1>0, <1>3 DEF HandleSimple, heapVars, HeapType
  <2>5. DiskType'
    BY <1>0, <1>3 DEF HandleSimple, DiskType
  <2>. QED
    BY <2>1, <2>2, <2>3, <2>4, <2>5 DEF TypeOK
<1>4. CASE HandleUnload
  <2>1. ControlType'
    BY <1>0, <1>4 DEF HandleUnload, Return, ControlType, ControlPoints, Phases
  <2>2. StateType'
    BY <1>0, <1>4, ClearCachesType, FreeModelType, StateStay DEF HandleUnload,
        ClearUpscaler, modelVars, StateType
  <2>3. LocalsType'
    BY <1>0, <1>4, LocalsDieType, LocalsStay DEF HandleUnload, Return
  <2>4. HeapType'
    BY <1>0, <1>4 DEF HandleUnload, heapVars, HeapType
  <2>5. DiskType'
    BY <1>0, <1>4 DEF HandleUnload, DiskType
  <2>. QED
    BY <2>1, <2>2, <2>3, <2>4, <2>5 DEF TypeOK
<1>5. CASE HandleQuit
  <2>1. ControlType'
    BY <1>0, <1>5 DEF HandleQuit, AfterQuit, ControlType, ControlPoints, Phases
  <2>2. StateType'
    BY <1>0, <1>5, ClearCachesType, FreeModelType, StateStay DEF HandleQuit,
        ClearUpscaler, StateType
  <2>3. LocalsType'
    BY <1>0, <1>5 DEF HandleQuit, locals, LocalsType
  <2>4. HeapType'
    BY <1>0, <1>5 DEF HandleQuit, heapVars, HeapType
  <2>5. DiskType'
    BY <1>0, <1>5 DEF HandleQuit, DiskType
  <2>. QED
    BY <2>1, <2>2, <2>3, <2>4, <2>5 DEF TypeOK
<1>6. CASE Shutdown
  <2>1. ControlType'
    BY <1>0, <1>6 DEF Shutdown, protocolVars, ControlType, ControlPoints, Phases
  <2>2. StateType'
    BY <1>0, <1>6, ClearCachesType, FreeModelType, StateStay DEF Shutdown,
        ClearUpscaler, StateType
  <2>3. LocalsType'
    BY <1>0, <1>6 DEF Shutdown, locals, LocalsType
  <2>4. HeapType'
    BY <1>0, <1>6 DEF Shutdown, heapVars, HeapType
  <2>5. DiskType'
    BY <1>0, <1>6 DEF Shutdown, DiskType
  <2>. QED
    BY <2>1, <2>2, <2>3, <2>4, <2>5 DEF TypeOK
<1>7. CASE JsonTypeError
  <2>1. ControlType'
    BY <1>0, <1>7 DEF JsonTypeError, protocolVars, ControlType, ControlPoints,
        Phases
  <2>2. StateType'
    BY <1>0, <1>7 DEF JsonTypeError, stateVars, modelVars, StateType
  <2>3. LocalsType'
    BY <1>0, <1>7 DEF JsonTypeError, locals, LocalsType
  <2>4. HeapType'
    BY <1>0, <1>7 DEF JsonTypeError, heapVars, HeapType
  <2>5. DiskType'
    BY <1>0, <1>7 DEF JsonTypeError, DiskType
  <2>. QED
    BY <2>1, <2>2, <2>3, <2>4, <2>5 DEF TypeOK
<1>8. CASE LoadStart
  <2>1. ControlType'
    BY <1>0, <1>8 DEF LoadStart, Continue, Return, ControlType, ControlPoints,
        Phases
  <2>2. StateType'
    BY <1>0, <1>8, ClearCachesType, FreeModelType, StateStay DEF LoadStart,
        ClearUpscaler, stateVars, modelVars, StateType
  <2>3. LocalsType'
    BY <1>0, <1>8, LocalsDieType, LocalsStay DEF LoadStart, Return
  <2>4. HeapType'
    BY <1>0, <1>8 DEF LoadStart, heapVars, HeapType
  <2>5. DiskType'
    BY <1>0, <1>8 DEF LoadStart, DiskType
  <2>. QED
    BY <2>1, <2>2, <2>3, <2>4, <2>5 DEF TypeOK
<1>9. CASE LoadModel
  <2>1. ControlType'
    BY <1>0, <1>9 DEF LoadModel, Continue, Return, LibraryProgress, ControlType,
        ControlPoints, Phases
  <2>2. StateType'
    BY <1>0, <1>9 DEF LoadModel, StateType
  <2>3. LocalsType'
    BY <1>0, <1>9, LocalsDieType, LocalsStay DEF LoadModel, Return
  <2>4. HeapType'
    BY <1>0, <1>9 DEF LoadModel, heapVars, HeapType
  <2>5. DiskType'
    BY <1>0, <1>9 DEF LoadModel, DiskType
  <2>. QED
    BY <2>1, <2>2, <2>3, <2>4, <2>5 DEF TypeOK
<1>10. CASE LoadUpscaler
  <2>1. ControlType'
    BY <1>0, <1>10 DEF LoadUpscaler, Return, LibraryProgress, ControlType,
        ControlPoints, Phases
  <2>2. StateType'
    BY <1>0, <1>10 DEF LoadUpscaler, FreeModel, modelVars, StateType
  <2>3. LocalsType'
    BY <1>0, <1>10, LocalsDieType, LocalsStay DEF LoadUpscaler, Return
  <2>4. HeapType'
    BY <1>0, <1>10 DEF LoadUpscaler, heapVars, HeapType
  <2>5. DiskType'
    BY <1>0, <1>10 DEF LoadUpscaler, DiskType
  <2>. QED
    BY <2>1, <2>2, <2>3, <2>4, <2>5 DEF TypeOK
<1>11. CASE UpscaleStart
  <2>1. ControlType'
    BY <1>0, <1>11 DEF UpscaleStart, Continue, Return, ControlType,
        ControlPoints, Phases
  <2>2. StateType'
    BY <1>0, <1>11 DEF UpscaleStart, stateVars, modelVars, StateType
  <2>3. LocalsType'
    BY <1>0, <1>11, LocalsDieType, LocalsStay DEF UpscaleStart, Return
  <2>4. HeapType'
    BY <1>0, <1>11 DEF UpscaleStart, heapVars, HeapType
  <2>5. DiskType'
    BY <1>0, <1>11 DEF UpscaleStart, DiskType
  <2>. QED
    BY <2>1, <2>2, <2>3, <2>4, <2>5 DEF TypeOK
<1>12. CASE UpscaleUpscaler
  <2>1. ControlType'
    BY <1>0, <1>12 DEF UpscaleUpscaler, Return, InstallCallback,
        LibraryProgress, ControlType, ControlPoints, Phases
  <2>2. StateType'
    BY <1>0, <1>12 DEF UpscaleUpscaler, stateVars, modelVars, StateType
  <2>3. LocalsType'
    <3>1. CASE LocalsDie
      BY <3>1, LocalsDieType
    <3>2. ASSUME NEW n \in 1 .. MaxRepeats, req' = [NoRequest EXCEPT !.repeats = n],
                 UNCHANGED <<cond, lats, idx, image, result, usesResult>>
          PROVE  LocalsType'
      <4>1. n \in Nat
        BY RequestAssumption
      <4>. QED
        BY <1>0, <3>2, <4>1, UpscaleRequestType DEF LocalsType
    <3>. QED
      BY <1>12, <3>1, <3>2 DEF UpscaleUpscaler, Return
  <2>4. HeapType'
    BY <1>0, <1>12 DEF UpscaleUpscaler, HeapType
  <2>5. DiskType'
    BY <1>0, <1>12 DEF UpscaleUpscaler, DiskType
  <2>. QED
    BY <2>1, <2>2, <2>3, <2>4, <2>5 DEF TypeOK
<1>13. CASE UpscaleInput
  <2>1. ControlType'
    BY <1>0, <1>13 DEF UpscaleInput, Continue, Return, ControlType,
        ControlPoints, Phases
  <2>2. StateType'
    BY <1>0, <1>13 DEF UpscaleInput, stateVars, modelVars, StateType
  <2>3. LocalsType'
    <3>1. CASE LocalsDie
      BY <3>1, LocalsDieType
    <3>2. CASE ~LocalsDie
      BY <1>0, <1>13, <3>2 DEF UpscaleInput, Return, LocalsType
    <3>. QED
      BY <3>1, <3>2
  <2>4. HeapType'
    <3>1. CASE bufs' = {1}
      <4>1. temp' \in BOOLEAN /\ UNCHANGED <<pixels, memoryError>>
        BY <1>0, <1>13 DEF UpscaleInput, FreeTemp, HeapType
      <4>. QED
        BY <1>0, <3>1, <4>1 DEF HeapType
    <3>2. CASE bufs' = bufs
      BY <1>0, <1>13, <3>2 DEF UpscaleInput, FreeTemp, HeapType
    <3>. QED
      BY <1>13, <3>1, <3>2 DEF UpscaleInput
  <2>5. DiskType'
    BY <1>0, <1>13 DEF UpscaleInput, DiskType
  <2>. QED
    BY <2>1, <2>2, <2>3, <2>4, <2>5 DEF TypeOK
<1>14. CASE UpscalePass
  <2>1. ControlType'
    BY <1>0, <1>14 DEF UpscalePass, Return, LibraryProgress, ControlType,
        ControlPoints, Phases
  <2>2. StateType'
    BY <1>0, <1>14 DEF UpscalePass, stateVars, modelVars, StateType
  <2>3. LocalsType'
    <3>1. CASE LocalsDie
      BY <3>1, LocalsDieType
    <3>2. CASE ~LocalsDie
      BY <1>0, <1>14, <3>2 DEF UpscalePass, Return, LocalsType
    <3>. QED
      BY <3>1, <3>2
  <2>4. HeapType'
    <3>1. CASE Free(<<image>>)
      BY <1>0, <1>14, <3>1, FreeType DEF UpscalePass, FreeTemp, HeapType
    <3>2. CASE ~Free(<<image>>)
      <4>1. idx + 1 \in Nat
        BY <1>0 DEF LocalsType
      <4>. QED
        BY <1>0, <1>14, <3>2, <4>1 DEF UpscalePass, HeapType
    <3>. QED
      BY <3>1, <3>2
  <2>5. DiskType'
    BY <1>0, <1>14 DEF UpscalePass, DiskType
  <2>. QED
    BY <2>1, <2>2, <2>3, <2>4, <2>5 DEF TypeOK
<1>15. CASE UpscaleSave
  <2>1. ControlType'
    BY <1>0, <1>15 DEF UpscaleSave, Return, ControlType, ControlPoints, Phases
  <2>2. StateType'
    BY <1>0, <1>15 DEF UpscaleSave, stateVars, modelVars, StateType
  <2>3. LocalsType'
    BY <1>0, <1>15, LocalsDieType, LocalsStay DEF UpscaleSave, Return
  <2>4. HeapType'
    BY <1>0, <1>15 DEF UpscaleSave, Free, FreeTemp, HeapType
  <2>5. DiskType'
    BY <1>0, <1>15 DEF UpscaleSave, DiskType
  <2>. QED
    BY <2>1, <2>2, <2>3, <2>4, <2>5 DEF TypeOK
<1>16. CASE GenerateStart
  <2>1. ControlType'
    BY <1>0, <1>16 DEF GenerateStart, Return, InstallCallback, ControlType,
        ControlPoints, Phases
  <2>2. StateType'
    BY <1>0, <1>16 DEF GenerateStart, stateVars, modelVars, StateType
  <2>3. LocalsType'
    <3>1. CASE LocalsDie
      BY <3>1, LocalsDieType
    <3>2. CASE ~LocalsDie
      BY <1>0, <1>16, <3>2 DEF GenerateStart, Return, locals, LocalsType
    <3>. QED
      BY <3>1, <3>2
  <2>4. HeapType'
    BY <1>0, <1>16 DEF GenerateStart, heapVars, HeapType
  <2>5. DiskType'
    BY <1>0, <1>16 DEF GenerateStart, DiskType
  <2>. QED
    BY <2>1, <2>2, <2>3, <2>4, <2>5 DEF TypeOK
<1>17. CASE GenerateParams
  <2>1. ControlType'
    BY <1>0, <1>17 DEF GenerateParams, Continue, Return, ControlType,
        ControlPoints, Phases
  <2>2. StateType'
    BY <1>0, <1>17 DEF GenerateParams, stateVars, modelVars, StateType
  <2>3. LocalsType'
    <3>1. CASE LocalsDie
      BY <3>1, LocalsDieType
    <3>2. CASE ~LocalsDie
      <4>1. req' \in Requests
        BY <1>17, <3>2, GenerateRequestType DEF GenerateParams, Return
      <4>. QED
        BY <1>0, <1>17, <3>2, <4>1 DEF GenerateParams, Return, LocalsType
    <3>. QED
      BY <3>1, <3>2
  <2>4. HeapType'
    BY <1>0, <1>17 DEF GenerateParams, heapVars, HeapType
  <2>5. DiskType'
    BY <1>0, <1>17 DEF GenerateParams, DiskType
  <2>. QED
    BY <2>1, <2>2, <2>3, <2>4, <2>5 DEF TypeOK
<1>18. CASE LoadRef
  <2>1. ControlType'
    BY <1>0, <1>18 DEF LoadRef, Return, ControlType, ControlPoints, Phases
  <2>2. StateType'
    BY <1>0, <1>18 DEF LoadRef, stateVars, modelVars, StateType
  <2>3. LocalsType'
    <3>1. CASE LocalsDie
      BY <3>1, LocalsDieType
    <3>2. CASE ~LocalsDie
      BY <1>0, <1>18, <3>2 DEF LoadRef, Return, LocalsType
    <3>. QED
      BY <3>1, <3>2
  <2>4. HeapType'
    <3>1. CASE pixels' = <<>>
      BY <1>0, <1>18, <3>1, EmptyIsSeq DEF LoadRef, HeapType
    <3>2. CASE pixels' = Append(pixels, disk[req.refs[idx]].ver)
      <4>1. idx \in 1 .. Len(req.refs)
        BY <1>0, <1>18, RefsType DEF LoadRef, LocalsType
      <4>2. req.refs[idx] \in Paths
        BY <1>0, <4>1, RefsType
      <4>3. disk[req.refs[idx]].ver \in Nat
        BY <1>0, <4>2 DEF DiskType
      <4>. QED
        BY <1>0, <1>18, <3>2, <4>3 DEF LoadRef, HeapType
    <3>. QED
      BY <1>18, <3>1, <3>2 DEF LoadRef
  <2>5. DiskType'
    BY <1>0, <1>18 DEF LoadRef, DiskType
  <2>. QED
    BY <2>1, <2>2, <2>3, <2>4, <2>5 DEF TypeOK
<1>19. CASE OutputDir
  <2>1. ControlType'
    BY <1>0, <1>19 DEF OutputDir, Continue, Return, ControlType, ControlPoints,
        Phases
  <2>2. StateType'
    BY <1>0, <1>19 DEF OutputDir, stateVars, modelVars, StateType
  <2>3. LocalsType'
    <3>1. CASE LocalsDie
      BY <3>1, LocalsDieType
    <3>2. CASE ~LocalsDie
      BY <1>0, <1>19, <3>2 DEF OutputDir, Return, LocalsType
    <3>. QED
      BY <3>1, <3>2
  <2>4. HeapType'
    BY <1>0, <1>19, EmptyIsSeq DEF OutputDir, HeapType
  <2>5. DiskType'
    BY <1>0, <1>19 DEF OutputDir, DiskType
  <2>. QED
    BY <2>1, <2>2, <2>3, <2>4, <2>5 DEF TypeOK
<1>20. CASE Condition
  <2>1. ControlType'
    BY <1>0, <1>20 DEF Condition, Continue, ControlType, ControlPoints, Phases
  <2>2. StateType'
    <3>1. prompts' \in Seq(PromptEntries)
      BY <1>0, <1>20, ConditionCaches
    <3>. QED
      BY <1>0, <1>20, <3>1 DEF Condition, modelVars, StateType
  <2>3. LocalsType'
    <3>1. cond' \in Prompts \cup {Null}
      <4>1. req.prompt \in Prompts \cup {Null}
        BY <1>0 DEF LocalsType, Requests
      <4>. QED
        BY <1>0, <1>20, <4>1 DEF Condition, LocalsType
    <3>. QED
      BY <1>0, <1>20, <3>1 DEF Condition, LocalsType
  <2>4. HeapType'
    BY <1>0, <1>20 DEF Condition, heapVars, HeapType
  <2>5. DiskType'
    BY <1>0, <1>20 DEF Condition, DiskType
  <2>. QED
    BY <2>1, <2>2, <2>3, <2>4, <2>5 DEF TypeOK
<1>21. CASE RefCache
  <2>1. ControlType'
    BY <1>0, <1>21 DEF RefCache, Continue, ControlType, ControlPoints, Phases
  <2>2. StateType'
    BY <1>0, <1>21 DEF RefCache, stateVars, modelVars, StateType
  <2>3. LocalsType'
    BY <1>0, <1>21 DEF RefCache, locals, LocalsType
  <2>4. HeapType'
    BY <1>0, <1>21 DEF RefCache, heapVars, HeapType
  <2>5. DiskType'
    BY <1>0, <1>21 DEF RefCache, DiskType
  <2>. QED
    BY <2>1, <2>2, <2>3, <2>4, <2>5 DEF TypeOK
<1>22. CASE LookupRef
  <2>1. ControlType'
    BY <1>0, <1>22 DEF LookupRef, protocolVars, ControlType, ControlPoints,
        Phases
  <2>2. StateType'
    <3>1. latents' \in Seq(LatentEntries)
      BY <1>0, <1>22, LookupCaches
    <3>. QED
      BY <1>0, <1>22, <3>1 DEF LookupRef, modelVars, StateType
  <2>3. LocalsType'
    <3>1. lats' \in Seq(Latents \cup {Null})
      BY <1>0, <1>22, LookupCaches
    <3>. QED
      BY <1>0, <1>22, <3>1 DEF LookupRef, LocalsType
  <2>4. HeapType'
    BY <1>0, <1>22 DEF LookupRef, heapVars, HeapType
  <2>5. DiskType'
    BY <1>0, <1>22 DEF LookupRef, DiskType
  <2>. QED
    BY <2>1, <2>2, <2>3, <2>4, <2>5 DEF TypeOK
<1>23. CASE LookupDone
  <2>1. ControlType'
    BY <1>0, <1>23 DEF LookupDone, Continue, ControlType, ControlPoints, Phases
  <2>2. StateType'
    BY <1>0, <1>23 DEF LookupDone, stateVars, modelVars, StateType
  <2>3. LocalsType'
    BY <1>0, <1>23 DEF LookupDone, LocalsType
  <2>4. HeapType'
    BY <1>0, <1>23 DEF LookupDone, heapVars, HeapType
  <2>5. DiskType'
    BY <1>0, <1>23 DEF LookupDone, DiskType
  <2>. QED
    BY <2>1, <2>2, <2>3, <2>4, <2>5 DEF TypeOK
<1>24. CASE EncodeRef
  <2>1. ControlType'
    BY <1>0, <1>24 DEF EncodeRef, LibraryProgress, ControlType, ControlPoints,
        Phases
  <2>2. StateType'
    <3>1. latents' \in Seq(LatentEntries)
      BY <1>0, <1>24, EncodeCaches
    <3>. QED
      BY <1>0, <1>24, <3>1 DEF EncodeRef, modelVars, StateType
  <2>3. LocalsType'
    <3>1. lats' \in Seq(Latents \cup {Null})
      <4>1. CASE lats' = lats
        BY <1>0, <4>1 DEF LocalsType
      <4>2. ASSUME NEW id \in Latents, lats' = [lats EXCEPT ![idx] = id]
            PROVE  lats' \in Seq(Latents \cup {Null})
        <5>1. lats \in Seq(Latents \cup {Null})
          BY <1>0 DEF LocalsType
        <5>2. idx \in 1 .. Len(lats)
          BY <1>0, <1>24, RefsType DEF EncodeRef, SlotsMatch, LocalsType
        <5>. QED
          BY <5>1, <5>2, <4>2, ExceptSeq
      <4>. QED
        BY <1>24, <4>1, <4>2 DEF EncodeRef, StoreLatent
    <3>. QED
      BY <1>0, <1>24, <3>1 DEF EncodeRef, LocalsType
  <2>4. HeapType'
    BY <1>0, <1>24 DEF EncodeRef, StoreLatent, heapVars, HeapType
  <2>5. DiskType'
    BY <1>0, <1>24 DEF EncodeRef, DiskType
  <2>. QED
    BY <2>1, <2>2, <2>3, <2>4, <2>5 DEF TypeOK
<1>25. CASE EncodeDone
  <2>1. ControlType'
    BY <1>0, <1>25 DEF EncodeDone, Continue, ControlType, ControlPoints, Phases
  <2>2. StateType'
    BY <1>0, <1>25 DEF EncodeDone, stateVars, modelVars, StateType
  <2>3. LocalsType'
    BY <1>0, <1>25 DEF EncodeDone, LocalsType
  <2>4. HeapType'
    BY <1>0, <1>25 DEF EncodeDone, heapVars, HeapType
  <2>5. DiskType'
    BY <1>0, <1>25 DEF EncodeDone, DiskType
  <2>. QED
    BY <2>1, <2>2, <2>3, <2>4, <2>5 DEF TypeOK
<1>26. CASE LibraryDies
  <2>1. ControlType'
    BY <1>0, <1>26 DEF LibraryDies, protocolVars, ControlType,
        ControlPoints, Phases
  <2>2. StateType'
    BY <1>0, <1>26 DEF LibraryDies, stateVars, modelVars, StateType
  <2>3. LocalsType'
    BY <1>0, <1>26 DEF LibraryDies, locals, LocalsType
  <2>4. HeapType'
    BY <1>0, <1>26 DEF LibraryDies, heapVars, HeapType
  <2>5. DiskType'
    BY <1>0, <1>26 DEF LibraryDies, DiskType
  <2>. QED
    BY <2>1, <2>2, <2>3, <2>4, <2>5 DEF TypeOK
<1>27. CASE Run
  <2>1. ControlType'
    BY <1>0, <1>27 DEF Run, Continue, Return, LibraryProgress, ControlType,
        ControlPoints, Phases
  <2>2. StateType'
    <3>1. req.tiled \in BOOLEAN
      BY <1>0 DEF LocalsType, Requests
    <3>. QED
      BY <1>0, <1>27, <3>1 DEF Run, StateType
  <2>3. LocalsType'
    <3>1. CASE LocalsDie
      BY <3>1, LocalsDieType
    <3>2. CASE result' = 1 /\ image' = 1 /\ usesResult' = TRUE
               /\ UNCHANGED <<req, cond, lats, idx>>
      BY <1>0, <3>2 DEF LocalsType
    <3>. QED
      BY <1>27, <3>1, <3>2 DEF Run, Return
  <2>4. HeapType'
    <3>1. pixels' \in Seq(Nat)
      BY <1>27, EmptyIsSeq DEF Run
    <3>2. bufs' \in SUBSET Nat
      <4>1. CASE bufs' = {0, 1}
        BY <4>1
      <4>2. CASE bufs' = bufs
        BY <1>0, <4>2 DEF HeapType
      <4>. QED
        BY <1>27, <4>1, <4>2 DEF Run
    <3>3. memoryError' \in BOOLEAN
      BY <1>0, <1>27 DEF Run, HeapType
    <3>. QED
      BY <1>0, <1>27, <3>1, <3>2, <3>3 DEF Run, HeapType
  <2>5. DiskType'
    BY <1>0, <1>27 DEF Run, DiskType
  <2>. QED
    BY <2>1, <2>2, <2>3, <2>4, <2>5 DEF TypeOK
<1>28. CASE UpscaleResult
  <2>1. ControlType'
    BY <1>0, <1>28 DEF UpscaleResult, Return, LibraryProgress, ControlType,
        ControlPoints, Phases
  <2>2. StateType'
    BY <1>0, <1>28 DEF UpscaleResult, stateVars, modelVars, StateType
  <2>3. LocalsType'
    <3>1. CASE LocalsDie
      BY <3>1, LocalsDieType
    <3>2. CASE ResultCleared /\ image' = idx + 1 /\ idx' = idx + 1
               /\ UNCHANGED <<req, cond, lats>>
      <4>1. idx + 1 \in Nat \ {0}
        BY <1>0 DEF LocalsType
      <4>2. result' \in Nat \cup {Null} /\ usesResult' = FALSE
        BY <1>0, <3>2 DEF ResultCleared, LocalsType
      <4>. QED
        BY <1>0, <3>2, <4>1, <4>2 DEF LocalsType
    <3>. QED
      BY <1>28, <3>1, <3>2 DEF UpscaleResult, Return
  <2>4. HeapType'
    <3>1. CASE Free(<<image, 0>>)
      BY <1>0, <1>28, <3>1, FreeType DEF UpscaleResult, HeapType
    <3>2. CASE ~Free(<<image, 0>>)
      <4>1. idx + 1 \in Nat
        BY <1>0 DEF LocalsType
      <4>. QED
        BY <1>0, <1>28, <3>2, <4>1 DEF UpscaleResult, HeapType
    <3>. QED
      BY <3>1, <3>2
  <2>5. DiskType'
    BY <1>0, <1>28 DEF UpscaleResult, DiskType
  <2>. QED
    BY <2>1, <2>2, <2>3, <2>4, <2>5 DEF TypeOK
<1>29. CASE SaveResult
  <2>1. ControlType'
    BY <1>0, <1>29 DEF SaveResult, Return, ControlType, ControlPoints, Phases
  <2>2. StateType'
    BY <1>0, <1>29 DEF SaveResult, stateVars, modelVars, StateType
  <2>3. LocalsType'
    BY <1>0, <1>29, LocalsDieType, LocalsStay DEF SaveResult, Return
  <2>4. HeapType'
    BY <1>0, <1>29 DEF SaveResult, Free, HeapType
  <2>5. DiskType'
    BY <1>0, <1>29 DEF SaveResult, DiskType
  <2>. QED
    BY <2>1, <2>2, <2>3, <2>4, <2>5 DEF TypeOK
<1>30. ASSUME NEW p \in Paths, EditRef(p) PROVE TypeOK'
  <2>1. ControlType'
    BY <1>0, <1>30 DEF EditRef, protocolVars, ControlType, ControlPoints, Phases
  <2>2. StateType'
    BY <1>0, <1>30 DEF EditRef, stateVars, modelVars, StateType
  <2>3. LocalsType'
    BY <1>0, <1>30 DEF EditRef, locals, LocalsType
  <2>4. HeapType'
    BY <1>0, <1>30 DEF EditRef, heapVars, HeapType
  <2>5. DiskType'
    <3>1. disk[p] \in [ver : Nat, exists : BOOLEAN]
      BY <1>0, <1>30 DEF DiskType
    <3>2. CASE disk' = [disk EXCEPT ![p] = [ver |-> @.ver + 1, exists |-> TRUE]]
      <4>1. [ver |-> disk[p].ver + 1, exists |-> TRUE] \in [ver : Nat, exists : BOOLEAN]
        BY <3>1
      <4>. QED
        BY <1>0, <3>2, <4>1 DEF DiskType
    <3>3. CASE disk' = [disk EXCEPT ![p].exists = FALSE]
      <4>1. [disk[p] EXCEPT !.exists = FALSE] \in [ver : Nat, exists : BOOLEAN]
        BY <3>1
      <4>. QED
        BY <1>0, <3>3, <4>1 DEF DiskType
    <3>. QED
      BY <1>30, <3>2, <3>3 DEF EditRef
  <2>. QED
    BY <2>1, <2>2, <2>3, <2>4, <2>5 DEF TypeOK
<1>31. CASE UNCHANGED vars
  BY <1>0, <1>31 DEF vars, protocolVars, stateVars, modelVars, locals, heapVars,
      TypeOK, ControlType, StateType, LocalsType, HeapType, DiskType
<1>. QED
  BY <1>1, <1>2, <1>3, <1>4, <1>5, <1>6, <1>7, <1>8, <1>9, <1>10, <1>11, <1>12,
      <1>13, <1>14, <1>15, <1>16, <1>17, <1>18, <1>19, <1>20, <1>21, <1>22,
      <1>23, <1>24, <1>25, <1>26, <1>27, <1>28, <1>29, <1>30, <1>31 DEF Next,
      Handle, Terminated
-----------------------------------------------------------------------------
(* Control flow and the heap *)

\* Every step keeps the facts that tie the locals to the control point.
LEMMA FlowStep ==
  ASSUME Inv, [Next]_vars
  PROVE  Flow'
<1>0. /\ ControlType /\ StateType /\ LocalsType /\ HeapType
      /\ StateBelongsToModel /\ Flow
  BY DEF Inv, TypeOK, Flow
<1>. USE DEF Flow, ModelAtHand, Generating, LoopIndex, PixelsMatch, SlotsMatch,
        ConditionHeld
<1>1. CASE ReadLine
  BY <1>0, <1>1 DEF ReadLine, stateVars, locals, heapVars, modelVars
<1>2. CASE CloseStdin
  BY <1>0, <1>2 DEF CloseStdin, stateVars, locals, heapVars, modelVars
<1>3. CASE HandleSimple
  BY <1>0, <1>3 DEF HandleSimple, Return, stateVars, heapVars, modelVars,
      LocalsDie
<1>4. CASE HandleUnload
  BY <1>0, <1>4 DEF HandleUnload, Return, ClearCaches, ClearUpscaler, FreeModel,
      modelVars, heapVars, LocalsDie
<1>5. CASE HandleQuit
  BY <1>0, <1>5 DEF HandleQuit, ClearCaches, ClearUpscaler, FreeModel, locals,
      heapVars, AfterQuit
<1>6. CASE Shutdown
  BY <1>0, <1>6 DEF Shutdown, ClearCaches, ClearUpscaler, FreeModel, locals,
      heapVars
<1>7. CASE JsonTypeError
  BY <1>0, <1>7 DEF JsonTypeError, stateVars, locals, heapVars, modelVars
<1>8. CASE LoadStart
  BY <1>0, <1>8 DEF LoadStart, Continue, Return, ClearCaches, ClearUpscaler,
      FreeModel, stateVars, locals, heapVars, modelVars, LocalsDie
<1>9. CASE LoadModel
  <2>1. CASE ctx' \in Models /\ pc' = "loadUpscaler"
    <3>1. ctx' # Null
      BY <2>1, NullAssumption
    <3>2. prompts' = <<>> /\ latents' = <<>> /\ ~upscaler'
      BY <1>0, <1>9 DEF LoadModel, StateBelongsToModel
    <3>. QED
      BY <1>0, <1>9, <2>1, <3>1, <3>2 DEF LoadModel, Continue, Return, locals, heapVars
  <2>2. CASE Return("error")
    BY <1>0, <1>9, <2>2 DEF LoadModel, Return, LocalsDie, heapVars
  <2>. QED
    BY <1>9, <2>1, <2>2 DEF LoadModel, Continue
<1>10. CASE LoadUpscaler
  BY <1>0, <1>10 DEF LoadUpscaler, Return, FreeModel, modelVars, heapVars,
      LocalsDie
<1>11. CASE UpscaleStart
  BY <1>0, <1>11 DEF UpscaleStart, Continue, Return, stateVars, locals,
      heapVars, modelVars, LocalsDie
<1>12. CASE UpscaleUpscaler
  BY <1>0, <1>12 DEF UpscaleUpscaler, Return, stateVars, modelVars, LocalsDie
<1>13. CASE UpscaleInput
  BY <1>0, <1>13 DEF UpscaleInput, Continue, Return, stateVars, modelVars,
      LocalsDie
<1>14. CASE UpscalePass
  BY <1>0, <1>14 DEF UpscalePass, Return, stateVars, modelVars, LocalsDie
<1>15. CASE UpscaleSave
  BY <1>0, <1>15 DEF UpscaleSave, Return, stateVars, modelVars, LocalsDie
<1>16. CASE GenerateStart
  BY <1>0, <1>16 DEF GenerateStart, Return, stateVars, locals, heapVars,
      modelVars, LocalsDie
<1>17. CASE GenerateParams
  BY <1>0, <1>17 DEF GenerateParams, Continue, Return, stateVars, heapVars,
      modelVars, LocalsDie
<1>18. CASE LoadRef
  BY <1>0, <1>18 DEF LoadRef, Return, stateVars, modelVars, LocalsDie
<1>19. CASE OutputDir
  BY <1>0, <1>19 DEF OutputDir, Continue, Return, stateVars, modelVars,
      LocalsDie
<1>20. CASE Condition
  BY <1>0, <1>20 DEF Condition, Continue, modelVars, heapVars
<1>21. CASE RefCache
  BY <1>0, <1>21 DEF RefCache, Continue, stateVars, locals, heapVars, modelVars
<1>22. CASE LookupRef
  BY <1>0, <1>22 DEF LookupRef, modelVars, heapVars
<1>23. CASE LookupDone
  BY <1>0, <1>23 DEF LookupDone, Continue, stateVars, heapVars, modelVars
<1>24. CASE EncodeRef
  <2>1. ASSUME NEW id \in Latents, lats' = [lats EXCEPT ![idx] = id]
        PROVE  Len(lats') = Len(lats)
    BY <1>0, <2>1 DEF LocalsType
  <2>2. Len(lats') = Len(lats)
    BY <1>24, <2>1 DEF EncodeRef, StoreLatent
  <2>. QED
    BY <1>0, <1>24, <2>2 DEF EncodeRef, modelVars, heapVars
<1>25. CASE EncodeDone
  BY <1>0, <1>25 DEF EncodeDone, Continue, stateVars, heapVars, modelVars
<1>26. CASE LibraryDies
  BY <1>0, <1>26 DEF LibraryDies, stateVars, locals, heapVars, modelVars
<1>27. CASE Run
  BY <1>0, <1>27 DEF Run, Continue, Return, LocalsDie
<1>28. CASE UpscaleResult
  BY <1>0, <1>28 DEF UpscaleResult, Return, stateVars, modelVars, LocalsDie
<1>29. CASE SaveResult
  BY <1>0, <1>29 DEF SaveResult, Return, stateVars, modelVars, LocalsDie
<1>30. ASSUME NEW p \in Paths, EditRef(p) PROVE Flow'
  BY <1>0, <1>30 DEF EditRef, stateVars, locals, heapVars, modelVars
<1>31. CASE UNCHANGED vars
  BY <1>0, <1>31 DEF vars, modelVars, stateVars, locals, heapVars
<1>. QED
  BY <1>1, <1>2, <1>3, <1>4, <1>5, <1>6, <1>7, <1>8, <1>9, <1>10, <1>11, <1>12,
      <1>13, <1>14, <1>15, <1>16, <1>17, <1>18, <1>19, <1>20, <1>21, <1>22,
      <1>23, <1>24, <1>25, <1>26, <1>27, <1>28, <1>29, <1>30, <1>31 DEF Next,
      Handle, Terminated

\* Every step keeps the description of the heap.
LEMMA HeapStep ==
  ASSUME Inv, [Next]_vars
  PROVE  HeapMatch'
<1>0. LocalsType /\ HeapMatch /\ LoopIndex
  BY DEF Inv, TypeOK, Flow
<1>. USE NullAssumption DEF HeapMatch, LoopIndex
<1>1. CASE ReadLine
  BY <1>0, <1>1 DEF ReadLine, locals, heapVars
<1>2. CASE CloseStdin
  BY <1>0, <1>2 DEF CloseStdin, locals, heapVars
<1>3. CASE HandleSimple
  BY <1>0, <1>3 DEF HandleSimple, Return, heapVars, LocalsDie
<1>4. CASE HandleUnload
  BY <1>0, <1>4 DEF HandleUnload, Return, heapVars, LocalsDie
<1>5. CASE HandleQuit
  BY <1>0, <1>5 DEF HandleQuit, locals, heapVars, AfterQuit
<1>6. CASE Shutdown
  BY <1>0, <1>6 DEF Shutdown, locals, heapVars
<1>7. CASE JsonTypeError
  BY <1>0, <1>7 DEF JsonTypeError, locals, heapVars
<1>8. CASE LoadStart
  BY <1>0, <1>8 DEF LoadStart, Continue, Return, locals, heapVars, LocalsDie
<1>9. CASE LoadModel
  BY <1>0, <1>9 DEF LoadModel, Continue, Return, locals, heapVars, LocalsDie
<1>10. CASE LoadUpscaler
  BY <1>0, <1>10 DEF LoadUpscaler, Return, heapVars, LocalsDie
<1>11. CASE UpscaleStart
  BY <1>0, <1>11 DEF UpscaleStart, Continue, Return, locals, heapVars, LocalsDie
<1>12. CASE UpscaleUpscaler
  BY <1>0, <1>12 DEF UpscaleUpscaler, Return, LocalsDie
<1>13. CASE UpscaleInput
  BY <1>0, <1>13 DEF UpscaleInput, Continue, Return, FreeTemp, LocalsDie
<1>14. CASE UpscalePass
  BY <1>0, <1>14 DEF UpscalePass, Return, Free, FreeTemp, LocalsDie
<1>15. CASE UpscaleSave
  BY <1>0, <1>15 DEF UpscaleSave, Return, Free, FreeTemp, LocalsDie
<1>16. CASE GenerateStart
  BY <1>0, <1>16 DEF GenerateStart, Return, locals, heapVars, LocalsDie
<1>17. CASE GenerateParams
  BY <1>0, <1>17 DEF GenerateParams, Continue, Return, heapVars, LocalsDie
<1>18. CASE LoadRef
  BY <1>0, <1>18 DEF LoadRef, Return, LocalsDie
<1>19. CASE OutputDir
  BY <1>0, <1>19 DEF OutputDir, Continue, Return, LocalsDie
<1>20. CASE Condition
  BY <1>0, <1>20 DEF Condition, Continue, heapVars
<1>21. CASE RefCache
  BY <1>0, <1>21 DEF RefCache, Continue, locals, heapVars
<1>22. CASE LookupRef
  BY <1>0, <1>22 DEF LookupRef, heapVars
<1>23. CASE LookupDone
  BY <1>0, <1>23 DEF LookupDone, Continue, heapVars
<1>24. CASE EncodeRef
  BY <1>0, <1>24 DEF EncodeRef, StoreLatent, heapVars
<1>25. CASE EncodeDone
  BY <1>0, <1>25 DEF EncodeDone, Continue, heapVars
<1>26. CASE LibraryDies
  BY <1>0, <1>26 DEF LibraryDies, locals, heapVars
<1>27. CASE Run
  BY <1>0, <1>27 DEF Run, Continue, Return, LocalsDie
<1>28. CASE UpscaleResult
  <2>1. /\ idx \in Nat \ {0} /\ image = idx /\ bufs = {0, idx} /\ ~temp
        /\ usesResult = (idx = 1) /\ result = IF usesResult THEN idx ELSE Null
    BY <1>0, <1>28 DEF UpscaleResult, LocalsType
  <2>2. CASE Return("error")
    <3>1. bufs' = {}
      BY <1>28, <2>1, <2>2 DEF UpscaleResult, Free, Return
    <3>. QED
      BY <1>28, <2>1, <2>2, <3>1 DEF UpscaleResult, Return, LocalsDie
  <2>3. CASE ResultCleared /\ image' = idx + 1 /\ idx' = idx + 1 /\ pc' = pc
             /\ bufs' = (bufs \ {image}) \cup {idx + 1}
    <3>1. bufs' = {0, idx'} /\ image' = idx' /\ idx' # 1
      BY <2>1, <2>3
    <3>2. usesResult' = FALSE /\ result' = Null
      BY <2>1, <2>3 DEF ResultCleared
    <3>. QED
      BY <1>28, <2>1, <2>3, <3>1, <3>2 DEF UpscaleResult
  <2>. QED
    BY <1>28, <2>2, <2>3 DEF UpscaleResult
<1>29. CASE SaveResult
  BY <1>0, <1>29 DEF SaveResult, Return, Free, LocalsDie
<1>30. ASSUME NEW p \in Paths, EditRef(p) PROVE HeapMatch'
  BY <1>0, <1>30 DEF EditRef, locals, heapVars
<1>31. CASE UNCHANGED vars
  BY <1>0, <1>31 DEF vars, locals, heapVars
<1>. QED
  BY <1>1, <1>2, <1>3, <1>4, <1>5, <1>6, <1>7, <1>8, <1>9, <1>10, <1>11, <1>12,
      <1>13, <1>14, <1>15, <1>16, <1>17, <1>18, <1>19, <1>20, <1>21, <1>22,
      <1>23, <1>24, <1>25, <1>26, <1>27, <1>28, <1>29, <1>30, <1>31 DEF Next,
      Handle, Terminated

-----------------------------------------------------------------------------
(* The caches *)

\* The prompt cache step keeps the invariants of the caches.
LEMMA ConditionStep ==
  ASSUME Inv, Condition
  PROVE  CachesBounded' /\ StateBelongsToModel' /\ ConditionAlive'
<1>0. /\ StateType /\ LocalsType /\ ModelAtHand /\ ConditionHeld
      /\ CachesBounded /\ StateBelongsToModel
  BY DEF Inv, TypeOK, Flow
<1>1. cond = Null /\ ctx # Null /\ UNCHANGED <<ctx, decodeOnly, upscaler, latents>>
  BY <1>0 DEF Condition, ConditionHeld, ModelAtHand, Generating, modelVars
<1>2. Len(prompts') <= MaxPromptEntries /\ IsMap(prompts')
  BY <1>0, ConditionCaches
<1>3. CachesBounded'
  BY <1>0, <1>1, <1>2 DEF CachesBounded
<1>4. CASE UNCHANGED <<prompts, cond>>
  BY <1>0, <1>1, <1>3, <1>4 DEF StateBelongsToModel, ConditionAlive
<1>5. CASE cond' # Null /\ Holds(prompts', cond')
           /\ \A e \in EntriesOf(prompts') : e \in EntriesOf(prompts) \/ e.model = ctx
  <2>1. \A k \in 1 .. Len(prompts') : prompts'[k].model = ctx
    BY <1>0, <1>5 DEF EntriesOf, StateBelongsToModel
  <2>2. StateBelongsToModel'
    BY <1>0, <1>1, <2>1 DEF StateBelongsToModel
  <2>. QED
    BY <1>3, <1>5, <2>2 DEF ConditionAlive
<1>. QED
  BY <1>0, <1>4, <1>5, ConditionCaches

\* A lookup in the latent cache keeps the invariants of the caches.
LEMMA LookupStep ==
  ASSUME Inv, LookupRef
  PROVE  CachesBounded' /\ StateBelongsToModel' /\ ConditionAlive'
<1>0. /\ StateType /\ LocalsType /\ DiskType /\ ModelAtHand
      /\ CachesBounded /\ StateBelongsToModel /\ ConditionAlive
  BY DEF Inv, TypeOK, Flow
<1>1. ctx # Null /\ UNCHANGED <<ctx, decodeOnly, upscaler, prompts, cond>>
  BY <1>0 DEF LookupRef, ModelAtHand, Generating, modelVars
<1>2. /\ latents' \in Seq(LatentEntries) /\ Len(latents') <= MaxLatentEntries
      /\ IsMap(latents') /\ EntriesOf(latents') = EntriesOf(latents)
  BY <1>0, LookupCaches
<1>3. \A k \in 1 .. Len(latents') : \E j \in 1 .. Len(latents) : latents'[k] = latents[j]
  <2>1. \A k \in 1 .. Len(latents') : latents'[k] \in EntriesOf(latents)
    BY <1>2 DEF EntriesOf
  <2>. QED
    BY <2>1 DEF EntriesOf
<1>4. /\ \A k \in 1 .. Len(latents') : latents'[k].model = ctx
      /\ latents = <<>> => latents' = <<>>
  <2>1. \A k \in 1 .. Len(latents') : latents'[k].model = ctx
    BY <1>0, <1>3 DEF StateBelongsToModel
  <2>2. ASSUME latents = <<>> PROVE latents' = <<>>
    BY <1>2, <1>3, <2>2
  <2>. QED
    BY <2>1, <2>2
<1>5. StateBelongsToModel'
  BY <1>0, <1>1, <1>4 DEF StateBelongsToModel
<1>. QED
  BY <1>0, <1>1, <1>2, <1>5 DEF CachesBounded, ConditionAlive

\* An insertion into the latent cache keeps the invariants of the caches.
LEMMA EncodeStep ==
  ASSUME Inv, EncodeRef
  PROVE  CachesBounded' /\ StateBelongsToModel' /\ ConditionAlive'
<1>0. /\ StateType /\ LocalsType /\ HeapType /\ DiskType /\ ModelAtHand /\ PixelsMatch
      /\ CachesBounded /\ StateBelongsToModel /\ ConditionAlive
  BY DEF Inv, TypeOK, Flow
<1>1. ctx # Null /\ UNCHANGED <<ctx, decodeOnly, upscaler, prompts, cond>>
  BY <1>0 DEF EncodeRef, ModelAtHand, Generating, modelVars
<1>2. Len(latents') <= MaxLatentEntries /\ IsMap(latents')
  BY <1>0, EncodeCaches
<1>3. StateBelongsToModel'
  <2>1. CASE latents' = latents
    BY <1>0, <1>1, <2>1 DEF StateBelongsToModel
  <2>2. CASE ~decodeOnly
             /\ \A e \in EntriesOf(latents') : e \in EntriesOf(latents) \/ e.model = ctx
    <3>1. \A k \in 1 .. Len(latents') : latents'[k].model = ctx
      BY <1>0, <2>2 DEF EntriesOf, StateBelongsToModel
    <3>. QED
      BY <1>0, <1>1, <2>2, <3>1 DEF StateBelongsToModel
  <2>. QED
    BY <1>0, <2>1, <2>2, EncodeCaches
<1>. QED
  BY <1>0, <1>1, <1>2, <1>3 DEF CachesBounded, ConditionAlive

\* Every step keeps the invariants of the caches: the other steps leave the
\* caches alone or clear them together with what belongs to them.
LEMMA CacheStep ==
  ASSUME Inv, [Next]_vars
  PROVE  CachesBounded' /\ StateBelongsToModel' /\ ConditionAlive'
<1>0. /\ Flow /\ CachesBounded /\ StateBelongsToModel /\ ConditionAlive
  BY DEF Inv
<1>. USE NullAssumption, CapacityAssumption DEF Flow, ModelAtHand, ConditionHeld, CachesBounded, StateBelongsToModel,
        ConditionAlive, IsMap
<1>1. CASE ReadLine
  BY <1>0, <1>1 DEF ReadLine, stateVars, locals, modelVars
<1>2. CASE CloseStdin
  BY <1>0, <1>2 DEF CloseStdin, stateVars, locals, modelVars
<1>3. CASE HandleSimple
  BY <1>0, <1>3 DEF HandleSimple, Return, stateVars, modelVars, LocalsDie
<1>4. CASE HandleUnload
  BY <1>0, <1>4 DEF HandleUnload, Return, ClearCaches, ClearUpscaler, FreeModel,
      modelVars, LocalsDie
<1>5. CASE HandleQuit
  BY <1>0, <1>5 DEF HandleQuit, ClearCaches, ClearUpscaler, FreeModel, locals,
      AfterQuit
<1>6. CASE Shutdown
  BY <1>0, <1>6 DEF Shutdown, ClearCaches, ClearUpscaler, FreeModel, locals
<1>7. CASE JsonTypeError
  BY <1>0, <1>7 DEF JsonTypeError, stateVars, locals, modelVars
<1>8. CASE LoadStart
  BY <1>0, <1>8 DEF LoadStart, Continue, Return, ClearCaches, ClearUpscaler,
      FreeModel, stateVars, locals, modelVars, LocalsDie
<1>9. CASE LoadModel
  BY <1>0, <1>9 DEF LoadModel, Continue, Return, locals, LocalsDie
<1>10. CASE LoadUpscaler
  BY <1>0, <1>10 DEF LoadUpscaler, Return, FreeModel, modelVars, LocalsDie
<1>11. CASE UpscaleStart
  BY <1>0, <1>11 DEF UpscaleStart, Continue, Return, stateVars, locals,
      modelVars, LocalsDie
<1>12. CASE UpscaleUpscaler
  BY <1>0, <1>12 DEF UpscaleUpscaler, Return, stateVars, modelVars, LocalsDie
<1>13. CASE UpscaleInput
  BY <1>0, <1>13 DEF UpscaleInput, Continue, Return, stateVars, modelVars,
      LocalsDie
<1>14. CASE UpscalePass
  BY <1>0, <1>14 DEF UpscalePass, Return, stateVars, modelVars, LocalsDie
<1>15. CASE UpscaleSave
  BY <1>0, <1>15 DEF UpscaleSave, Return, stateVars, modelVars, LocalsDie
<1>16. CASE GenerateStart
  BY <1>0, <1>16 DEF GenerateStart, Return, stateVars, locals, modelVars,
      LocalsDie
<1>17. CASE GenerateParams
  BY <1>0, <1>17 DEF GenerateParams, Continue, Return, stateVars, modelVars,
      LocalsDie
<1>18. CASE LoadRef
  BY <1>0, <1>18 DEF LoadRef, Return, stateVars, modelVars, LocalsDie
<1>19. CASE OutputDir
  BY <1>0, <1>19 DEF OutputDir, Continue, Return, stateVars, modelVars,
      LocalsDie
<1>20. CASE Condition
  BY <1>20, ConditionStep
<1>21. CASE RefCache
  BY <1>0, <1>21 DEF RefCache, Continue, stateVars, locals, modelVars
<1>22. CASE LookupRef
  BY <1>22, LookupStep
<1>23. CASE LookupDone
  BY <1>0, <1>23 DEF LookupDone, Continue, stateVars, modelVars
<1>24. CASE EncodeRef
  BY <1>24, EncodeStep
<1>25. CASE EncodeDone
  BY <1>0, <1>25 DEF EncodeDone, Continue, stateVars, modelVars
<1>26. CASE LibraryDies
  BY <1>0, <1>26 DEF LibraryDies, stateVars, locals, modelVars
<1>27. CASE Run
  BY <1>0, <1>27 DEF Run, Continue, Return, LocalsDie
<1>28. CASE UpscaleResult
  BY <1>0, <1>28 DEF UpscaleResult, Return, stateVars, modelVars, LocalsDie
<1>29. CASE SaveResult
  BY <1>0, <1>29 DEF SaveResult, Return, stateVars, modelVars, LocalsDie
<1>30. ASSUME NEW p \in Paths, EditRef(p) PROVE CachesBounded' /\ StateBelongsToModel' /\ ConditionAlive'
  BY <1>0, <1>30 DEF EditRef, stateVars, locals, modelVars
<1>31. CASE UNCHANGED vars
  BY <1>0, <1>31 DEF vars, modelVars, stateVars, locals
<1>. QED
  BY <1>1, <1>2, <1>3, <1>4, <1>5, <1>6, <1>7, <1>8, <1>9, <1>10, <1>11, <1>12,
      <1>13, <1>14, <1>15, <1>16, <1>17, <1>18, <1>19, <1>20, <1>21, <1>22,
      <1>23, <1>24, <1>25, <1>26, <1>27, <1>28, <1>29, <1>30, <1>31 DEF Next,
      Handle, Terminated

-----------------------------------------------------------------------------
(* The invariant and what follows from it *)

\* The engine starts in the invariant.
LEMMA InvInit ==
  ASSUME Init
  PROVE  Inv
<1>1. TypeOK
  <2>1. ControlType
    BY DEF Init, ControlType, ControlPoints, Phases
  <2>2. StateType
    BY EmptyIsSeq DEF Init, StateType
  <2>3. LocalsType
    <3>1. req \in Requests /\ cond \in Prompts \cup {Null} /\ idx \in Nat \ {0}
      BY NoRequestType DEF Init
    <3>2. lats \in Seq(Latents \cup {Null})
      BY EmptyIsSeq DEF Init
    <3>3. image \in Nat \cup {Null} /\ result \in Nat \cup {Null}
      BY DEF Init
    <3>4. usesResult \in BOOLEAN
      BY DEF Init
    <3>. QED
      BY <3>1, <3>2, <3>3, <3>4 DEF LocalsType
  <2>4. HeapType
    BY EmptyIsSeq DEF Init, HeapType
  <2>5. DiskType
    BY DEF Init, DiskType
  <2>. QED
    BY <2>1, <2>2, <2>3, <2>4, <2>5 DEF TypeOK
<1>2. Flow /\ HeapMatch
  BY DEF Init, Flow, ModelAtHand, Generating, LoopIndex, PixelsMatch, SlotsMatch,
      ConditionHeld, HeapMatch
<1>3. CachesBounded /\ StateBelongsToModel /\ ConditionAlive
  BY CapacityAssumption DEF Init, CachesBounded, IsMap, StateBelongsToModel,
      ConditionAlive
<1>. QED
  BY <1>1, <1>2, <1>3 DEF Inv

\* The engine's inductive invariant.
THEOREM Invariance == Spec => []Inv
<1>1. Inv /\ [Next]_vars => Inv'
  BY TypeStep, FlowStep, HeapStep, CacheStep DEF Inv
<1>. QED
  BY InvInit, <1>1, PTL DEF Spec

\* Every variable has its type in every reachable state.
THEOREM TypeCorrect == Spec => []TypeOK
<1>1. Inv => TypeOK
  BY DEF Inv
<1>. QED
  BY <1>1, Invariance, PTL

\* What EngineState keeps always belongs to the model that is loaded.
THEOREM StateFollowsModel == Spec => []StateBelongsToModel
<1>1. Inv => StateBelongsToModel
  BY DEF Inv
<1>. QED
  BY <1>1, Invariance, PTL

\* Both caches stay within their capacities and hold one entry per key.
THEOREM CachesStayBounded == Spec => []CachesBounded
<1>1. Inv => CachesBounded
  BY DEF Inv
<1>. QED
  BY <1>1, Invariance, PTL

\* The condition a request points to stays in the prompt cache until the
\* request is answered.
THEOREM ConditionStaysAlive == Spec => []ConditionAlive
<1>1. Inv => ConditionAlive
  BY DEF Inv
<1>. QED
  BY <1>1, Invariance, PTL

\* What the process keeps when it has ended
NothingKept ==
  pc = "exited" => ctx = Null /\ ~upscaler /\ prompts = <<>> /\ latents = <<>>

\* The end of main is the only way there, and frees all of it.
LEMMA KeptStep ==
  ASSUME NothingKept, [Next]_vars
  PROVE  NothingKept'
<1>. USE DEF NothingKept
<1>1. CASE Shutdown
  BY <1>1 DEF Shutdown, ClearCaches, ClearUpscaler, FreeModel
<1>2. CASE UNCHANGED vars
  BY <1>2 DEF vars, stateVars, modelVars
<1>3. CASE ReadLine \/ CloseStdin \/ HandleSimple \/ HandleUnload \/ HandleQuit
           \/ JsonTypeError \/ LibraryDies
  BY <1>3 DEF ReadLine, CloseStdin, HandleSimple, HandleUnload, HandleQuit, AfterQuit,
      JsonTypeError, LibraryDies, Return
<1>4. CASE LoadStart \/ LoadModel \/ LoadUpscaler
  BY <1>4 DEF LoadStart, LoadModel, LoadUpscaler, Continue, Return
<1>5. CASE UpscaleStart \/ UpscaleUpscaler \/ UpscaleInput \/ UpscalePass \/ UpscaleSave
  BY <1>5 DEF UpscaleStart, UpscaleUpscaler, UpscaleInput, UpscalePass, UpscaleSave,
      Continue, Return
<1>6. CASE GenerateStart \/ GenerateParams \/ LoadRef \/ OutputDir
  BY <1>6 DEF GenerateStart, GenerateParams, LoadRef, OutputDir, Continue, Return
<1>7. CASE Condition \/ RefCache \/ LookupRef \/ LookupDone
  BY <1>7 DEF Condition, RefCache, LookupRef, LookupDone, Continue
<1>8. CASE EncodeRef \/ EncodeDone \/ Run
  BY <1>8 DEF EncodeRef, EncodeDone, Run, Continue, Return
<1>9. CASE UpscaleResult \/ SaveResult
  BY <1>9 DEF UpscaleResult, SaveResult, Return
<1>10. ASSUME NEW p \in Paths, EditRef(p) PROVE NothingKept'
  BY <1>10 DEF EditRef
<1>. QED
  BY <1>1, <1>2, <1>3, <1>4, <1>5, <1>6, <1>7, <1>8, <1>9, <1>10
  DEF Next, Handle, Terminated

\* Every exit of every handler frees what the handler owned, and the end of the
\* process what the engine kept between commands.
THEOREM HandlersFree == Spec => []NothingLeaks
<1>1. Init => NothingKept
  BY DEF Init, NothingKept
<1>2. Inv /\ NothingKept => NothingLeaks
  BY DEF Inv, Flow, PixelsMatch, HeapMatch, NothingKept, NothingLeaks
<1>. QED
  BY <1>1, <1>2, KeptStep, Invariance, PTL DEF Spec

\* Only the prompt cache step sets the pointer to a condition.
LEMMA NewestStep ==
  ASSUME Inv, [Next]_vars, cond' # cond, cond' # Null
  PROVE  Len(prompts') > 0 /\ prompts'[Len(prompts')].key = cond'
<1>0. /\ StateType /\ LocalsType /\ CachesBounded /\ ModelAtHand
  BY DEF Inv, TypeOK, Flow
<1>1. CASE ReadLine
  BY <1>1 DEF ReadLine, locals
<1>2. CASE CloseStdin
  BY <1>2 DEF CloseStdin, locals
<1>3. CASE HandleSimple
  BY <1>3 DEF HandleSimple, Return, LocalsDie
<1>4. CASE HandleUnload
  BY <1>4 DEF HandleUnload, Return, LocalsDie
<1>5. CASE HandleQuit
  BY <1>5 DEF HandleQuit, locals, AfterQuit
<1>6. CASE Shutdown
  BY <1>6 DEF Shutdown, locals
<1>7. CASE JsonTypeError
  BY <1>7 DEF JsonTypeError, locals
<1>8. CASE LoadStart
  BY <1>8 DEF LoadStart, Return, locals, LocalsDie
<1>9. CASE LoadModel
  BY <1>9 DEF LoadModel, Return, locals, LocalsDie
<1>10. CASE LoadUpscaler
  BY <1>10 DEF LoadUpscaler, Return, LocalsDie
<1>11. CASE UpscaleStart
  BY <1>11 DEF UpscaleStart, Return, locals, LocalsDie
<1>12. CASE UpscaleUpscaler
  BY <1>12 DEF UpscaleUpscaler, Return, LocalsDie
<1>13. CASE UpscaleInput
  BY <1>13 DEF UpscaleInput, Return, LocalsDie
<1>14. CASE UpscalePass
  BY <1>14 DEF UpscalePass, Return, LocalsDie
<1>15. CASE UpscaleSave
  BY <1>15 DEF UpscaleSave, Return, LocalsDie
<1>16. CASE GenerateStart
  BY <1>16 DEF GenerateStart, Return, locals, LocalsDie
<1>17. CASE GenerateParams
  BY <1>17 DEF GenerateParams, Return, LocalsDie
<1>18. CASE LoadRef
  BY <1>18 DEF LoadRef, Return, LocalsDie
<1>19. CASE OutputDir
  BY <1>19 DEF OutputDir, Return, LocalsDie
<1>20. CASE Condition
  BY <1>0, <1>20, ConditionCaches
<1>21. CASE RefCache
  BY <1>21 DEF RefCache, locals
<1>22. CASE LookupRef
  BY <1>22 DEF LookupRef
<1>23. CASE LookupDone
  BY <1>23 DEF LookupDone
<1>24. CASE EncodeRef
  BY <1>24 DEF EncodeRef
<1>25. CASE EncodeDone
  BY <1>25 DEF EncodeDone
<1>26. CASE LibraryDies
  BY <1>26 DEF LibraryDies, locals
<1>27. CASE Run
  BY <1>27 DEF Run, Return, LocalsDie
<1>28. CASE UpscaleResult
  BY <1>28 DEF UpscaleResult, Return, LocalsDie
<1>29. CASE SaveResult
  BY <1>29 DEF SaveResult, Return, LocalsDie
<1>30. ASSUME NEW p \in Paths, EditRef(p)
       PROVE  Len(prompts') > 0 /\ prompts'[Len(prompts')].key = cond'
  BY <1>30 DEF EditRef, locals
<1>31. CASE UNCHANGED vars
  BY <1>31 DEF vars, locals
<1>. QED
  BY <1>1, <1>2, <1>3, <1>4, <1>5, <1>6, <1>7, <1>8, <1>9, <1>10, <1>11, <1>12,
      <1>13, <1>14, <1>15, <1>16, <1>17, <1>18, <1>19, <1>20, <1>21, <1>22,
      <1>23, <1>24, <1>25, <1>26, <1>27, <1>28, <1>29, <1>30, <1>31 DEF Next,
      Handle, Terminated

\* The order of eviction is the order of use: a prompt that a request uses
\* becomes the newest entry.
THEOREM UsedPromptBecomesNewest == Spec => UsedPromptIsNewest
<1>1. ASSUME Inv, [Next]_vars
      PROVE  [cond' # cond /\ cond' # Null
                => Len(prompts') > 0 /\ prompts'[Len(prompts')].key = cond']_vars
  BY <1>1, NewestStep
<1>. QED
  BY <1>1, Invariance, PTL DEF Spec, UsedPromptIsNewest
-----------------------------------------------------------------------------
(* What the latents of a request point to.  Two of its conditions are about *)
(* the requests, the third about the files; the runs engine_repeated_ref    *)
(* and engine_racing_edit show what happens without them.                   *)

\* No request names a file twice or more files than the latent cache has
\* entries, and no file changes while a request is served.
RefsFit ==
  /\ \A refs \in RefLists :
       /\ Len(refs) <= MaxLatentEntries
       /\ \A i, j \in 1 .. Len(refs) : refs[i] = refs[j] => i = j
  /\ ~RacingEdits

\* The buffers hold what the files still hold.
PixelsOfDisk ==
  pc \in {"loadRefs", "prompt", "refCache", "lookup", "encode", "run"} =>
    \A k \in 1 .. Len(pixels) :
      disk[req.refs[k]].exists /\ disk[req.refs[k]].ver = pixels[k]

\* A latent is cached under the version of the file that it encodes.
KeysTellVersion == \A e \in EntriesOf(latents) : e.key[2] = e.ver

\* The keys of the entries that the request's pointers go to.
UsedKeys ==
  {LatentKey(req.refs[k]) : k \in {i \in 1 .. Len(lats) : lats[i] # Null}}

\* A slot of cached_latents is null as long as its file is not in the cache, or
\* points to the entry of its file; the entries pointed to are the newest.
SlotsPoint ==
  pc \in {"lookup", "encode", "run"} =>
    /\ Len(lats) <= Len(req.refs)
    /\ \A k \in 1 .. Len(lats) :
         LET key == LatentKey(req.refs[k])
         IN  IF lats[k] = Null
             THEN \A e \in EntriesOf(latents) : e.key # key
             ELSE \E e \in EntriesOf(latents) : e.key = key /\ e.obj = lats[k]
    /\ Newest(latents, UsedKeys)

\* What must be added to Inv for the latents of a request.
Pointed == PixelsOfDisk /\ KeysTellVersion /\ SlotsPoint /\ MemorySafe

\* The references of a request are as RefsFit says, none included.
LEMMA RequestFits ==
  ASSUME RefsFit, LocalsType
  PROVE  /\ Len(req.refs) <= MaxLatentEntries
         /\ \A i, j \in 1 .. Len(req.refs) : req.refs[i] = req.refs[j] => i = j
<1>1. req.refs \in RefLists \cup {<<>>}
  BY DEF LocalsType, Requests
<1>2. CASE req.refs \in RefLists
  BY <1>2 DEF RefsFit
<1>3. CASE req.refs = <<>>
  BY <1>3, CapacityAssumption
<1>. QED
  BY <1>1, <1>2, <1>3

\* Different references have different keys.
LEMMA KeysDiffer ==
  ASSUME RefsFit, LocalsType, NEW i \in 1 .. Len(req.refs), NEW j \in 1 .. Len(req.refs),
         LatentKey(req.refs[i]) = LatentKey(req.refs[j])
  PROVE  i = j
<1>1. req.refs[i] = req.refs[j]
  BY DEF LatentKey
<1>. QED
  BY <1>1, RequestFits

\* There are at most as many keys in use as slots, and fewer if one is empty.
LEMMA UsedKeysFew ==
  ASSUME LocalsType
  PROVE  /\ IsFiniteSet(UsedKeys)
         /\ Cardinality(UsedKeys) <= Len(lats)
         /\ \A k \in 1 .. Len(lats) : lats[k] = Null => Cardinality(UsedKeys) < Len(lats)
<1>. DEFINE n == Len(lats)
            full == {i \in 1 .. n : lats[i] # Null}
            key == [i \in full |-> LatentKey(req.refs[i])]
<1>0. n \in Nat
  BY DEF LocalsType
<1>1. IsFiniteSet(1 .. n) /\ Cardinality(1 .. n) = n
  BY <1>0, FS_Interval
<1>2. IsFiniteSet(full) /\ Cardinality(full) <= n /\ Cardinality(full) \in Nat
  BY <1>1, FS_Subset, FS_CardinalityType
<1>3. UsedKeys = {LatentKey(req.refs[i]) : i \in full}
  BY DEF UsedKeys
<1>4. key \in Surjection(full, UsedKeys)
  BY <1>3 DEF Surjection
<1>5. /\ IsFiniteSet(UsedKeys) /\ Cardinality(UsedKeys) <= Cardinality(full)
      /\ Cardinality(UsedKeys) \in Nat
  BY <1>2, <1>4, FS_Surjection, FS_CardinalityType
<1>6. ASSUME NEW k \in 1 .. n, lats[k] = Null
      PROVE  Cardinality(full) < n
  <2>1. IsFiniteSet((1 .. n) \ {k}) /\ Cardinality((1 .. n) \ {k}) = n - 1
    BY <1>1, FS_RemoveElement
  <2>2. full \subseteq (1 .. n) \ {k}
    BY <1>6
  <2>3. Cardinality(full) <= n - 1
    BY <2>1, <2>2, FS_Subset
  <2>. QED
    BY <1>0, <1>2, <2>3
<1>. QED
  BY <1>0, <1>2, <1>5, <1>6

\* Looking a reference up fills the next slot and keeps the others right.
LEMMA LookupPoints ==
  ASSUME Inv, RefsFit, KeysTellVersion, SlotsPoint, LookupRef
  PROVE  KeysTellVersion' /\ SlotsPoint'
<1>. DEFINE n == Len(lats)
            key == LatentKey(req.refs[idx])
<1>0. /\ StateType /\ LocalsType /\ DiskType /\ CachesBounded /\ SlotsMatch
      /\ pc = "lookup" /\ pc' = "lookup" /\ UNCHANGED <<req, disk>>
  BY DEF Inv, TypeOK, Flow, LookupRef
<1>1. /\ latents \in Seq(LatentEntries) /\ IsMap(latents)
      /\ lats \in Seq(Latents \cup {Null}) /\ n \in Nat
      /\ idx = n + 1 /\ idx \in 1 .. Len(req.refs)
  <2>1. Len(req.refs) \in Nat
    BY <1>0, RefsType
  <2>. QED
    BY <1>0, <2>1 DEF StateType, LocalsType, CachesBounded, SlotsMatch, LookupRef
<1>2. EntriesOf(latents') = EntriesOf(latents)
  BY <1>0, LookupCaches
<1>3. \A p : LatentKey(p)' = LatentKey(p)
  BY <1>0 DEF LatentKey, Stamp
<1>4. KeysTellVersion'
  BY <1>2 DEF KeysTellVersion
<1>5. PICK x \in Latents \cup {Null} :
        /\ lats' = Append(lats, x)
        /\ IF x = Null THEN \A e \in EntriesOf(latents) : e.key # key
                       ELSE \E e \in EntriesOf(latents) : e.key = key /\ e.obj = x
        /\ IF x = Null THEN latents' = latents
                       ELSE Holds(latents, key) /\ latents' = Touch(latents, key)
  <2>1. CASE Holds(latents, key)
    <3>1. /\ PositionOf(latents, key) \in 1 .. Len(latents)
          /\ Lookup(latents, key) = latents[PositionOf(latents, key)]
          /\ Lookup(latents, key).key = key
      BY <1>1, <2>1, PositionFound DEF Lookup
    <3>2. Lookup(latents, key) \in EntriesOf(latents) /\ Lookup(latents, key) \in LatentEntries
      BY <1>1, <3>1 DEF EntriesOf
    <3>3. Lookup(latents, key).obj \in Latents
      BY <3>2 DEF LatentEntries
    <3>4. Lookup(latents, key).obj # Null
      BY <3>3, NullAssumption
    <3>. QED
      BY <2>1, <3>1, <3>2, <3>3, <3>4 DEF LookupRef
  <2>2. CASE ~Holds(latents, key)
    <3>1. \A e \in EntriesOf(latents) : e.key # key
      BY <2>2 DEF Holds, KeysOf, EntriesOf
    <3>. QED
      BY <2>2, <3>1 DEF LookupRef
  <2>. QED
    BY <2>1, <2>2
<1>6. /\ lats' \in Seq(Latents \cup {Null}) /\ Len(lats') = n + 1 /\ lats'[n + 1] = x
      /\ \A k \in 1 .. n : lats'[k] = lats[k]
  BY <1>1, <1>5
<1>7. Len(lats') <= Len(req'.refs)
  BY <1>0, <1>1, <1>6
<1>8. ASSUME NEW k \in 1 .. Len(lats')
      PROVE  IF lats'[k] = Null
             THEN \A e \in EntriesOf(latents') : e.key # LatentKey(req.refs[k])
             ELSE \E e \in EntriesOf(latents') : e.key = LatentKey(req.refs[k]) /\ e.obj = lats'[k]
  <2>1. CASE k \in 1 .. n
    BY <1>0, <1>2, <1>6, <2>1 DEF SlotsPoint
  <2>2. CASE k = n + 1
    BY <1>1, <1>2, <1>5, <1>6, <2>2
  <2>. QED
    BY <1>1, <1>6, <2>1, <2>2
<1>9. Newest(latents', UsedKeys')
  <2>1. UsedKeys' = {LatentKey(req.refs[k]) : k \in {i \in 1 .. n + 1 : lats'[i] # Null}}
    BY <1>0, <1>3, <1>6 DEF UsedKeys
  <2>2. CASE x = Null
    <3>1. {i \in 1 .. n + 1 : lats'[i] # Null} = {i \in 1 .. n : lats[i] # Null}
      BY <1>1, <1>6, <2>2
    <3>2. UsedKeys' = UsedKeys
      BY <2>1, <3>1 DEF UsedKeys
    <3>. QED
      BY <1>0, <1>5, <2>2, <3>2 DEF SlotsPoint
  <2>3. CASE x # Null
    <3>1. {i \in 1 .. n + 1 : lats'[i] # Null} = {i \in 1 .. n : lats[i] # Null} \cup {n + 1}
      BY <1>1, <1>6, <2>3
    <3>2. UsedKeys' = UsedKeys \cup {key}
      BY <1>1, <2>1, <3>1 DEF UsedKeys
    <3>3. Newest(latents, UsedKeys)
      BY <1>0 DEF SlotsPoint
    <3>. QED
      BY <1>1, <1>5, <2>3, <3>2, <3>3, TouchNewest
  <2>. QED
    BY <2>2, <2>3
<1>. QED
  BY <1>0, <1>3, <1>4, <1>7, <1>8, <1>9 DEF SlotsPoint

\* Encoding a reference fills its slot, evicts nothing the request points to
\* and keeps the other slots right.
LEMMA EncodePoints ==
  ASSUME Inv, RefsFit, PixelsOfDisk, KeysTellVersion, SlotsPoint, EncodeRef
  PROVE  KeysTellVersion' /\ SlotsPoint'
<1>. DEFINE n == Len(lats)
            key == LatentKey(req.refs[idx])
<1>0. /\ StateType /\ LocalsType /\ HeapType /\ DiskType /\ CachesBounded
      /\ ModelAtHand /\ PixelsMatch /\ SlotsMatch
      /\ pc = "encode" /\ pc' = "encode" /\ UNCHANGED <<req, disk>>
  BY DEF Inv, TypeOK, Flow, EncodeRef
<1>1. \A p : LatentKey(p)' = LatentKey(p)
  BY <1>0 DEF LatentKey, Stamp
<1>2. CASE UNCHANGED <<latents, lats>>
  <2>1. UsedKeys' = UsedKeys
    BY <1>0, <1>1, <1>2 DEF UsedKeys
  <2>. QED
    BY <1>0, <1>1, <1>2, <2>1 DEF KeysTellVersion, SlotsPoint
<1>3. ASSUME NEW id \in Latents, StoreLatent(id), lats[idx] = Null
      PROVE  KeysTellVersion' /\ SlotsPoint'
  <2>. DEFINE entry == [key |-> key, obj |-> id, model |-> ctx,
                        ver |-> pixels[idx], tiled |-> tiling]
  <2>1. /\ latents \in Seq(LatentEntries) /\ IsMap(latents)
        /\ Len(latents) <= MaxLatentEntries /\ MaxLatentEntries \in Nat \ {0}
        /\ lats \in Seq(Latents \cup {Null}) /\ n \in Nat
        /\ n = Len(req.refs) /\ idx \in 1 .. n
    BY <1>0, CapacityAssumption DEF StateType, LocalsType, CachesBounded, SlotsMatch,
        EncodeRef
  <2>2. entry \in LatentEntries
    <3>1. key \in Paths \X Nat
      BY <1>0, <2>1, RefsType, LatentKeyType
    <3>2. pixels[idx] \in Nat
      BY <1>0, <2>1 DEF PixelsMatch, HeapType
    <3>3. ctx \in Models /\ tiling \in BOOLEAN
      BY <1>0 DEF StateType, ModelAtHand, Generating
    <3>. QED
      BY <3>1, <3>2, <3>3 DEF LatentEntries
  <2>3. /\ latents' = Insert(latents, entry, MaxLatentEntries)
        /\ lats' = [lats EXCEPT ![idx] = id] /\ id # Null
    BY <1>3, NullAssumption DEF StoreLatent
  <2>4. entry.key = key /\ entry.obj = id /\ entry.ver = pixels[idx]
    OBVIOUS
  <2>5. key[2] = pixels[idx]
    <3>1. idx \in 1 .. Len(pixels)
      BY <1>0, <2>1 DEF PixelsMatch
    <3>. QED
      BY <1>0, <3>1 DEF PixelsOfDisk, LatentKey, Stamp
  <2>. HIDE DEF entry
  <2>6. /\ \A e \in EntriesOf(latents) : e.key # key
        /\ Newest(latents, UsedKeys)
    BY <1>0, <1>3, <2>1 DEF SlotsPoint
  <2>7. ~Holds(latents, entry.key)
    BY <2>4, <2>6 DEF Holds, KeysOf, EntriesOf
  <2>8. IsFiniteSet(UsedKeys) /\ Cardinality(UsedKeys) < MaxLatentEntries
    <3>1. Cardinality(UsedKeys) < n /\ IsFiniteSet(UsedKeys)
      BY <1>0, <1>3, <2>1, UsedKeysFew
    <3>2. n <= MaxLatentEntries
      BY <1>0, <2>1, RequestFits
    <3>. QED
      BY <2>1, <3>1, <3>2, FS_CardinalityType
  <2>9. /\ Newest(latents', UsedKeys \cup {key})
        /\ entry \in EntriesOf(latents')
        /\ \A e \in EntriesOf(latents) : e.key \in UsedKeys => e \in EntriesOf(latents')
    <3>1. /\ Newest(latents', UsedKeys \cup {entry.key})
          /\ entry \in EntriesOf(latents')
          /\ \A i \in 1 .. Len(latents) :
               latents[i].key \in UsedKeys => latents[i] \in EntriesOf(latents')
      BY <2>1, <2>2, <2>3, <2>6, <2>7, <2>8, InsertNewest
    <3>. QED
      BY <2>4, <3>1 DEF EntriesOf
  <2>10. EntriesOf(latents') \subseteq EntriesOf(latents) \cup {entry}
    BY <2>1, <2>2, <2>3, InsertKeeps
  <2>11. KeysTellVersion'
    BY <2>4, <2>5, <2>10 DEF KeysTellVersion
  <2>12. /\ Len(lats') = n /\ lats'[idx] = id
         /\ \A k \in 1 .. n : k # idx => lats'[k] = lats[k]
    BY <2>1, <2>3
  <2>13. ASSUME NEW k \in 1 .. n
         PROVE  IF lats'[k] = Null
                THEN \A e \in EntriesOf(latents') : e.key # LatentKey(req.refs[k])
                ELSE \E e \in EntriesOf(latents') : e.key = LatentKey(req.refs[k]) /\ e.obj = lats'[k]
    <3>1. CASE k = idx
      BY <2>3, <2>4, <2>9, <2>12, <3>1
    <3>2. CASE k # idx
      <4>1. lats'[k] = lats[k] /\ LatentKey(req.refs[k]) # key
        BY <1>0, <2>1, <2>12, <3>2, KeysDiffer
      <4>2. CASE lats[k] = Null
        <5>1. \A e \in EntriesOf(latents) : e.key # LatentKey(req.refs[k])
          BY <1>0, <4>2 DEF SlotsPoint
        <5>. QED
          BY <2>4, <2>10, <4>1, <4>2, <5>1
      <4>3. CASE lats[k] # Null
        <5>1. LatentKey(req.refs[k]) \in UsedKeys
          BY <4>3 DEF UsedKeys
        <5>2. \E e \in EntriesOf(latents) : e.key = LatentKey(req.refs[k]) /\ e.obj = lats[k]
          BY <1>0, <4>3 DEF SlotsPoint
        <5>. QED
          BY <2>9, <4>1, <4>3, <5>1, <5>2
      <4>. QED
        BY <4>2, <4>3
    <3>. QED
      BY <3>1, <3>2
  <2>14. UsedKeys' = UsedKeys \cup {key}
    <3>1. UsedKeys' = {LatentKey(req.refs[k]) : k \in {i \in 1 .. n : lats'[i] # Null}}
      BY <1>0, <1>1, <2>12 DEF UsedKeys
    <3>2. {i \in 1 .. n : lats'[i] # Null} = {i \in 1 .. n : lats[i] # Null} \cup {idx}
      BY <2>1, <2>3, <2>12
    <3>. QED
      BY <3>1, <3>2 DEF UsedKeys
  <2>. QED
    BY <1>0, <1>1, <2>1, <2>9, <2>11, <2>12, <2>13, <2>14 DEF SlotsPoint
<1>. QED
  BY <1>2, <1>3 DEF EncodeRef

\* What the request points to is alive when generation starts.
LEMMA PointersAlive ==
  ASSUME ConditionAlive, SlotsPoint, pc = "run"
  PROVE  PointersValid
<1>1. ASSUME HaveCachedLatents, NEW k \in 1 .. Len(lats)
      PROVE  lats[k] \in LiveLatents
  <2>1. \E e \in EntriesOf(latents) : e.obj = lats[k]
    BY <1>1 DEF SlotsPoint, HaveCachedLatents, AllCached
  <2>. QED
    BY <2>1 DEF EntriesOf, LiveLatents
<1>. QED
  BY <1>1 DEF PointersValid, ConditionAlive

\* A cache that is left alone or cleared tells the versions of its entries.
LEMMA VersionsStay ==
  ASSUME KeysTellVersion, latents' = latents \/ latents' = <<>>
  PROVE  KeysTellVersion'
BY DEF KeysTellVersion, EntriesOf

\* free() of live and different pointers, or null ones, goes well.
LEMMA FreeSafe ==
  ASSUME MemorySafe, NEW ptrs, Free(ptrs),
         \A k \in 1 .. Len(ptrs) :
           \/ ptrs[k] = Null
           \/ ptrs[k] \in bufs /\ \A j \in 1 .. k - 1 : ptrs[j] # ptrs[k]
  PROVE  MemorySafe'
BY DEF MemorySafe, Free

\* No pass and no exit of the loops over image buffers frees a buffer twice or
\* uses one that is gone.
LEMMA BuffersSafe ==
  ASSUME LocalsType, HeapMatch, MemorySafe,
         UpscalePass \/ UpscaleSave \/ UpscaleResult \/ SaveResult
  PROVE  MemorySafe'
<1>1. idx \in Nat \ {0} /\ Null \notin Nat
  BY NullAssumption DEF LocalsType
<1>2. ASSUME NEW ptr \in bufs, Free(<<ptr>>)
      PROVE  MemorySafe'
  BY <1>2, FreeSafe
<1>3. ASSUME NEW a \in bufs, NEW b \in bufs, a # b, Free(<<a, b>>)
      PROVE  MemorySafe'
  BY <1>3, FreeSafe
<1>4. ASSUME NEW a \in bufs, NEW b \in bufs, a # b, Free(<<a, Null, b>>)
      PROVE  MemorySafe'
  BY <1>4, FreeSafe
<1>5. CASE UpscalePass
  <2>1. image \in bufs
    BY <1>1, <1>5 DEF UpscalePass, HeapMatch
  <2>. QED
    BY <1>2, <1>5, <2>1 DEF UpscalePass, MemorySafe
<1>6. CASE UpscaleSave
  <2>1. image \in bufs
    BY <1>1, <1>6 DEF UpscaleSave, HeapMatch
  <2>. QED
    BY <1>2, <1>6, <2>1 DEF UpscaleSave, MemorySafe
<1>7. CASE UpscaleResult
  <2>1. image \in bufs /\ 0 \in bufs /\ image # 0
    BY <1>1, <1>7 DEF UpscaleResult, HeapMatch
  <2>. QED
    BY <1>3, <1>7, <2>1 DEF UpscaleResult, MemorySafe
<1>8. CASE SaveResult
  <2>1. image \in bufs /\ 0 \in bufs /\ image # 0
    BY <1>1, <1>8 DEF SaveResult, HeapMatch
  <2>2. (IF usesResult THEN Null ELSE result) = Null
    BY <1>8 DEF SaveResult, HeapMatch
  <2>. QED
    BY <1>4, <1>8, <2>1, <2>2 DEF SaveResult, MemorySafe
<1>. QED
  BY <1>5, <1>6, <1>7, <1>8

\* The slots are right as long as nothing they depend on changes.
LEMMA SlotsStay ==
  ASSUME SlotsPoint, UNCHANGED <<latents, lats, req, disk>>,
         pc \in {"lookup", "encode", "run"} \/ pc' \notin {"lookup", "encode", "run"}
  PROVE  SlotsPoint'
<1>1. \A p : LatentKey(p)' = LatentKey(p)
  BY DEF LatentKey, Stamp
<1>2. UsedKeys' = UsedKeys
  BY <1>1 DEF UsedKeys
<1>. QED
  BY <1>1, <1>2 DEF SlotsPoint

\* Every step keeps the pointers of the request right.
LEMMA PointedStep ==
  ASSUME Inv, RefsFit, Pointed, [Next]_vars
  PROVE  Pointed'
<1>0. /\ StateType /\ LocalsType /\ HeapType /\ Flow /\ HeapMatch /\ ConditionAlive
      /\ PixelsOfDisk /\ KeysTellVersion /\ SlotsPoint /\ MemorySafe
  BY DEF Inv, TypeOK, Pointed
<1>1. CASE ReadLine
  BY <1>0, <1>1, VersionsStay DEF ReadLine, stateVars, locals, heapVars,
      Pointed, PixelsOfDisk, SlotsPoint, MemorySafe
<1>2. CASE CloseStdin
  BY <1>0, <1>2, VersionsStay DEF CloseStdin, stateVars, locals, heapVars,
      Pointed, PixelsOfDisk, SlotsPoint, MemorySafe
<1>3. CASE HandleSimple
  BY <1>0, <1>3, VersionsStay DEF HandleSimple, Return, stateVars, heapVars,
      Pointed, PixelsOfDisk, SlotsPoint, MemorySafe
<1>4. CASE HandleUnload
  BY <1>0, <1>4, VersionsStay DEF HandleUnload, Return, ClearCaches, heapVars,
      Pointed, PixelsOfDisk, SlotsPoint, MemorySafe
<1>5. CASE HandleQuit
  BY <1>0, <1>5, VersionsStay DEF HandleQuit, AfterQuit, ClearCaches, locals, heapVars,
      Pointed, PixelsOfDisk, SlotsPoint, MemorySafe
<1>6. CASE Shutdown
  BY <1>0, <1>6, VersionsStay DEF Shutdown, ClearCaches, locals, heapVars,
      Pointed, PixelsOfDisk, SlotsPoint, MemorySafe
<1>7. CASE JsonTypeError
  BY <1>0, <1>7, VersionsStay DEF JsonTypeError, stateVars, locals, heapVars,
      Pointed, PixelsOfDisk, SlotsPoint, MemorySafe
<1>8. CASE LoadStart
  BY <1>0, <1>8, VersionsStay DEF LoadStart, Continue, Return, ClearCaches, stateVars, heapVars,
      Pointed, PixelsOfDisk, SlotsPoint, MemorySafe
<1>9. CASE LoadModel
  BY <1>0, <1>9, VersionsStay DEF LoadModel, Continue, Return, heapVars,
      Pointed, PixelsOfDisk, SlotsPoint, MemorySafe
<1>10. CASE LoadUpscaler
  BY <1>0, <1>10, VersionsStay DEF LoadUpscaler, Return, heapVars,
      Pointed, PixelsOfDisk, SlotsPoint, MemorySafe
<1>11. CASE UpscaleStart
  BY <1>0, <1>11, VersionsStay DEF UpscaleStart, Continue, Return, stateVars, heapVars,
      Pointed, PixelsOfDisk, SlotsPoint, MemorySafe
<1>12. CASE UpscaleUpscaler
  BY <1>0, <1>12, VersionsStay DEF UpscaleUpscaler, Return, stateVars,
      Pointed, PixelsOfDisk, SlotsPoint, MemorySafe
<1>13. CASE UpscaleInput
  BY <1>0, <1>13, VersionsStay DEF UpscaleInput, Continue, Return, stateVars,
      Pointed, PixelsOfDisk, SlotsPoint, MemorySafe
<1>14. CASE UpscalePass
  <2>1. MemorySafe'
    BY <1>0, <1>14, BuffersSafe
  <2>2. KeysTellVersion'
    BY <1>0, <1>14, VersionsStay DEF UpscalePass, stateVars
  <2>3. PixelsOfDisk' /\ SlotsPoint'
    BY <1>14 DEF UpscalePass, Return, PixelsOfDisk, SlotsPoint
  <2>. QED
    BY <2>1, <2>2, <2>3 DEF Pointed
<1>15. CASE UpscaleSave
  <2>1. MemorySafe'
    BY <1>0, <1>15, BuffersSafe
  <2>2. KeysTellVersion'
    BY <1>0, <1>15, VersionsStay DEF UpscaleSave, stateVars
  <2>3. PixelsOfDisk' /\ SlotsPoint'
    BY <1>15 DEF UpscaleSave, Return, PixelsOfDisk, SlotsPoint
  <2>. QED
    BY <2>1, <2>2, <2>3 DEF Pointed
<1>16. CASE GenerateStart
  BY <1>0, <1>16, VersionsStay DEF GenerateStart, Return, stateVars, heapVars,
      Pointed, PixelsOfDisk, SlotsPoint, MemorySafe
<1>17. CASE GenerateParams
  <2>1. KeysTellVersion' /\ MemorySafe'
    BY <1>0, <1>17, VersionsStay DEF GenerateParams, stateVars, heapVars, MemorySafe
  <2>2. pixels' = <<>>
    BY <1>0, <1>17 DEF Flow, PixelsMatch, GenerateParams, heapVars
  <2>3. PixelsOfDisk' /\ SlotsPoint'
    BY <1>17, <2>2 DEF GenerateParams, Continue, Return, PixelsOfDisk, SlotsPoint
  <2>. QED
    BY <2>1, <2>3 DEF Pointed
<1>18. CASE LoadRef
  <2>1. KeysTellVersion' /\ MemorySafe' /\ SlotsPoint'
    BY <1>0, <1>18, VersionsStay DEF LoadRef, Return, stateVars, MemorySafe, SlotsPoint
  <2>2. CASE disk[req.refs[idx]].exists /\ pixels' = Append(pixels, disk[req.refs[idx]].ver)
             /\ UNCHANGED <<pc, req>>
    <3>1. idx = Len(pixels) + 1 /\ pixels \in Seq(Nat) /\ disk' = disk
      BY <1>0, <1>18 DEF Flow, LoopIndex, HeapType, LoadRef
    <3>2. /\ Len(pixels') = idx /\ pixels'[idx] = disk[req.refs[idx]].ver
          /\ \A k \in 1 .. Len(pixels) : pixels'[k] = pixels[k]
      BY <2>2, <3>1
    <3>3. ASSUME NEW k \in 1 .. Len(pixels')
          PROVE  disk[req.refs[k]].exists /\ disk[req.refs[k]].ver = pixels'[k]
      <4>1. k = idx \/ k \in 1 .. Len(pixels)
        BY <3>1, <3>2
      <4>. QED
        BY <1>0, <1>18, <2>2, <3>2, <4>1 DEF PixelsOfDisk, LoadRef
    <3>4. PixelsOfDisk'
      BY <2>2, <3>1, <3>3 DEF PixelsOfDisk
    <3>. QED
      BY <2>1, <3>4 DEF Pointed
  <2>3. CASE Return("error")
    BY <2>1, <2>3 DEF Return, Pointed, PixelsOfDisk
  <2>. QED
    BY <1>18, <2>2, <2>3 DEF LoadRef
<1>19. CASE OutputDir
  BY <1>0, <1>19, VersionsStay DEF OutputDir, Continue, Return, stateVars,
      Pointed, PixelsOfDisk, SlotsPoint, MemorySafe
<1>20. CASE Condition
  BY <1>0, <1>20, VersionsStay DEF Condition, Continue, heapVars,
      Pointed, PixelsOfDisk, SlotsPoint, MemorySafe
<1>21. CASE RefCache
  <2>1. KeysTellVersion' /\ MemorySafe'
    BY <1>0, <1>21, VersionsStay DEF RefCache, stateVars, heapVars, MemorySafe
  <2>2. PixelsOfDisk'
    BY <1>0, <1>21 DEF RefCache, Continue, heapVars, locals, PixelsOfDisk
  <2>3. lats' = <<>> /\ req' = req
    BY <1>0, <1>21 DEF RefCache, Flow, SlotsMatch, locals
  <2>4. UsedKeys' = {} /\ Len(lats') = 0
    BY <2>3 DEF UsedKeys
  <2>5. Len(req'.refs) \in Nat
    BY <1>0, <2>3, RefsType
  <2>6. SlotsPoint'
    BY <2>4, <2>5 DEF SlotsPoint, Newest
  <2>. QED
    BY <2>1, <2>2, <2>6 DEF Pointed
<1>22. CASE LookupRef
  <2>1. KeysTellVersion' /\ SlotsPoint'
    BY <1>0, <1>22, LookupPoints
  <2>2. PixelsOfDisk' /\ MemorySafe'
    BY <1>0, <1>22 DEF LookupRef, heapVars, PixelsOfDisk, MemorySafe
  <2>. QED
    BY <2>1, <2>2 DEF Pointed
<1>23. CASE LookupDone
  <2>1. SlotsPoint'
    BY <1>0, <1>23, SlotsStay DEF LookupDone, stateVars
  <2>2. KeysTellVersion' /\ PixelsOfDisk' /\ MemorySafe'
    BY <1>0, <1>23, VersionsStay DEF LookupDone, stateVars, heapVars, PixelsOfDisk, MemorySafe
  <2>. QED
    BY <2>1, <2>2 DEF Pointed
<1>24. CASE EncodeRef
  <2>1. KeysTellVersion' /\ SlotsPoint'
    BY <1>0, <1>24, EncodePoints
  <2>2. PixelsOfDisk' /\ MemorySafe'
    BY <1>0, <1>24 DEF EncodeRef, heapVars, PixelsOfDisk, MemorySafe
  <2>. QED
    BY <2>1, <2>2 DEF Pointed
<1>25. CASE EncodeDone
  <2>1. SlotsPoint'
    BY <1>0, <1>25, SlotsStay DEF EncodeDone, stateVars
  <2>2. KeysTellVersion' /\ PixelsOfDisk' /\ MemorySafe'
    BY <1>0, <1>25, VersionsStay DEF EncodeDone, stateVars, heapVars, PixelsOfDisk, MemorySafe
  <2>. QED
    BY <2>1, <2>2 DEF Pointed
<1>26. CASE LibraryDies
  BY <1>0, <1>26, VersionsStay DEF LibraryDies, stateVars, locals, heapVars,
      Pointed, PixelsOfDisk, SlotsPoint, MemorySafe
<1>27. CASE Run
  <2>1. MemorySafe'
    BY <1>0, <1>27, PointersAlive DEF Run, MemorySafe
  <2>2. KeysTellVersion'
    BY <1>0, <1>27, VersionsStay DEF Run
  <2>3. PixelsOfDisk' /\ SlotsPoint'
    BY <1>27 DEF Run, Continue, Return, PixelsOfDisk, SlotsPoint
  <2>. QED
    BY <2>1, <2>2, <2>3 DEF Pointed
<1>28. CASE UpscaleResult
  <2>1. MemorySafe'
    BY <1>0, <1>28, BuffersSafe
  <2>2. KeysTellVersion'
    BY <1>0, <1>28, VersionsStay DEF UpscaleResult, stateVars
  <2>3. PixelsOfDisk' /\ SlotsPoint'
    BY <1>28 DEF UpscaleResult, Return, PixelsOfDisk, SlotsPoint
  <2>. QED
    BY <2>1, <2>2, <2>3 DEF Pointed
<1>29. CASE SaveResult
  <2>1. MemorySafe'
    BY <1>0, <1>29, BuffersSafe
  <2>2. KeysTellVersion'
    BY <1>0, <1>29, VersionsStay DEF SaveResult, stateVars
  <2>3. PixelsOfDisk' /\ SlotsPoint'
    BY <1>29 DEF SaveResult, Return, PixelsOfDisk, SlotsPoint
  <2>. QED
    BY <2>1, <2>2, <2>3 DEF Pointed
<1>31. ASSUME NEW p \in Paths, EditRef(p) PROVE Pointed'
  <2>1. pc = "idle" /\ pc' = "idle"
    BY <1>31 DEF EditRef, RefsFit
  <2>. QED
    BY <1>0, <1>31, <2>1, VersionsStay DEF EditRef, stateVars, heapVars, Pointed,
        PixelsOfDisk, SlotsPoint, MemorySafe
<1>32. CASE UNCHANGED vars
  BY <1>0, <1>32, VersionsStay, SlotsStay DEF vars, stateVars, locals, heapVars,
      Pointed, PixelsOfDisk, MemorySafe
<1>. QED
  BY <1>1, <1>2, <1>3, <1>4, <1>5, <1>6, <1>7, <1>8, <1>9, <1>10, <1>11, <1>12, <1>13, <1>14, <1>15, <1>16, <1>17, <1>18, <1>19, <1>20, <1>21, <1>22, <1>23, <1>24, <1>25, <1>26, <1>27, <1>28, <1>29, <1>31, <1>32 DEF Next, Handle, Terminated

\* The engine starts without pointers.
LEMMA PointedInit ==
  ASSUME Init
  PROVE  Pointed
BY DEF Init, Pointed, PixelsOfDisk, KeysTellVersion, EntriesOf, SlotsPoint, MemorySafe

\* The pointers of every request are right, under the conditions of RefsFit.
THEOREM PointersRight ==
  ASSUME RefsFit
  PROVE  Spec => [](Inv /\ Pointed)
<1>1. Init => Inv /\ Pointed
  BY InvInit, PointedInit
<1>2. Inv /\ Pointed /\ [Next]_vars => Inv' /\ Pointed'
  BY RefsFit, TypeStep, FlowStep, HeapStep, CacheStep, PointedStep DEF Inv
<1>. QED
  BY <1>1, <1>2, PTL DEF Spec

\* No freed condition, latent or buffer is used and none is freed twice.
THEOREM MemoryIsSafe ==
  ASSUME RefsFit
  PROVE  Spec => []MemorySafe
<1>1. Pointed => MemorySafe
  BY DEF Pointed
<1>. QED
  BY <1>1, RefsFit, PointersRight, PTL

\* The latents a generation is given are the newest entries of the cache, for
\* as many references as the cache has room for.
THEOREM RequestIsMostRecent ==
  ASSUME RefsFit
  PROVE  Spec => []RequestMostRecent
<1>1. ASSUME Inv, Pointed, pc = "run", HaveCachedLatents, NEW k \in 1 .. Len(lats)
      PROVE  \E j \in 1 .. Len(latents) :
               j > Len(latents) - Len(lats) /\ latents[j].obj = lats[k]
  <2>0. StateType /\ LocalsType /\ CachesBounded /\ SlotsPoint
    BY <1>1 DEF Inv, TypeOK, Pointed
  <2>1. /\ latents \in Seq(LatentEntries) /\ IsMap(latents) /\ Newest(latents, UsedKeys)
        /\ lats \in Seq(Latents \cup {Null}) /\ lats[k] # Null
    BY <1>1, <2>0 DEF StateType, LocalsType, CachesBounded, SlotsPoint, HaveCachedLatents,
        AllCached
  <2>2. PICK j \in 1 .. Len(latents) :
          latents[j].key = LatentKey(req.refs[k]) /\ latents[j].obj = lats[k]
    BY <1>1, <2>0, <2>1 DEF SlotsPoint, EntriesOf
  <2>3. latents[j].key \in UsedKeys
    BY <2>1, <2>2 DEF UsedKeys
  <2>4. IsFiniteSet(UsedKeys) /\ Cardinality(UsedKeys) <= Len(lats)
    BY <2>0, UsedKeysFew
  <2>5. j > Len(latents) - Cardinality(UsedKeys)
    BY <2>1, <2>3, <2>4, NewestAreFew
  <2>6. Len(latents) \in Nat /\ Len(lats) \in Nat /\ Cardinality(UsedKeys) \in Nat
    BY <2>1, <2>4, FS_CardinalityType
  <2>. QED
    BY <2>2, <2>4, <2>5, <2>6
<1>2. Inv /\ Pointed => RequestMostRecent
  BY <1>1 DEF RequestMostRecent
<1>. QED
  BY <1>2, RefsFit, PointersRight, PTL

\* Each latent a generation is given encodes the image that the request loaded
\* for it.
THEOREM LatentsAreOfRequest ==
  ASSUME RefsFit
  PROVE  Spec => []LatentsOfThisRequest
<1>1. ASSUME Inv, Pointed, pc = "run", HaveCachedLatents, NEW k \in 1 .. Len(lats)
      PROVE  \E j \in 1 .. Len(latents) :
               latents[j].obj = lats[k] /\ EncodedFrom(k, latents[j])
  <2>0. LocalsType /\ PixelsMatch /\ PixelsOfDisk /\ KeysTellVersion /\ SlotsPoint
    BY <1>1 DEF Inv, TypeOK, Flow, Pointed
  <2>1. PICK j \in 1 .. Len(latents) :
          latents[j].key = LatentKey(req.refs[k]) /\ latents[j].obj = lats[k]
    BY <1>1, <2>0 DEF SlotsPoint, EntriesOf, HaveCachedLatents, AllCached
  <2>2. k \in 1 .. Len(pixels)
    <3>1. Len(pixels) = Len(req.refs) /\ Len(lats) <= Len(req.refs)
      BY <1>1, <2>0 DEF PixelsMatch, SlotsPoint
    <3>2. Len(lats) \in Nat /\ Len(req.refs) \in Nat
      BY <2>0, RefsType DEF LocalsType
    <3>. QED
      BY <3>1, <3>2
  <2>3. LatentKey(req.refs[k]) = <<req.refs[k], pixels[k]>>
    BY <1>1, <2>0, <2>2 DEF PixelsOfDisk, LatentKey, Stamp
  <2>4. latents[j].ver = latents[j].key[2]
    BY <2>0 DEF KeysTellVersion, EntriesOf
  <2>. QED
    BY <2>1, <2>3, <2>4 DEF EncodedFrom
<1>2. Inv /\ Pointed => LatentsOfThisRequest
  BY <1>1 DEF LatentsOfThisRequest
<1>. QED
  BY <1>2, RefsFit, PointersRight, PTL

-----------------------------------------------------------------------------
(* What cn-engine shows on stdout: the protocol of its README, and the     *)
(* silence of everything but model loading.                                *)

\* The phases that may have been reported when handle_generate is at each of
\* its points.
PhaseAt ==
  /\ pc \in {"dispatch", "loadParams", "loadUpscaler", "upscaleParams", "upscaleInput",
             "generateParams", "loadRefs", "prompt"} => phase = "none"
  /\ pc \in {"refCache", "lookup"} => phase = "conditioning"
  /\ pc \in {"encode", "run"} => phase \in {"conditioning", "encoding"}
  /\ pc = "upscaleResult" => phase \in {"saving", "upscaling"}
  /\ pc = "upscalePass" => phase = "upscaling"

\* Which command is served at each point, and whether it has its answer.
ServingAt ==
  /\ pc = "dispatch" => op \in Commands
  /\ pc \in {"loadParams", "loadUpscaler"} => op = "load"
  /\ pc \in {"upscaleParams", "upscaleInput", "upscalePass"} => op = "upscale"
  /\ pc \in Generating => op = "generate"
  /\ pc \notin {"idle", "shutdown", "exited", "crashed"} => reply = "none"
  /\ pc = "idle" => op # "quit"
  /\ pc \in {"idle", "shutdown"} /\ op # Null => reply # "none"

\* The callback is installed while images are upscaled or generated.
CallbackAt == pc \in Generating \cup {"upscaleInput", "upscalePass"} => callback

Dialogue == PhaseAt /\ ServingAt /\ CallbackAt

\* Dialogue is inductive by itself.
LEMMA DialogueStep ==
  ASSUME Dialogue, [Next]_vars
  PROVE  Dialogue'
<1>. USE NullAssumption DEF Dialogue, PhaseAt, ServingAt, CallbackAt, Generating, Commands
<1>1. CASE ReadLine
  BY <1>1 DEF ReadLine
<1>2. CASE CloseStdin
  BY <1>2 DEF CloseStdin, protocolVars
<1>3. CASE HandleSimple
  BY <1>3 DEF HandleSimple, Return
<1>4. CASE HandleUnload
  BY <1>4 DEF HandleUnload, Return
<1>5. CASE HandleQuit
  BY <1>5 DEF HandleQuit, AfterQuit
<1>6. CASE Shutdown
  BY <1>6 DEF Shutdown, protocolVars
<1>7. CASE JsonTypeError
  BY <1>7 DEF JsonTypeError, protocolVars
<1>8. CASE LoadStart
  BY <1>8 DEF LoadStart, Continue, Return
<1>9. CASE LoadModel
  BY <1>9 DEF LoadModel, Continue, Return, LibraryProgress
<1>10. CASE LoadUpscaler
  BY <1>10 DEF LoadUpscaler, Return, LibraryProgress
<1>11. CASE UpscaleStart
  BY <1>11 DEF UpscaleStart, Continue, Return
<1>12. CASE UpscaleUpscaler
  BY <1>12 DEF UpscaleUpscaler, Return, InstallCallback, LibraryProgress
<1>13. CASE UpscaleInput
  BY <1>13 DEF UpscaleInput, Continue, Return
<1>14. CASE UpscalePass
  <2>1. CASE Return("error")
    BY <1>14, <2>1 DEF UpscalePass, Return
  <2>2. CASE UNCHANGED <<pc, op, reply, callback>> /\ phase' = "upscaling"
    BY <1>14, <2>2 DEF UpscalePass
  <2>. QED
    BY <1>14, <2>1, <2>2 DEF UpscalePass
<1>15. CASE UpscaleSave
  BY <1>15 DEF UpscaleSave, Return
<1>16. CASE GenerateStart
  BY <1>16 DEF GenerateStart, Return, InstallCallback
<1>17. CASE GenerateParams
  BY <1>17 DEF GenerateParams, Continue, Return
<1>18. CASE LoadRef
  <2>1. CASE Return("error")
    BY <1>18, <2>1 DEF LoadRef, Return
  <2>2. CASE UNCHANGED <<pc, op, reply, phase, callback>>
    BY <1>18, <2>2 DEF LoadRef
  <2>. QED
    BY <1>18, <2>1, <2>2 DEF LoadRef
<1>19. CASE OutputDir
  <2>1. CASE Return("error")
    BY <1>19, <2>1 DEF OutputDir, Return
  <2>2. CASE pc' = "prompt" /\ UNCHANGED <<op, reply, phase, callback>>
    BY <1>19, <2>2 DEF OutputDir
  <2>. QED
    BY <1>19, <2>1, <2>2 DEF OutputDir, Continue
<1>20. CASE Condition
  BY <1>20 DEF Condition, Continue
<1>21. CASE RefCache
  BY <1>21 DEF RefCache, Continue
<1>22. CASE LookupRef
  BY <1>22 DEF LookupRef, protocolVars
<1>23. CASE LookupDone
  BY <1>23 DEF LookupDone, Continue
<1>24. CASE EncodeRef
  BY <1>24 DEF EncodeRef, LibraryProgress
<1>25. CASE EncodeDone
  BY <1>25 DEF EncodeDone, Continue
<1>26. CASE LibraryDies
  BY <1>26 DEF LibraryDies, protocolVars
<1>27. CASE Run
  <2>1. CASE Return("error")
    BY <1>27, <2>1 DEF Run, Return
  <2>2. CASE pc' = "upscaleResult" /\ UNCHANGED <<op, reply, callback>>
             /\ phase' \in {"saving", "upscaling"}
    BY <1>27, <2>2 DEF Run
  <2>. QED
    BY <1>27, <2>1, <2>2 DEF Run, Continue
<1>28. CASE UpscaleResult
  <2>1. CASE Return("error")
    BY <1>28, <2>1 DEF UpscaleResult, Return
  <2>2. CASE UNCHANGED <<pc, op, reply, callback>> /\ phase' = "upscaling"
    BY <1>28, <2>2 DEF UpscaleResult
  <2>. QED
    BY <1>28, <2>1, <2>2 DEF UpscaleResult
<1>29. CASE SaveResult
  BY <1>29 DEF SaveResult, Return
<1>30. ASSUME NEW p \in Paths, EditRef(p) PROVE Dialogue'
  BY <1>30 DEF EditRef, protocolVars
<1>31. CASE UNCHANGED vars
  BY <1>31 DEF vars, protocolVars
<1>. QED
  BY <1>1, <1>2, <1>3, <1>4, <1>5, <1>6, <1>7, <1>8, <1>9, <1>10, <1>11, <1>12,
      <1>13, <1>14, <1>15, <1>16, <1>17, <1>18, <1>19, <1>20, <1>21, <1>22,
      <1>23, <1>24, <1>25, <1>26, <1>27, <1>28, <1>29, <1>30, <1>31 DEF Next,
      Handle, Terminated

\* What has been reported and answered at each control point.
THEOREM DialogueHolds == Spec => []Dialogue
<1>1. Init => Dialogue
  BY NullAssumption DEF Init, Dialogue, PhaseAt, ServingAt, CallbackAt, Generating,
      Commands
<1>2. Dialogue /\ UNCHANGED vars => Dialogue'
  BY DialogueStep
<1>. QED
  BY <1>1, DialogueStep, PTL DEF Spec

-----------------------------------------------------------------------------
(* Refinement: each step of the engine is one of the protocol, or none *)

Up == pc \notin {"exited", "crashed"}

\* The phases of the protocol.
LEMMA Phases5 ==
  Protocol!Phases = {"none", "conditioning", "encoding", "sampling", "saving", "upscaling"}
BY DEF Protocol!Phases, Protocol!Rank

\* Their order.
LEMMA Ranks ==
  /\ Protocol!Rank["none"] = 0 /\ Protocol!Rank["conditioning"] = 1
  /\ Protocol!Rank["encoding"] = 2 /\ Protocol!Rank["sampling"] = 3
  /\ Protocol!Rank["saving"] = 4 /\ Protocol!Rank["upscaling"] = 5
BY DEF Protocol!Rank

\* A step that shows nothing.
LEMMA StutterImplemented ==
  ASSUME UNCHANGED <<op, reply, phase>>, Up, Up'
  PROVE  [Protocol!Next]_(Protocol!vars)
BY DEF Up, Protocol!vars

\* A step that answers, perhaps after a last progress message.
LEMMA AnswerImplemented ==
  ASSUME Up, Up', op \in Commands, op' = op, reply = "none",
         reply' \in Protocol!RepliesTo(op),
         \/ phase' = phase
         \/ /\ op \in {"generate", "upscale"} /\ phase' \in Protocol!Phases
            /\ Protocol!Rank[phase'] >= Protocol!Rank[phase]
  PROVE  [Protocol!Next]_(Protocol!vars)
BY NullAssumption DEF Up, Protocol!Next, Protocol!Answer, Protocol!Serving,
   Protocol!MayFollow, Protocol!Streaming, Protocol!RepliesTo, Protocol!Replies

\* A step that reports progress.
LEMMA ReportImplemented ==
  ASSUME Up, Up', op \in {"generate", "upscale"}, op' = op, reply = "none",
         reply' = reply, phase' \in Protocol!Phases,
         Protocol!Rank[phase'] >= Protocol!Rank[phase]
  PROVE  [Protocol!Next]_(Protocol!vars)
BY NullAssumption DEF Up, Protocol!Next, Protocol!Report, Protocol!Serving,
   Protocol!MayFollow, Protocol!Streaming, Commands

\* A step on which the process dies.
LEMMA DieImplemented ==
  ASSUME Up, pc' = "crashed", op \in Commands, reply = "none",
         UNCHANGED <<op, reply, phase>>
  PROVE  [Protocol!Next]_(Protocol!vars)
BY NullAssumption DEF Up, Protocol!Next, Protocol!Die, Protocol!Serving

\* The answers that fit the commands.
LEMMA Answers ==
  /\ \A c \in {"ping", "status", "unload", "quit"} : "ok" \in Protocol!RepliesTo(c)
  /\ "ok" \in Protocol!RepliesTo("load") /\ "error" \in Protocol!RepliesTo("load")
  /\ \A c \in {"generate", "upscale"} :
       "result" \in Protocol!RepliesTo(c) /\ "error" \in Protocol!RepliesTo(c)
  /\ "error" \in Protocol!RepliesTo("invalid")
BY DEF Protocol!RepliesTo, Protocol!Streaming

\* Every step of the engine is a step of the protocol or shows nothing.
LEMMA ProtocolStep ==
  ASSUME Dialogue, [Next]_vars
  PROVE  [Protocol!Next]_(Protocol!vars)
<1>0. PhaseAt /\ ServingAt
  BY DEF Dialogue
<1>. USE DEF PhaseAt, ServingAt, Generating, Commands, Up
<1>1. CASE ReadLine
  BY <1>0, <1>1 DEF ReadLine, Protocol!Next, Protocol!Accept, Protocol!Waiting,
      Protocol!Commands
<1>2. CASE CloseStdin
  BY <1>0, <1>2, StutterImplemented DEF CloseStdin, protocolVars
<1>3. CASE HandleSimple
  BY <1>0, <1>3, AnswerImplemented, Answers DEF HandleSimple, Return
<1>4. CASE HandleUnload
  BY <1>0, <1>4, AnswerImplemented, Answers DEF HandleUnload, Return
<1>5. CASE HandleQuit
  BY <1>0, <1>5, AnswerImplemented, Answers DEF HandleQuit, AfterQuit
<1>6. CASE Shutdown
  BY <1>0, <1>6 DEF Shutdown, protocolVars, Protocol!Next, Protocol!Stop,
      Protocol!Waiting
<1>7. CASE JsonTypeError
  BY <1>0, <1>7, DieImplemented DEF JsonTypeError, protocolVars
<1>8. CASE LoadStart
  BY <1>0, <1>8, AnswerImplemented, Answers, StutterImplemented DEF LoadStart,
      Continue, Return
<1>9. CASE LoadModel
  BY <1>0, <1>9, AnswerImplemented, Answers, StutterImplemented DEF LoadModel,
      Continue, Return
<1>10. CASE LoadUpscaler
  BY <1>0, <1>10, AnswerImplemented, Answers DEF LoadUpscaler, Return
<1>11. CASE UpscaleStart
  BY <1>0, <1>11, AnswerImplemented, Answers, StutterImplemented DEF
      UpscaleStart, Continue, Return
<1>12. CASE UpscaleUpscaler
  BY <1>0, <1>12, AnswerImplemented, Answers, StutterImplemented DEF
      UpscaleUpscaler, Return
<1>13. CASE UpscaleInput
  BY <1>0, <1>13, AnswerImplemented, Answers, ReportImplemented, Ranks, Phases5,
      StutterImplemented DEF UpscaleInput, Continue, Return
<1>14. CASE UpscalePass
  BY <1>0, <1>14, AnswerImplemented, Answers, ReportImplemented, Ranks, Phases5
      DEF UpscalePass, Return
<1>15. CASE UpscaleSave
  BY <1>0, <1>15, AnswerImplemented, Answers DEF UpscaleSave, Return
<1>16. CASE GenerateStart
  BY <1>0, <1>16, AnswerImplemented, Answers, StutterImplemented DEF
      GenerateStart, Return
<1>17. CASE GenerateParams
  BY <1>0, <1>17, AnswerImplemented, Answers, StutterImplemented DEF
      GenerateParams, Continue, Return
<1>18. CASE LoadRef
  BY <1>0, <1>18, AnswerImplemented, Answers, StutterImplemented DEF LoadRef,
      Return
<1>19. CASE OutputDir
  BY <1>0, <1>19, AnswerImplemented, Answers, StutterImplemented DEF OutputDir,
      Continue, Return
<1>20. CASE Condition
  BY <1>0, <1>20, ReportImplemented, Ranks, Phases5 DEF Condition, Continue
<1>21. CASE RefCache
  BY <1>0, <1>21, StutterImplemented DEF RefCache, Continue
<1>22. CASE LookupRef
  BY <1>0, <1>22, StutterImplemented DEF LookupRef, protocolVars
<1>23. CASE LookupDone
  BY <1>0, <1>23, ReportImplemented, Ranks, Phases5, StutterImplemented DEF
      LookupDone, Continue
<1>24. CASE EncodeRef
  BY <1>0, <1>24, ReportImplemented, Ranks, Phases5, StutterImplemented DEF
      EncodeRef
<1>25. CASE EncodeDone
  BY <1>0, <1>25, StutterImplemented DEF EncodeDone, Continue
<1>26. CASE LibraryDies
  BY <1>0, <1>26, DieImplemented DEF LibraryDies, protocolVars
<1>27. CASE Run
  BY <1>0, <1>27, AnswerImplemented, Answers, ReportImplemented, Ranks, Phases5
      DEF Run, Continue, Return
<1>28. CASE UpscaleResult
  BY <1>0, <1>28, AnswerImplemented, Answers, ReportImplemented, Ranks, Phases5
      DEF UpscaleResult, Return
<1>29. CASE SaveResult
  BY <1>0, <1>29, AnswerImplemented, Answers DEF SaveResult, Return
<1>30. ASSUME NEW p \in Paths, EditRef(p) PROVE [Protocol!Next]_(Protocol!vars)
  BY <1>0, <1>30, StutterImplemented DEF EditRef, protocolVars
<1>31. CASE UNCHANGED vars
  BY <1>31 DEF vars, protocolVars, Protocol!vars
<1>. QED
  BY <1>1, <1>2, <1>3, <1>4, <1>5, <1>6, <1>7, <1>8, <1>9, <1>10, <1>11, <1>12,
      <1>13, <1>14, <1>15, <1>16, <1>17, <1>18, <1>19, <1>20, <1>21, <1>22,
      <1>23, <1>24, <1>25, <1>26, <1>27, <1>28, <1>29, <1>30, <1>31 DEF Next,
      Handle, Terminated

\* The engine implements the protocol its README describes.
THEOREM ProtocolImplemented == Spec => ImplementsProtocol
<1>1. Init => Protocol!Init
  BY DEF Init, Protocol!Init
<1>. QED
  BY <1>1, DialogueHolds, ProtocolStep, PTL DEF Spec, ImplementsProtocol, Protocol!Spec

-----------------------------------------------------------------------------
(* Raw text *)

\* Raw text needs a library call without a callback.
LEMMA QuietStep ==
  ASSUME CallbackAt, [Next]_vars, ~noise, noise'
  PROVE  pc \in {"loadParams", "loadUpscaler", "upscaleParams"}
<1>. USE DEF CallbackAt, Generating
<1>1. CASE ReadLine
  BY <1>1 DEF ReadLine
<1>2. CASE CloseStdin
  BY <1>2 DEF CloseStdin, protocolVars
<1>3. CASE HandleSimple
  BY <1>3 DEF HandleSimple
<1>4. CASE HandleUnload
  BY <1>4 DEF HandleUnload
<1>5. CASE HandleQuit
  BY <1>5 DEF HandleQuit, AfterQuit
<1>6. CASE Shutdown
  BY <1>6 DEF Shutdown, protocolVars
<1>7. CASE JsonTypeError
  BY <1>7 DEF JsonTypeError, protocolVars
<1>8. CASE LoadStart
  BY <1>8 DEF LoadStart
<1>9. CASE LoadModel
  BY <1>9 DEF LoadModel, LibraryProgress
<1>10. CASE LoadUpscaler
  BY <1>10 DEF LoadUpscaler, LibraryProgress
<1>11. CASE UpscaleStart
  BY <1>11 DEF UpscaleStart
<1>12. CASE UpscaleUpscaler
  BY <1>12 DEF UpscaleUpscaler, LibraryProgress
<1>13. CASE UpscaleInput
  BY <1>13 DEF UpscaleInput
<1>14. CASE UpscalePass
  BY <1>14 DEF UpscalePass, LibraryProgress
<1>15. CASE UpscaleSave
  BY <1>15 DEF UpscaleSave
<1>16. CASE GenerateStart
  BY <1>16 DEF GenerateStart
<1>17. CASE GenerateParams
  BY <1>17 DEF GenerateParams
<1>18. CASE LoadRef
  BY <1>18 DEF LoadRef
<1>19. CASE OutputDir
  BY <1>19 DEF OutputDir
<1>20. CASE Condition
  BY <1>20 DEF Condition
<1>21. CASE RefCache
  BY <1>21 DEF RefCache
<1>22. CASE LookupRef
  BY <1>22 DEF LookupRef, protocolVars
<1>23. CASE LookupDone
  BY <1>23 DEF LookupDone
<1>24. CASE EncodeRef
  BY <1>24 DEF EncodeRef, LibraryProgress
<1>25. CASE EncodeDone
  BY <1>25 DEF EncodeDone
<1>26. CASE LibraryDies
  BY <1>26 DEF LibraryDies, protocolVars
<1>27. CASE Run
  BY <1>27 DEF Run, LibraryProgress
<1>28. CASE UpscaleResult
  BY <1>28 DEF UpscaleResult, LibraryProgress
<1>29. CASE SaveResult
  BY <1>29 DEF SaveResult
<1>30. ASSUME NEW p \in Paths, EditRef(p)
       PROVE  pc \in {"loadParams", "loadUpscaler", "upscaleParams"}
  BY <1>30 DEF EditRef, protocolVars
<1>31. CASE UNCHANGED vars
  BY <1>31 DEF vars, protocolVars
<1>. QED
  BY <1>1, <1>2, <1>3, <1>4, <1>5, <1>6, <1>7, <1>8, <1>9, <1>10, <1>11, <1>12,
      <1>13, <1>14, <1>15, <1>16, <1>17, <1>18, <1>19, <1>20, <1>21, <1>22,
      <1>23, <1>24, <1>25, <1>26, <1>27, <1>28, <1>29, <1>30, <1>31 DEF Next,
      Handle, Terminated

\* Only the steps that load a model file can put raw text on stdout: the
\* callback is installed wherever the library reports progress otherwise.
THEOREM InferenceStaysQuiet == Spec => InferenceIsQuiet
<1>1. Dialogue => CallbackAt
  BY DEF Dialogue
<1>2. ASSUME CallbackAt, [Next]_vars
      PROVE  [~noise /\ noise' => pc \in {"loadParams", "loadUpscaler", "upscaleParams"}]_vars
  BY <1>2, QuietStep
<1>. QED
  BY <1>1, <1>2, DialogueHolds, PTL DEF Spec, InferenceIsQuiet

-----------------------------------------------------------------------------
(* Handlers end *)

\* How far the control point is from the end of the command.
StageOf(point) ==
  CASE point = "dispatch" -> 10
    [] point \in {"loadParams", "upscaleParams", "generateParams"} -> 9
    [] point \in {"loadUpscaler", "upscaleInput", "loadRefs"} -> 8
    [] point \in {"upscalePass", "prompt"} -> 7
    [] point = "refCache" -> 6
    [] point = "lookup" -> 5
    [] point = "encode" -> 4
    [] point = "run" -> 3
    [] point = "upscaleResult" -> 2
    [] point = "shutdown" -> 1
    [] OTHER -> 0

\* The passes of the loop at the control point: one for each reference image,
\* or one for each repetition of the upscaler.
Passes == IF pc \in {"upscalePass", "upscaleResult"} THEN req.repeats
                                                     ELSE Len(req.refs)

\* Those it has not made yet.
PassesLeft == IF idx <= Passes THEN Passes + 1 - idx ELSE 0

\* A step of the main thread brings the end of the command closer.
Closer ==
  \/ StageOf(pc') < StageOf(pc)
  \/ pc' = pc /\ PassesLeft' < PassesLeft

\* Both parts of the measure are natural numbers.
LEMMA MeasureType ==
  ASSUME TypeOK
  PROVE  StageOf(pc) \in Nat /\ Passes \in Nat /\ PassesLeft \in Nat
<1>1. req.refs \in Seq(Paths)
  BY RefsType DEF TypeOK
<1>2. req.repeats \in Nat /\ idx \in Nat
  BY DEF TypeOK, LocalsType, Requests
<1>3. Passes \in Nat
  BY <1>1, <1>2 DEF Passes
<1>. QED
  BY <1>2, <1>3 DEF StageOf, PassesLeft

\* A pass of a loop that goes on leaves one pass fewer.
LEMMA PassCloser ==
  ASSUME TypeOK, idx <= Passes, idx' = idx + 1, req' = req, pc' = pc
  PROVE  PassesLeft' < PassesLeft
<1>1. Passes \in Nat /\ idx \in Nat
  BY MeasureType DEF TypeOK, LocalsType
<1>2. Passes' = Passes
  BY DEF Passes
<1>. QED
  BY <1>1, <1>2 DEF PassesLeft

\* Every step that serves a command brings its end closer.
LEMMA HandleCloser ==
  ASSUME TypeOK, Handle
  PROVE  Closer
<1>1. CASE HandleSimple
  BY <1>1 DEF HandleSimple, Return, Closer, StageOf
<1>2. CASE HandleUnload
  BY <1>2 DEF HandleUnload, Return, Closer, StageOf
<1>3. CASE HandleQuit
  BY <1>3 DEF HandleQuit, AfterQuit, Closer, StageOf
<1>4. CASE Shutdown
  BY <1>4 DEF Shutdown, Closer, StageOf
<1>5. CASE JsonTypeError
  BY <1>5 DEF JsonTypeError, Closer, StageOf
<1>6. CASE LoadStart
  BY <1>6 DEF LoadStart, Return, Continue, Closer, StageOf
<1>7. CASE LoadModel
  BY <1>7 DEF LoadModel, Return, Continue, Closer, StageOf
<1>8. CASE LoadUpscaler
  BY <1>8 DEF LoadUpscaler, Return, Closer, StageOf
<1>9. CASE UpscaleStart
  BY <1>9 DEF UpscaleStart, Return, Continue, Closer, StageOf
<1>10. CASE UpscaleUpscaler
  BY <1>10 DEF UpscaleUpscaler, Return, Closer, StageOf
<1>11. CASE UpscaleInput
  BY <1>11 DEF UpscaleInput, Return, Continue, Closer, StageOf
<1>12. CASE UpscalePass
  <2>1. CASE pc' = "idle"
    BY <1>12, <2>1 DEF UpscalePass, Closer, StageOf
  <2>2. CASE pc' = pc
    <3>1. idx <= Passes /\ idx' = idx + 1 /\ req' = req
      BY <1>12, <2>2 DEF UpscalePass, Return, Passes
    <3>. QED
      BY <2>2, <3>1, PassCloser DEF Closer
  <2>. QED
    BY <1>12, <2>1, <2>2 DEF UpscalePass, Return
<1>13. CASE UpscaleSave
  BY <1>13 DEF UpscaleSave, Return, Closer, StageOf
<1>14. CASE GenerateStart
  BY <1>14 DEF GenerateStart, Return, Closer, StageOf
<1>15. CASE GenerateParams
  BY <1>15 DEF GenerateParams, Return, Continue, Closer, StageOf
<1>16. CASE LoadRef
  <2>1. CASE pc' = "idle"
    BY <1>16, <2>1 DEF LoadRef, Closer, StageOf
  <2>2. CASE pc' = pc
    <3>1. idx <= Passes /\ idx' = idx + 1 /\ req' = req
      BY <1>16, <2>2 DEF LoadRef, Return, Passes
    <3>. QED
      BY <2>2, <3>1, PassCloser DEF Closer
  <2>. QED
    BY <1>16, <2>1, <2>2 DEF LoadRef, Return
<1>17. CASE OutputDir
  BY <1>17 DEF OutputDir, Return, Continue, Closer, StageOf
<1>18. CASE Condition
  BY <1>18 DEF Condition, Continue, Closer, StageOf
<1>19. CASE RefCache
  BY <1>19 DEF RefCache, Continue, Closer, StageOf
<1>20. CASE LookupRef
  <2>1. CASE pc' = "idle"
    BY <1>20, <2>1 DEF LookupRef, Closer, StageOf
  <2>2. CASE pc' = pc
    <3>1. idx <= Passes /\ idx' = idx + 1 /\ req' = req
      BY <1>20, <2>2 DEF LookupRef, Passes
    <3>. QED
      BY <2>2, <3>1, PassCloser DEF Closer
  <2>. QED
    BY <1>20, <2>1, <2>2 DEF LookupRef
<1>21. CASE LookupDone
  BY <1>21 DEF LookupDone, Continue, Closer, StageOf
<1>22. CASE EncodeRef
  <2>1. CASE pc' = "idle"
    BY <1>22, <2>1 DEF EncodeRef, Closer, StageOf
  <2>2. CASE pc' = pc
    <3>1. idx <= Passes /\ idx' = idx + 1 /\ req' = req
      BY <1>22, <2>2 DEF EncodeRef, Passes
    <3>. QED
      BY <2>2, <3>1, PassCloser DEF Closer
  <2>. QED
    BY <1>22, <2>1, <2>2 DEF EncodeRef
<1>23. CASE EncodeDone
  BY <1>23 DEF EncodeDone, Continue, Closer, StageOf
<1>24. CASE LibraryDies
  BY <1>24 DEF LibraryDies, Closer, StageOf
<1>25. CASE Run
  BY <1>25 DEF Run, Return, Continue, Closer, StageOf
<1>26. CASE UpscaleResult
  <2>1. CASE pc' = "idle"
    BY <1>26, <2>1 DEF UpscaleResult, Closer, StageOf
  <2>2. CASE pc' = pc
    <3>1. idx <= Passes /\ idx' = idx + 1 /\ req' = req
      BY <1>26, <2>2 DEF UpscaleResult, Return, Passes
    <3>. QED
      BY <2>2, <3>1, PassCloser DEF Closer
  <2>. QED
    BY <1>26, <2>1, <2>2 DEF UpscaleResult, Return
<1>27. CASE SaveResult
  BY <1>27 DEF SaveResult, Return, Closer, StageOf
<1>. QED
  BY <1>1, <1>2, <1>3, <1>4, <1>5, <1>6, <1>7, <1>8, <1>9, <1>10, <1>11,
      <1>12, <1>13, <1>14, <1>15, <1>16, <1>17, <1>18, <1>19, <1>20, <1>21,
      <1>22, <1>23, <1>24, <1>25, <1>26, <1>27 DEF Handle

\* Every command comes to an end: each step that serves it brings the control
\* point nearer to the answer or leaves one pass fewer of the loop it is in,
\* and an edit of a reference image, at whatever moment, gives nothing back.
\* What is left for AnsweredOrDead is that the main thread is scheduled.
THEOREM HandlersEnd ==
  Spec => [][/\ Handle => Closer
             /\ (\E p \in Paths : EditRef(p))
                  => pc' = pc /\ PassesLeft' = PassesLeft]_vars
<1>1. ASSUME TypeOK, [Next]_vars
      PROVE  [/\ Handle => Closer
              /\ (\E p \in Paths : EditRef(p))
                   => pc' = pc /\ PassesLeft' = PassesLeft]_vars
  <2>1. ASSUME \E p \in Paths : EditRef(p)
        PROVE  pc' = pc /\ PassesLeft' = PassesLeft
    BY <2>1 DEF EditRef, locals, PassesLeft, Passes
  <2>. QED
    BY <1>1, <2>1, HandleCloser
<1>. QED
  BY <1>1, TypeCorrect, PTL DEF Spec
=============================================================================
