------------------------------ MODULE LruCache ------------------------------
(***************************************************************************)
(* The two caches of EngineState (tools/engine/main.cpp): unordered_maps   *)
(* whose entries carry the time they were last used.  Only the order of    *)
(* the last_used times matters to the code, so a cache is the sequence of  *)
(* its entries, least recently used first.  An entry is a record with a    *)
(* field key; its other fields are what is cached.                         *)
(***************************************************************************)
EXTENDS Naturals, Sequences

KeysOf(cache) == {cache[i].key : i \in 1 .. Len(cache)}

\* unordered_map::find
Holds(cache, key) == key \in KeysOf(cache)

PositionOf(cache, key) == CHOOSE i \in 1 .. Len(cache) : cache[i].key = key

Lookup(cache, key) == cache[PositionOf(cache, key)]

\* The last_used time of the entry at position p becomes the latest of all.
MoveToEnd(cache, p) ==
  [i \in 1 .. Len(cache) |->
     IF i < p THEN cache[i]
     ELSE IF i < Len(cache) THEN cache[i + 1] ELSE cache[p]]

\* A bug this project's runs must notice: a hit that leaves last_used alone.
TouchForgotten(cache, key) == cache

\* it->second.last_used = now()
Touch(cache, key) == MoveToEnd(cache, PositionOf(cache, key))

\* Bugs the runs must notice: room for one entry too many; the wrong victim.
EvictAboveCapacity(cache, capacity) ==
  IF Len(cache) <= capacity THEN cache ELSE Tail(cache)
EvictNewest(cache, capacity) ==
  IF Len(cache) < capacity THEN cache ELSE SubSeq(cache, 1, Len(cache) - 1)

\* evict_prompt_cache_if_needed and evict_latent_cache_if_needed
EvictIfFull(cache, capacity) ==
  IF Len(cache) < capacity THEN cache ELSE Tail(cache)

\* unordered_map::emplace: an entry under a key already present is not stored,
\* and the temporary that was to be moved in is destroyed with what it owns.
Emplace(cache, entry) ==
  IF Holds(cache, entry.key) THEN cache ELSE Append(cache, entry)

\* Bug the runs must notice: a full cache does not take the entry.
InsertIfRoom(cache, entry, capacity) ==
  IF Len(cache) < capacity THEN Emplace(cache, entry) ELSE cache

\* Room is made before the entry is stored.
Insert(cache, entry, capacity) == Emplace(EvictIfFull(cache, capacity), entry)

\* Two entries never share a key: the cache is a map.
IsMap(cache) ==
  \A i, j \in 1 .. Len(cache) : cache[i].key = cache[j].key => i = j
=============================================================================
