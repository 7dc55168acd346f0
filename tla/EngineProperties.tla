-------------------------- MODULE EngineProperties --------------------------
(***************************************************************************)
(* What must hold of cn-engine (module Engine).                            *)
(***************************************************************************)
EXTENDS Engine

ControlPoints ==
  {"idle", "dispatch", "shutdown", "exited", "crashed", "loadParams",
   "loadUpscaler", "upscaleParams", "upscaleInput", "upscalePass",
   "generateParams", "loadRefs", "prompt", "refCache", "lookup", "encode", "run",
   "upscaleResult"}

Phases == {"none", "conditioning", "encoding", "sampling", "saving", "upscaling"}

Requests == [prompt : Prompts \cup {Null}, refs : RefLists \cup {<<>>},
             useLatents : BOOLEAN, tiled : BOOLEAN, repeats : Nat]

PromptEntries == [key : Prompts, model : Models]

LatentEntries == [key : Paths \X Nat, obj : Latents, model : Models, ver : Nat,
                  tiled : BOOLEAN]

ControlType ==
  /\ pc \in ControlPoints
  /\ op \in Commands \cup {Null}
  /\ reply \in {"none", "ok", "result", "error"}
  /\ phase \in Phases
  /\ noise \in BOOLEAN /\ callback \in BOOLEAN

StateType ==
  /\ ctx \in Models \cup {Null}
  /\ decodeOnly \in BOOLEAN /\ tiling \in BOOLEAN /\ upscaler \in BOOLEAN
  /\ prompts \in Seq(PromptEntries)
  /\ latents \in Seq(LatentEntries)

LocalsType ==
  /\ req \in Requests
  /\ cond \in Prompts \cup {Null}
  /\ lats \in Seq(Latents \cup {Null})
  /\ idx \in Nat \ {0}
  /\ image \in Nat \cup {Null} /\ result \in Nat \cup {Null}
  /\ usesResult \in BOOLEAN

HeapType ==
  /\ pixels \in Seq(Nat)
  /\ temp \in BOOLEAN
  /\ bufs \in SUBSET Nat
  /\ memoryError \in BOOLEAN

DiskType == disk \in [Paths -> [ver : Nat, exists : BOOLEAN]]

\* The type invariant of the engine's variables.
TypeOK == ControlType /\ StateType /\ LocalsType /\ HeapType /\ DiskType

-----------------------------------------------------------------------------
(* State kept between commands *)

\* Everything EngineState holds belongs to the model that is loaded now: there
\* is no upscaler and no cached condition or latent without a model, every
\* cached object was computed by the present model, and a model that cannot
\* encode has no cached latents.  handle_load has exits after which no model is
\* left, and the caches are cleared at other places than the context is freed.
StateBelongsToModel ==
  /\ ctx = Null => ~upscaler /\ prompts = <<>> /\ latents = <<>>
  /\ \A k \in 1 .. Len(prompts) : prompts[k].model = ctx
  /\ \A k \in 1 .. Len(latents) : latents[k].model = ctx
  /\ decodeOnly => latents = <<>>

\* The caches stay within their capacities (README.md, "Up to 16 prompt
\* conditions are cached", "Up to 8 latents are cached") and have one entry
\* per key, also when one request inserts several latents.
CachesBounded ==
  /\ Len(prompts) <= MaxPromptEntries /\ IsMap(prompts)
  /\ Len(latents) <= MaxLatentEntries /\ IsMap(latents)

\* A handler that returns has freed the reference images, the image buffers
\* and the temporary upscaler, whichever of its exits it took, and a process
\* that ends, after quit or because stdin was closed, has freed all it kept.
NothingLeaks ==
  /\ pc \in {"idle", "shutdown", "exited"} => pixels = <<>> /\ bufs = {} /\ ~temp
  /\ pc = "exited" => ctx = Null /\ ~upscaler /\ prompts = <<>> /\ latents = <<>>

-----------------------------------------------------------------------------
(* What a request uses *)

\* No freed object is used and none is freed twice: not the condition and the
\* latents that a request points to while it evicts and inserts entries, not
\* the buffers that final_image and results[0] share.
MemorySafe == ~memoryError

\* The prompt cache never gives up the condition that the running request
\* points to.
ConditionAlive == cond # Null => Holds(prompts, cond)

\* When generation starts, the latents the request uses are the most recently
\* used ones of the cache: no insertion of the request has evicted another of
\* its own, and the next request evicts them last.
RequestMostRecent ==
  pc = "run" /\ HaveCachedLatents =>
    \A k \in 1 .. Len(lats) :
      \E j \in 1 .. Len(latents) :
        j > Len(latents) - Len(lats) /\ latents[j].obj = lats[k]

EncodedFrom(k, entry) == entry.key[1] = req.refs[k] /\ entry.ver = pixels[k]

\* Each latent that generation is given is the encoding of the reference image
\* that this request loaded at that position (README.md, "Modified reference
\* image: detects the change, re-encodes").
LatentsOfThisRequest ==
  pc = "run" /\ HaveCachedLatents =>
    \A k \in 1 .. Len(lats) :
      \E j \in 1 .. Len(latents) :
        latents[j].obj = lats[k] /\ EncodedFrom(k, latents[j])

\* Each latent that generation is given was encoded with the tiling this
\* request asks for (main.cpp, "VAE tiling (per-generation override)").
LatentsTiledAsRequested ==
  pc = "run" /\ HaveCachedLatents =>
    \A j \in 1 .. Len(latents) :
      (\E k \in 1 .. Len(lats) : latents[j].obj = lats[k])
        => latents[j].tiled = req.tiled

\* A prompt that was just used is the newest entry of its cache, whether it was
\* found or inserted: the order in which entries are evicted is that of use.
UsedPromptIsNewest ==
  [][cond' # cond /\ cond' # Null
       => Len(prompts') > 0 /\ prompts'[Len(prompts')].key = cond']_vars

-----------------------------------------------------------------------------
(* What the parent sees *)

\* Raw text goes to stdout only in the steps that load a model file: sampling,
\* tiled encoding and upscaling report through the callback on every path.
InferenceIsQuiet ==
  [][~noise /\ noise' => pc \in {"loadParams", "loadUpscaler", "upscaleParams"}]_vars

\* README.md: "This keeps stdout exclusively for the JSON protocol."
StdoutIsJson == ~noise

\* A command that was read is answered, unless the process dies.
AnsweredOrDead == (pc = "dispatch") ~> (reply # "none" \/ pc = "crashed")

\* A command that was read is answered (README.md: "error | Command failed").
Answered == (pc = "dispatch") ~> (reply # "none")

Protocol ==
  INSTANCE EngineProtocol WITH
    current <- op,
    life <- IF pc = "crashed" THEN "dead" ELSE IF pc = "exited" THEN "stopped" ELSE "up"

\* The engine implements the protocol its README describes.
ImplementsProtocol == Protocol!Spec
=============================================================================
