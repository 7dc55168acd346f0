------------------------------- MODULE Engine -------------------------------
(***************************************************************************)
(* cn-engine (tools/engine/main.cpp): the loop that reads one command per  *)
(* line from stdin, the handlers, the state they keep between commands     *)
(* (EngineState: context, upscaler, prompt cache, latent cache) and what   *)
(* a handler owns while it runs (reference images, pointers into the       *)
(* caches, image buffers, a temporary upscaler).                           *)
(*                                                                         *)
(* The process is single threaded.  What runs beside it is the parent,     *)
(* which writes the commands, and whoever edits the reference image files. *)
(* The content of a command is chosen where the handler reads it.          *)
(***************************************************************************)
EXTENDS LruCache

CONSTANTS
  Null,              \* nullptr
  Models,            \* what a load command may load
  Prompts,           \* prompts that go through the prompt cache
  Paths,             \* paths of reference images
  RefLists,          \* the ref_images arrays a generate command may carry
  Latents,           \* identities of sd_latent_t objects
  MaxPromptEntries,  \* MAX_PROMPT_CACHE_ENTRIES
  MaxLatentEntries,  \* MAX_LATENT_CACHE_ENTRIES
  MaxRepeats,        \* bound on upscale_repeats
  MaxVersion,        \* bound on the edits of one file
  Tilings,           \* values of vae_tiling.enabled that requests use
  RacingEdits        \* may a file change while a command is being served?

ASSUME CapacityAssumption ==
  MaxPromptEntries \in Nat \ {0} /\ MaxLatentEntries \in Nat \ {0}

ASSUME RequestAssumption ==
  /\ RefLists \subseteq Seq(Paths)
  /\ MaxRepeats \in Nat /\ MaxVersion \in Nat \ {0}
  /\ Tilings \subseteq BOOLEAN /\ RacingEdits \in BOOLEAN

VARIABLES
  pc,            \* where the main thread is
  op,            \* the command being served, or the last one served
  reply,         \* its terminal message, "none" so far
  phase,         \* the phase of its last progress message
  noise,         \* has raw text gone to stdout while it was served?
  callback,      \* is the progress callback installed?
  ctx,           \* state.ctx: the model it holds, or Null
  decodeOnly,    \* ctx's vae_decode_only
  tiling,        \* ctx's vae_tiling_params.enabled
  upscaler,      \* is state.upscaler_ctx set?
  prompts,       \* state.prompt_cache
  latents,       \* state.latent_cache
  disk,          \* the reference image files
  req,           \* the parsed params of the command being served
  pixels,        \* ref_images: for each buffer the file version it holds
  cond,          \* cached_condition: the prompt of the entry pointed to
  lats,          \* cached_latents: sd_latent_t pointers
  idx,           \* the index of the running loop
  temp,          \* is a temporary upscaler alive?
  bufs,          \* live image buffers of this request; 0 is the array results
  image,         \* final_image.data or current_image.data
  result,        \* results[0].data
  usesResult,    \* final_image_uses_results_buffer
  memoryError    \* a freed object was used, or one was freed twice

protocolVars == <<op, reply, phase, noise>>
modelVars == <<ctx, decodeOnly, tiling>>
stateVars == <<modelVars, upscaler, prompts, latents>>
locals == <<req, cond, lats, idx, image, result, usesResult>>
heapVars == <<pixels, temp, bufs, memoryError>>
vars == <<pc, protocolVars, callback, stateVars, disk, locals, heapVars>>

NoRequest == [prompt |-> Null, refs |-> <<>>, useLatents |-> FALSE,
              tiled |-> FALSE, repeats |-> 0]

Commands == {"ping", "status", "load", "unload", "generate", "upscale",
             "quit", "invalid", "malformed"}

ASSUME NullAssumption ==
  /\ Null \notin Models /\ Null \notin Prompts /\ Null \notin Latents
  /\ Null \notin Nat /\ Null \notin Commands

-----------------------------------------------------------------------------
(* What the steps share *)

\* The handler goes on.
Continue(next) ==
  /\ pc' = next
  /\ UNCHANGED <<reply, callback>>

LocalsDie ==
  /\ req' = NoRequest /\ cond' = Null /\ lats' = <<>> /\ idx' = 1
  /\ image' = Null /\ result' = Null /\ usesResult' = FALSE

\* The terminal message goes out, the handler's locals go out of scope, and
\* ~ProgressCallbackScope uninstalls the callback.
Return(r) ==
  /\ reply' = r
  /\ pc' = "idle"
  /\ LocalsDie
  /\ callback' = FALSE

\* Bug the runs must notice: a handler without a ProgressCallbackScope.
ScopeForgotten == UNCHANGED callback

\* ProgressCallbackScope progress_scope(&prog_ctx)
InstallCallback == callback' = TRUE

\* The library reports progress (pretty_progress): to the callback when one is
\* installed, as a bar printed to stdout otherwise.
LibraryProgress == noise' = (noise \/ ~callback)

LiveLatents == {latents[k].obj : k \in 1 .. Len(latents)}

\* free() of these pointers in this order; free(nullptr) is harmless.
Free(ptrs) ==
  /\ bufs' = bufs \ {ptrs[k] : k \in 1 .. Len(ptrs)}
  /\ memoryError' = (memoryError \/
       \E k \in 1 .. Len(ptrs) :
         /\ ptrs[k] # Null
         /\ ptrs[k] \notin bufs \/ \E j \in 1 .. k - 1 : ptrs[j] = ptrs[k])

\* stat() of a reference image: its modification time and size, or 0, 0.
Stamp(p) == IF disk[p].exists THEN disk[p].ver ELSE 0

\* Bug the runs must notice: the path alone is the key.
PathKey(p) == <<p, 0>>

\* make_latent_cache_key
LatentKey(p) == <<p, Stamp(p)>>

\* EngineState::clear_prompt_cache and clear_latent_cache
ClearCaches == prompts' = <<>> /\ latents' = <<>>

\* Bug the runs must notice: the upscaler of the old model survives it.
UpscalerKept == UNCHANGED upscaler

\* EngineState::clear_upscaler
ClearUpscaler == upscaler' = FALSE

\* free_sd_ctx; state.ctx = nullptr
FreeModel == ctx' = Null /\ decodeOnly' = TRUE /\ tiling' = FALSE

-----------------------------------------------------------------------------
Init ==
  /\ pc = "idle" /\ op = Null /\ reply = "none" /\ phase = "none"
  /\ noise = FALSE /\ callback = FALSE
  /\ ctx = Null /\ decodeOnly = TRUE /\ tiling = FALSE /\ upscaler = FALSE
  /\ prompts = <<>> /\ latents = <<>>
  /\ disk = [p \in Paths |-> [ver |-> 1, exists |-> TRUE]]
  /\ req = NoRequest /\ cond = Null /\ lats = <<>> /\ idx = 1
  /\ image = Null /\ result = Null /\ usesResult = FALSE
  /\ pixels = <<>> /\ temp = FALSE /\ bufs = {} /\ memoryError = FALSE

-----------------------------------------------------------------------------
(* main: the loop over stdin *)

\* One line is read.  "invalid" stands for a line that is not JSON, has no cmd
\* or an unknown one; "malformed" for JSON on which request.value throws.
ReadLine ==
  /\ pc = "idle"
  /\ op' \in Commands
  /\ reply' = "none" /\ phase' = "none" /\ noise' = FALSE
  /\ pc' = "dispatch"
  /\ UNCHANGED <<callback, stateVars, disk, locals, heapVars>>

\* Bug the runs must notice: an unknown command is dropped without an answer.
HandleSimpleSilently ==
  /\ pc = "dispatch"
  /\ \/ op \in {"ping", "status"} /\ Return("ok")
     \/ op = "invalid" /\ pc' = "idle" /\ UNCHANGED <<reply, callback, locals>>
  /\ UNCHANGED <<op, phase, noise, stateVars, disk, heapVars>>

\* ping, status and the lines the loop answers itself
HandleSimple ==
  /\ pc = "dispatch"
  /\ \/ op \in {"ping", "status"} /\ Return("ok")
     \/ op = "invalid" /\ Return("error")
  /\ UNCHANGED <<op, phase, noise, stateVars, disk, heapVars>>

HandleUnload ==
  /\ pc = "dispatch" /\ op = "unload"
  /\ IF ctx # Null THEN ClearCaches /\ FreeModel
                   ELSE UNCHANGED <<prompts, latents, modelVars>>
  /\ ClearUpscaler
  /\ Return("ok")
  /\ UNCHANGED <<op, phase, noise, disk, heapVars>>

\* Bug the runs must notice: no break after handle_quit.
LoopAfterQuit == "idle"

\* The break that follows handle_quit leads to the end of main.
AfterQuit == "shutdown"

HandleQuit ==
  /\ pc = "dispatch" /\ op = "quit"
  /\ ClearCaches /\ ClearUpscaler /\ FreeModel
  /\ reply' = "ok" /\ pc' = AfterQuit
  /\ UNCHANGED <<op, phase, noise, callback, disk, locals, heapVars>>

\* std::getline fails: the parent closed stdin.
CloseStdin ==
  /\ pc = "idle"
  /\ pc' = "shutdown"
  /\ UNCHANGED <<protocolVars, callback, stateVars, disk, locals, heapVars>>

\* The end of main
Shutdown ==
  /\ pc = "shutdown"
  /\ ClearCaches /\ ClearUpscaler /\ FreeModel
  /\ pc' = "exited"
  /\ UNCHANGED <<protocolVars, callback, disk, locals, heapVars>>

\* nlohmann::json throws on a field of an unexpected type and nothing catches
\* it: the process terminates.  These are the points where fields are read.
JsonTypeError ==
  /\ \/ pc = "dispatch" /\ op = "malformed"
     \/ pc \in {"loadParams", "upscaleParams", "generateParams", "refCache"}
     \/ pc = "loadRefs" /\ idx > Len(req.refs)
  /\ pc' = "crashed"
  /\ UNCHANGED <<protocolVars, callback, stateVars, disk, locals, heapVars>>

-----------------------------------------------------------------------------
(* handle_load *)

\* A load without a params object is refused; any other frees the old model
\* before its own parameters are read.
LoadStart ==
  /\ pc = "dispatch" /\ op = "load"
  /\ \/ /\ Return("error")
        /\ UNCHANGED stateVars
     \/ /\ IF ctx # Null THEN ClearCaches /\ ClearUpscaler /\ FreeModel
                         ELSE UNCHANGED stateVars
        /\ Continue("loadParams")
        /\ UNCHANGED locals
  /\ UNCHANGED <<op, phase, noise, disk, heapVars>>

\* new_sd_ctx, with vae_decode_only as requested.  It fails before or after
\* tensors are loaded, and loading them reports progress.
LoadModel ==
  /\ pc = "loadParams"
  /\ \/ /\ ctx' \in Models /\ decodeOnly' \in BOOLEAN
        /\ LibraryProgress
        /\ Continue("loadUpscaler")
        /\ UNCHANGED locals
     \/ /\ LibraryProgress \/ UNCHANGED noise
        /\ Return("error")
        /\ UNCHANGED <<ctx, decodeOnly>>
  /\ UNCHANGED <<op, phase, tiling, upscaler, prompts, latents, disk, heapVars>>

\* No upscale_model, an upscaler that loads, or one that does not and takes
\* the new model with it.
LoadUpscaler ==
  /\ pc = "loadUpscaler"
  /\ \/ /\ Return("ok")
        /\ UNCHANGED <<noise, upscaler, modelVars>>
     \/ /\ LibraryProgress /\ upscaler' = TRUE
        /\ Return("ok")
        /\ UNCHANGED modelVars
     \/ /\ LibraryProgress \/ UNCHANGED noise
        /\ FreeModel
        /\ Return("error")
        /\ UNCHANGED upscaler
  /\ UNCHANGED <<op, phase, prompts, latents, disk, heapVars>>

-----------------------------------------------------------------------------
(* handle_upscale *)

UpscaleStart ==
  /\ pc = "dispatch" /\ op = "upscale"
  /\ \/ Return("error")                       \* no params object
     \/ Continue("upscaleParams") /\ UNCHANGED locals
  /\ UNCHANGED <<op, phase, noise, stateVars, disk, heapVars>>

\* Parameters are checked, a temporary upscaler is created if the command
\* names one, and only after that the progress callback is installed.
UpscaleUpscaler ==
  /\ pc = "upscaleParams"
  /\ \/ /\ Return("error")                    \* no input, upscale_repeats < 1,
        /\ LibraryProgress \/ UNCHANGED noise \* NO_UPSCALER, or the temporary
        /\ UNCHANGED temp                     \* upscaler does not load
     \/ \E repeats \in 1 .. MaxRepeats, own \in BOOLEAN :
          /\ own \/ upscaler
          /\ IF own THEN LibraryProgress ELSE UNCHANGED noise
          /\ temp' = own
          /\ req' = [NoRequest EXCEPT !.repeats = repeats]
          /\ InstallCallback
          /\ pc' = "upscaleInput"
          /\ UNCHANGED <<reply, cond, lats, idx, image, result, usesResult>>
  /\ UNCHANGED <<op, phase, stateVars, disk, pixels, bufs, memoryError>>

\* Bug the runs must notice: an exit that keeps the temporary upscaler.
TempForgotten == UNCHANGED temp

\* if (using_temp_upscaler) free_upscaler_ctx(upscaler_ctx)
FreeTemp == temp' = FALSE

\* The input is loaded and the output directory created.  If either fails, an
\* image already loaded is freed.
UpscaleInput ==
  /\ pc = "upscaleInput"
  /\ \/ /\ FreeTemp
        /\ Return("error")
        /\ UNCHANGED <<phase, bufs>>
     \/ /\ bufs' = {1} /\ image' = 1
        /\ phase' = "upscaling"
        /\ Continue("upscalePass")
        /\ UNCHANGED <<temp, req, cond, lats, idx, result, usesResult>>
  /\ UNCHANGED <<op, noise, stateVars, disk, pixels, memoryError>>

\* One upscale() of current_image; pass idx yields buffer idx + 1.
UpscalePass ==
  /\ pc = "upscalePass" /\ idx <= req.repeats
  /\ \/ /\ Free(<<image>>) /\ FreeTemp
        /\ Return("error")
        /\ UNCHANGED noise
     \/ /\ LibraryProgress
        /\ memoryError' = (memoryError \/ image \notin bufs)
        /\ bufs' = (bufs \ {image}) \cup {idx + 1}
        /\ image' = idx + 1 /\ idx' = idx + 1
        /\ UNCHANGED <<pc, reply, callback, temp, req, cond, lats, result, usesResult>>
  /\ phase' = "upscaling"
  /\ UNCHANGED <<op, stateVars, disk, pixels>>

UpscaleSave ==
  /\ pc = "upscalePass" /\ idx > req.repeats
  /\ Free(<<image>>) /\ FreeTemp
  /\ Return("result") \/ Return("error")
  /\ UNCHANGED <<op, phase, noise, stateVars, disk, pixels>>

-----------------------------------------------------------------------------
(* handle_generate *)

GenerateStart ==
  /\ pc = "dispatch" /\ op = "generate"
  /\ \/ /\ Return("error")                    \* NO_MODEL, no params object
     \/ /\ ctx # Null
        /\ InstallCallback
        /\ pc' = "generateParams"
        /\ UNCHANGED <<reply, locals>>
  /\ UNCHANGED <<op, phase, noise, stateVars, disk, heapVars>>

\* The prompt is Null when it is empty or use_prompt_cache is false.
GenerateParams ==
  /\ pc = "generateParams"
  /\ \/ Return("error")                       \* upscale_repeats < 0, NO_UPSCALER
     \/ /\ req' \in [prompt : Prompts \cup {Null}, refs : RefLists,
                     useLatents : BOOLEAN, tiled : Tilings, repeats : 0 .. MaxRepeats]
        /\ req'.repeats > 0 => upscaler
        /\ Continue("loadRefs")
        /\ UNCHANGED <<cond, lats, idx, image, result, usesResult>>
  /\ UNCHANGED <<op, phase, noise, stateVars, disk, heapVars>>

\* Reference image idx is read from disk.  If that fails, those already loaded
\* are freed.
LoadRef ==
  /\ pc = "loadRefs" /\ idx <= Len(req.refs)
  /\ \/ /\ disk[req.refs[idx]].exists
        /\ pixels' = Append(pixels, disk[req.refs[idx]].ver)
        /\ idx' = idx + 1
        /\ UNCHANGED <<pc, reply, callback, req, cond, lats, image, result, usesResult>>
     \/ /\ pixels' = <<>>
        /\ Return("error")
  /\ UNCHANGED <<op, phase, noise, stateVars, disk, temp, bufs, memoryError>>

OutputDir ==
  /\ pc = "loadRefs" /\ idx > Len(req.refs)
  /\ \/ /\ pixels' = <<>>
        /\ Return("error")
     \/ /\ Continue("prompt")
        /\ idx' = 1
        /\ UNCHANGED <<pixels, req, cond, lats, image, result, usesResult>>
  /\ UNCHANGED <<op, phase, noise, stateVars, disk, temp, bufs, memoryError>>

\* Bug the runs must notice: an empty prompt is cached like any other.
CachesAnything == TRUE

\* use_prompt_cache && !prompt.empty()
CachesPrompt == req.prompt # Null

\* The prompt cache: a hit, a miss that is computed and stored, a miss that
\* sd_compute_condition fails to compute, or no caching.
Condition ==
  /\ pc = "prompt"
  /\ \/ /\ CachesPrompt /\ Holds(prompts, req.prompt)
        /\ prompts' = Touch(prompts, req.prompt) /\ cond' = req.prompt
     \/ /\ CachesPrompt /\ ~Holds(prompts, req.prompt)
        /\ prompts' = Insert(prompts, [key |-> req.prompt, model |-> ctx],
                             MaxPromptEntries)
        /\ cond' = req.prompt
     \/ /\ ~CachesPrompt \/ ~Holds(prompts, req.prompt)
        /\ UNCHANGED <<prompts, cond>>
  /\ phase' = "conditioning"
  /\ Continue("refCache")
  /\ UNCHANGED <<op, noise, modelVars, upscaler, latents, disk, req, lats, idx,
                 image, result, usesResult, heapVars>>

RefCache ==
  /\ pc = "refCache"
  /\ Continue(IF req.useLatents /\ req.refs # <<>> THEN "lookup" ELSE "run")
  /\ UNCHANGED <<op, phase, noise, stateVars, disk, locals, heapVars>>

\* The latent cache, first pass: is reference image idx cached under its key?
LookupRef ==
  /\ pc = "lookup" /\ idx <= Len(req.refs)
  /\ LET key == LatentKey(req.refs[idx]) IN
       IF Holds(latents, key)
       THEN /\ lats' = Append(lats, Lookup(latents, key).obj)
            /\ latents' = Touch(latents, key)
       ELSE /\ lats' = Append(lats, Null)
            /\ UNCHANGED latents
  /\ idx' = idx + 1
  /\ UNCHANGED <<pc, protocolVars, callback, modelVars, upscaler, prompts, disk,
                 req, cond, image, result, usesResult, heapVars>>

AllCached == \A k \in 1 .. Len(lats) : lats[k] # Null

LookupDone ==
  /\ pc = "lookup" /\ idx > Len(req.refs)
  /\ phase' = IF \E k \in 1 .. Len(lats) : lats[k] # Null THEN "encoding" ELSE phase
  /\ Continue(IF AllCached THEN "run" ELSE "encode")
  /\ idx' = 1
  /\ UNCHANGED <<op, noise, stateVars, disk, req, cond, lats, image, result,
                 usesResult, heapVars>>

\* The file is looked at again for the key, the least recently used entry makes
\* room, and the new latent goes to the cache, which owns it, and to the slot.
StoreLatent(id) ==
  /\ latents' = Insert(latents, [key |-> LatentKey(req.refs[idx]), obj |-> id,
                                 model |-> ctx, ver |-> pixels[idx], tiled |-> tiling],
                       MaxLatentEntries)
  /\ lats' = [lats EXCEPT ![idx] = id]

\* The second pass: the images missing from the cache are encoded from the
\* buffers loaded before.  Tiled encoding reports progress.
EncodeRef ==
  /\ pc = "encode" /\ idx <= Len(req.refs)
  /\ \/ /\ lats[idx] # Null
        /\ UNCHANGED <<phase, noise, latents, lats>>
     \/ /\ lats[idx] = Null /\ ~decodeOnly
        /\ IF tiling THEN LibraryProgress /\ phase' = "encoding"
                     ELSE UNCHANGED <<phase, noise>>
        /\ \/ \E id \in Latents \ (LiveLatents \cup {lats[k] : k \in 1 .. Len(lats)}) :
                StoreLatent(id)
           \/ UNCHANGED <<latents, lats>>      \* sd_encode_ref_image fails
  /\ idx' = idx + 1
  /\ UNCHANGED <<pc, op, reply, callback, modelVars, upscaler, prompts, disk,
                 req, cond, image, result, usesResult, heapVars>>

EncodeDone ==
  /\ pc = "encode" /\ idx > Len(req.refs)
  /\ Continue("run")
  /\ idx' = 1
  /\ UNCHANGED <<op, phase, noise, stateVars, disk, req, cond, lats, image,
                 result, usesResult, heapVars>>

HaveCachedLatents == lats # <<>> /\ AllCached

\* The library ends the process: parsing the prompt throws (module Prompt), the
\* VAE fails or asserts because it was loaded for decoding only, or a generation
\* reads what a failure has left null or an earlier one freed (Generation).
LibraryDies ==
  /\ \/ pc = "prompt" /\ CachesPrompt /\ ~Holds(prompts, req.prompt)
     \/ pc = "encode" /\ idx <= Len(req.refs) /\ lats[idx] = Null
     \/ pc = "run"
  /\ pc' = "crashed"
  /\ UNCHANGED <<protocolVars, callback, stateVars, disk, locals, heapVars>>

\* Are the objects that the generation is given alive?
PointersValid ==
  /\ cond # Null => Holds(prompts, cond)
  /\ HaveCachedLatents => \A k \in 1 .. Len(lats) : lats[k] \in LiveLatents

\* generate_image and its variants: the request's tiling becomes the context's,
\* latents are used if all are there, sampling reports progress.
Run ==
  /\ pc = "run"
  /\ ~decodeOnly \/ req.refs = <<>> \/ HaveCachedLatents
  /\ tiling' = req.tiled
  /\ LibraryProgress
  /\ pixels' = <<>>
  /\ memoryError' = (memoryError \/ ~PointersValid)
  /\ \/ /\ bufs' = {0, 1} /\ result' = 1 /\ image' = 1 /\ usesResult' = TRUE
        /\ phase' = IF req.repeats > 0 THEN "upscaling" ELSE "saving"
        /\ Continue("upscaleResult")
        /\ UNCHANGED <<req, cond, lats, idx>>
     \/ /\ phase' \in {phase, "sampling"}
        /\ Return("error")
        /\ UNCHANGED bufs
  /\ UNCHANGED <<op, ctx, decodeOnly, upscaler, prompts, latents, disk, temp>>

\* Bug the runs must notice: results[0] keeps pointing to the freed buffer.
ResultKept == usesResult' = FALSE /\ UNCHANGED result

\* After final_image is freed, results[0].data is cleared if it was the same.
ResultCleared ==
  /\ result' = IF usesResult THEN Null ELSE result
  /\ usesResult' = FALSE

\* One upscale() of final_image; pass idx yields buffer idx + 1.
UpscaleResult ==
  /\ pc = "upscaleResult" /\ idx <= req.repeats
  /\ \/ /\ Free(<<image, 0>>)
        /\ Return("error")
        /\ UNCHANGED noise
     \/ /\ LibraryProgress
        /\ memoryError' = (memoryError \/ image \notin bufs)
        /\ bufs' = (bufs \ {image}) \cup {idx + 1}
        /\ ResultCleared
        /\ image' = idx + 1 /\ idx' = idx + 1
        /\ UNCHANGED <<pc, reply, callback, req, cond, lats>>
  /\ phase' = "upscaling"
  /\ UNCHANGED <<op, stateVars, disk, pixels, temp>>

\* The image is written, then final_image, results[0] and results are freed.
SaveResult ==
  /\ pc = "upscaleResult" /\ idx > req.repeats
  /\ Free(<<image, IF usesResult THEN Null ELSE result, 0>>)
  /\ Return("result") \/ Return("error")
  /\ UNCHANGED <<op, phase, noise, stateVars, disk, pixels, temp>>

-----------------------------------------------------------------------------
(* The reference image files, edited by other programs *)

EditRef(p) ==
  /\ pc = "idle" \/ RacingEdits
  /\ pc \notin {"exited", "crashed"}
  /\ \/ /\ disk[p].ver < MaxVersion
        /\ disk' = [disk EXCEPT ![p] = [ver |-> @.ver + 1, exists |-> TRUE]]
     \/ /\ disk[p].exists
        /\ disk' = [disk EXCEPT ![p].exists = FALSE]
  /\ UNCHANGED <<pc, protocolVars, callback, stateVars, locals, heapVars>>

Terminated ==
  /\ pc \in {"exited", "crashed"}
  /\ UNCHANGED vars

Handle ==
  \/ HandleSimple \/ HandleUnload \/ HandleQuit \/ Shutdown \/ JsonTypeError
  \/ LoadStart \/ LoadModel \/ LoadUpscaler
  \/ UpscaleStart \/ UpscaleUpscaler \/ UpscaleInput \/ UpscalePass \/ UpscaleSave
  \/ GenerateStart \/ GenerateParams \/ LoadRef \/ OutputDir \/ Condition
  \/ RefCache \/ LookupRef \/ LookupDone \/ EncodeRef \/ EncodeDone
  \/ LibraryDies \/ Run \/ UpscaleResult \/ SaveResult

Next ==
  \/ ReadLine \/ CloseStdin
  \/ Handle
  \/ \E p \in Paths : EditRef(p)
  \/ Terminated

Spec == Init /\ [][Next]_vars

\* The main thread runs while it has a command to serve.  Nothing obliges the
\* parent to write or close, nor anyone to edit a file.
FairSpec == Spec /\ WF_vars(Handle)
=============================================================================
