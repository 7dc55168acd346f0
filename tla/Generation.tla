----------------------------- MODULE Generation -----------------------------
(***************************************************************************)
(* The library under the engine and the command line tool (condenser.cpp,  *)
(* upscaler.cpp): one call at a time goes through the models it needs.     *)
(* Each model is a GGMLRunner (ggml_extend.hpp), which moves its weights   *)
(* to the device and reserves a compute buffer when it computes, and gives *)
(* both back when it is told to.  Every allocation and every computation   *)
(* may fail.                                                               *)
(*                                                                         *)
(* Tensors are not modelled: a latent is the image it was encoded from,    *)
(* and the positional embeddings are the shapes they were computed for.    *)
(* ggml_gallocr_alloc_graph does not fail: the graph it is given is the    *)
(* one the buffer was reserved for.                                        *)
(***************************************************************************)
EXTENDS Integers, Sequences, FiniteSets

CONSTANTS
  Images,    \* reference images
  SizeOf,    \* their sizes
  Shapes,    \* sizes of the output and of the text, as the positions see them
  Requests,  \* the calls a client makes
  MaxTiles,  \* tiles of one tiled operation
  NoLatent,  \* a missing or empty sd_latent_t
  NoImage    \* no image to fall back to

Runners == {"llm", "flux", "vae", "esrgan"}

\* A source of a reference latent: a latent given by the caller, an image
Sources == [latent : Images \cup {NoLatent}, image : Images \cup {NoImage}]

Request ==
  [kind : {"image", "condition", "latent", "upscale"},
   given : BOOLEAN,          \* a condition computed before
   sources : Seq(Sources),
   shape : Shapes,
   steps : Nat,              \* evaluations of the diffusion model
   tiled : BOOLEAN]          \* vae_tiling_params.enabled

ASSUME GenerationAssumption ==
  /\ MaxTiles \in Nat \ {0} /\ Requests \subseteq Request
  /\ NoLatent \notin Images /\ NoImage \notin Images
  /\ DOMAIN SizeOf = Images

VARIABLES
  pc,
  setup,    \* what the context was created with
  used,     \* an earlier call has asked the context for an image
  weights,  \* params_buffer of each runner: alive or freed
  placed,   \* params_on_runtime_backend
  compute,  \* compute_allocr is not null
  tiling,   \* vae_tiling_params.enabled, kept in the context
  pe,       \* cached_pe_*, pe_vec
  call,     \* the call being served
  source,   \* the reference image it is at
  latents,  \* ref_latents
  left,     \* passes of the current stage that are still to be made
  work,     \* work_ctx: none, its memory its own, or in pinned_buf
  pinned,   \* pinned_buf is not null
  enc,      \* enc_ctx is not null
  flawed,   \* what has gone wrong in the call
  result    \* what the last call returned

runnerVars == <<weights, placed, compute>>
memoryVars == <<work, pinned, enc>>
callVars == <<call, source, latents, left, flawed, result>>
vars == <<pc, setup, used, runnerVars, tiling, pe, callVars, memoryVars>>

NoCall == [kind |-> "none"]
NoPositions == [key |-> <<>>, positions |-> <<>>]

\* The runners with params_backend # runtime_backend.  offload_params_to_cpu
\* moves what does not run on the CPU anyway, the diffusion model always; the
\* upscaler has a flag of its own.
Movers == {S \in SUBSET Runners : S \cap {"llm", "vae"} # {} => "flux" \in S}

Setups == [moves : Movers, decodeOnly : BOOLEAN, freeNow : BOOLEAN]

Init ==
  /\ pc = "closed" /\ setup = [moves |-> {}, decodeOnly |-> TRUE, freeNow |-> FALSE]
  /\ used = FALSE
  /\ weights = [r \in Runners |-> "freed"]
  /\ placed = [r \in Runners |-> FALSE] /\ compute = [r \in Runners |-> FALSE]
  /\ tiling = FALSE /\ pe = NoPositions
  /\ call = NoCall /\ source = 0 /\ latents = <<>> /\ left = 0
  /\ work = "none" /\ pinned = FALSE /\ enc = FALSE
  /\ flawed = {} /\ result = "none"

-----------------------------------------------------------------------------
(* GGMLRunner *)

\* The runner a stage computes with
RunnerOf == [encode |-> "vae", decode |-> "vae", condition |-> "llm",
             sample |-> "flux", upscale |-> "esrgan"]

\* Bug the runs must notice: the compute buffer goes, the weights stay.
FreeBufferOnly(r) ==
  /\ compute' = [compute EXCEPT ![r] = FALSE]
  /\ UNCHANGED placed

FreeCompute(r) ==
  /\ compute' = [compute EXCEPT ![r] = FALSE]
  /\ placed' = [placed EXCEPT ![r] = FALSE]

\* No room for the weights on the device
OffloadFails(r) ==
  /\ r \in setup.moves /\ ~placed[r]
  /\ UNCHANGED <<placed, compute>>

\* alloc_compute_buffer fails, and frees what it has, the moved weights included
ReserveFails(r) == ~compute[r] /\ FreeCompute(r)

Ran(r) ==
  /\ compute' = [compute EXCEPT ![r] = TRUE]
  /\ placed' = [placed EXCEPT ![r] = r \in setup.moves]

\* The computation fails: buffer and weights stay where they are.
RunFails(r) == Ran(r)

Fails(r) == OffloadFails(r) \/ ReserveFails(r) \/ RunFails(r)

-----------------------------------------------------------------------------
(* Contexts and the beginning and the end of a call *)

NewContext ==
  /\ pc = "closed"
  /\ setup' \in Setups
  /\ weights' = [r \in Runners |-> "alive"]
  /\ pc' = "idle" /\ used' = FALSE /\ tiling' = FALSE /\ pe' = NoPositions /\ result' = "none"
  /\ UNCHANGED <<placed, compute, call, source, latents, left, flawed, memoryVars>>

FreeContext ==
  /\ pc = "idle"
  /\ weights' = [r \in Runners |-> "freed"]
  /\ placed' = [r \in Runners |-> FALSE] /\ compute' = [r \in Runners |-> FALSE]
  /\ pc' = "closed"
  /\ UNCHANGED <<setup, used, tiling, pe, callVars, memoryVars>>

\* A call comes in, also to a context whose weights a generation has freed.
\* Each generate_image variant first stores the tiling.
Call(c) ==
  /\ pc = "idle"
  /\ call' = c /\ flawed' = {} /\ result' = "none"
  /\ tiling' = IF c.kind = "image" THEN c.tiled ELSE tiling
  /\ pc' = "begin"
  /\ UNCHANGED <<setup, used, runnerVars, pe, source, latents, left, memoryVars>>

Stage(c) ==
  CASE c.kind = "image" -> "refs"
    [] c.kind = "condition" -> "condition"
    [] c.kind = "latent" -> "encode"
    [] c.kind = "upscale" -> "upscale"

\* ggml_free(work_ctx), then the pinned buffer
FreeMemory == work' = "none" /\ pinned' = FALSE /\ enc' = FALSE

Return(what) ==
  /\ result' = what /\ pc' = "idle" /\ used' = (used \/ call.kind = "image")
  /\ call' = NoCall /\ source' = 0 /\ latents' = <<>> /\ left' = 0
  /\ FreeMemory

\* The passes of an operation of the VAE or the upscaler: one, or as many as
\* there are tiles.  None when sd_tiling gets no memory and leaves a blank.
Passes(tiles) == IF tiles THEN 0 .. MaxTiles ELSE {1}

FirstPasses ==
  CASE call.kind = "latent" -> Passes(tiling)
    [] call.kind = "upscale" -> Passes(TRUE)
    [] OTHER -> {0}

\* The working memory: inside pinned memory if the backend has some, which the
\* upscaler does not ask for.
Begin ==
  /\ pc = "begin"
  /\ pinned' \in IF call.kind = "upscale" THEN {FALSE} ELSE BOOLEAN
  /\ work' = IF pinned' THEN "pinned" ELSE "own"
  /\ pc' = Stage(call) /\ source' = 1
  /\ left' \in FirstPasses
  /\ flawed' = IF call.kind \in {"latent", "upscale"} /\ left' = 0 THEN {"blank"} ELSE {}
  /\ UNCHANGED <<setup, used, runnerVars, tiling, pe, enc, call, latents, result>>

\* Without working memory a call returns null.
NoMemory ==
  /\ pc = "begin"
  /\ Return("null")
  /\ UNCHANGED <<setup, runnerVars, tiling, pe, flawed>>

Die ==
  /\ pc' = "dead"
  /\ UNCHANGED <<setup, used, weights, tiling, pe, callVars, memoryVars>>

\* A stage reads weights that are freed: it goes on with what that memory holds,
\* as every stage may, or the process dies.
ReadFreed ==
  /\ pc \in DOMAIN RunnerOf /\ weights[RunnerOf[pc]] = "freed"
  /\ pc = "condition" \/ left > 0
  /\ Die /\ UNCHANGED <<placed, compute>>

-----------------------------------------------------------------------------
(* Reference latents *)

\* Bug the runs must notice: the last reference is left out.
AllButTheLast == source < Len(call.sources)

MoreSources == source <= Len(call.sources)

Source == call.sources[source]

\* A latent given by the caller is taken as it is.
TakeLatent ==
  /\ pc = "refs" /\ MoreSources /\ Source.latent # NoLatent
  /\ latents' = Append(latents, Source.latent) /\ source' = source + 1
  /\ UNCHANGED <<pc, setup, used, runnerVars, tiling, pe, call, left, flawed, result, memoryVars>>

\* The image is encoded, in memory of its own.
EncodeSource ==
  /\ pc = "refs" /\ MoreSources /\ Source.latent = NoLatent
  /\ Source.image # NoImage
  /\ enc' = TRUE /\ pc' = "encode"
  /\ left' \in Passes(tiling)
  /\ flawed' = IF left' = 0 THEN flawed \cup {"blank"} ELSE flawed
  /\ UNCHANGED <<setup, used, runnerVars, tiling, pe, call, source, latents, result, work, pinned>>

\* Bug the runs must notice: a dropped reference is tried for ever.
StayAtSource == source' = source

NextSource == source' = source + 1

\* Without memory for the image, or without an image, there is one reference
\* less, and the call goes on.
DropSource ==
  /\ pc = "refs" /\ MoreSources /\ Source.latent = NoLatent
  /\ flawed' = flawed \cup {"dropped"} /\ NextSource
  /\ UNCHANGED <<pc, setup, used, runnerVars, tiling, pe, call, latents, left, result, memoryVars>>

\* One compute of the VAE, which asserts that it may encode.  A failure is not
\* looked at: the tile keeps what it had, and without tiling the result stays
\* null, which process_latent_in reads.
EncodePass ==
  /\ pc = "encode" /\ left > 0
  /\ \/ /\ ~setup.decodeOnly
        /\ \/ Ran("vae") /\ UNCHANGED flawed
           \/ Fails("vae") /\ tiling /\ flawed' = flawed \cup {"encode"}
        /\ left' = left - 1
        /\ UNCHANGED <<pc, setup, used, weights, tiling, pe, call, source, latents, result, memoryVars>>
     \/ setup.decodeOnly /\ Die /\ UNCHANGED <<placed, compute>>
     \/ ~setup.decodeOnly /\ ~tiling /\ Fails("vae") /\ Die

EncodeDone ==
  /\ pc = "encode" /\ left = 0
  /\ FreeCompute("vae")
  /\ \/ /\ call.kind = "image"
        /\ latents' = Append(latents, Source.image) /\ source' = source + 1
        /\ enc' = FALSE /\ pc' = "refs"
        /\ UNCHANGED <<used, call, left, result, work, pinned>>
     \/ call.kind = "latent" /\ Return("latent")
  /\ UNCHANGED <<setup, weights, tiling, pe, flawed>>

EncodedAll ==
  /\ pc = "refs" /\ ~MoreSources
  /\ IF call.given THEN pc' = "sample" /\ left' = call.steps
                   ELSE pc' = "condition" /\ UNCHANGED left
  /\ UNCHANGED <<setup, used, runnerVars, tiling, pe, call, source, latents, flawed, result, memoryVars>>

-----------------------------------------------------------------------------
(* Condition, sampling, decoding *)

\* Bug the runs must notice: the first model used takes all with it.
FreeAllParams(r) ==
  weights' = IF setup.freeNow /\ call.kind = "image"
               THEN [s \in Runners |-> "freed"] ELSE weights

\* With free_params_immediately a generation frees each model after its use.
FreeParams(r) ==
  weights' = IF setup.freeNow /\ call.kind = "image"
               THEN [weights EXCEPT ![r] = "freed"] ELSE weights

\* The text encoder frees its compute buffer itself.  Its failure is not looked
\* at either, and the missing result is read.  Before it, the prompt is parsed,
\* which may throw (module Prompt), and nothing catches that.
Condition ==
  /\ pc = "condition"
  /\ \/ /\ FreeCompute("llm") /\ FreeParams("llm")
        /\ \/ /\ call.kind = "image" /\ pc' = "sample" /\ left' = call.steps
              /\ UNCHANGED <<used, call, source, latents, result, memoryVars>>
           \/ call.kind = "condition" /\ Return("condition")
        /\ UNCHANGED <<setup, tiling, pe, flawed>>
     \/ Fails("llm") /\ Die
     \/ Die /\ UNCHANGED <<placed, compute>>

Sizes(images) == [k \in DOMAIN images |-> SizeOf[images[k]]]

\* Bug the runs must notice: a key without the number of references.
KeyOfShape(shape, images) == <<shape>>

PositionKey(shape, images) == <<shape, Len(images)>>

\* build_graph: the embeddings of the last request are kept if the key is the
\* same.
Positions ==
  pe' = IF pe.key = PositionKey(call.shape, latents) THEN pe
        ELSE [key |-> PositionKey(call.shape, latents),
              positions |-> <<call.shape, Sizes(latents)>>]

\* One evaluation of the diffusion model
SamplePass ==
  /\ pc = "sample" /\ left > 0
  /\ Ran("flux") /\ Positions /\ left' = left - 1
  /\ UNCHANGED <<pc, setup, used, weights, tiling, call, source, latents, flawed, result, memoryVars>>

\* Bug the runs must notice: the failing exit forgets the compute buffer.
KeepCompute(r) == Ran(r)

\* sample() frees the compute buffer itself when an evaluation has failed.
AfterFailure(r) == FreeCompute(r)

SampleFails ==
  /\ pc = "sample" /\ left > 0
  /\ AfterFailure("flux")
  /\ \/ Positions
     \/ "flux" \in setup.moves /\ ~placed["flux"] /\ UNCHANGED pe
  /\ FreeParams("flux") /\ Return("null")
  /\ UNCHANGED <<setup, tiling, flawed>>

SampleDone ==
  /\ pc = "sample" /\ left = 0
  /\ FreeCompute("flux") /\ FreeParams("flux")
  /\ pc' = "decode"
  /\ left' \in Passes(tiling)
  /\ flawed' = IF left' = 0 THEN flawed \cup {"blank"} ELSE flawed
  /\ UNCHANGED <<setup, used, tiling, pe, call, source, latents, result, memoryVars>>

\* Bug the runs must notice: the tile after one that failed is skipped.
SkipTile == left' = left - 2

\* on_processing has no result: after a tile that failed comes the next.
AfterFailedTile == left' = left - 1

\* The result exists before the VAE computes, and a failure leaves it as it is.
DecodePass ==
  /\ pc = "decode" /\ left > 0
  /\ \/ Ran("vae") /\ left' = left - 1 /\ UNCHANGED flawed
     \/ Fails("vae") /\ AfterFailedTile /\ flawed' = flawed \cup {"decode"}
  /\ UNCHANGED <<pc, setup, used, weights, tiling, pe, call, source, latents, result, memoryVars>>

DecodeDone ==
  /\ pc = "decode" /\ left = 0
  /\ FreeCompute("vae") /\ FreeParams("vae")
  /\ \E what \in {"image", "null"} : Return(what)
  /\ UNCHANGED <<setup, tiling, pe, flawed>>

-----------------------------------------------------------------------------
(* Upscaling *)

UpscalePass ==
  /\ pc = "upscale" /\ left > 0
  /\ \/ Ran("esrgan") /\ UNCHANGED flawed
     \/ Fails("esrgan") /\ flawed' = flawed \cup {"upscale"}
  /\ left' = left - 1
  /\ UNCHANGED <<pc, setup, used, weights, tiling, pe, call, source, latents, result, memoryVars>>

UpscaleDone ==
  /\ pc = "upscale" /\ left = 0
  /\ FreeCompute("esrgan") /\ Return("upscaled")
  /\ UNCHANGED <<setup, weights, tiling, pe, flawed>>

-----------------------------------------------------------------------------
Serve ==
  \/ Begin \/ NoMemory \/ ReadFreed
  \/ TakeLatent \/ EncodeSource \/ DropSource \/ EncodePass \/ EncodeDone \/ EncodedAll
  \/ Condition \/ SamplePass \/ SampleFails \/ SampleDone \/ DecodePass \/ DecodeDone
  \/ UpscalePass \/ UpscaleDone

Next ==
  \/ NewContext \/ FreeContext
  \/ \E c \in Requests : Call(c)
  \/ Serve

Spec == Init /\ [][Next]_vars

\* A call runs on its caller's thread; clients need not call.
FairSpec == Spec /\ WF_vars(Serve)

-----------------------------------------------------------------------------
(* Properties *)

\* Every variable keeps its type.
TypeOK ==
  /\ pc \in {"closed", "idle", "begin", "refs", "encode", "condition", "sample",
             "decode", "upscale", "dead"}
  /\ setup \in Setups /\ used \in BOOLEAN
  /\ weights \in [Runners -> {"alive", "freed"}]
  /\ placed \in [Runners -> BOOLEAN] /\ compute \in [Runners -> BOOLEAN]
  /\ tiling \in BOOLEAN
  /\ call \in Requests \cup {NoCall}
  /\ source \in Nat /\ latents \in Seq(Images) /\ left \in Nat
  /\ work \in {"none", "own", "pinned"} /\ pinned \in BOOLEAN /\ enc \in BOOLEAN
  /\ flawed \subseteq {"blank", "dropped", "encode", "decode", "upscale"}
  /\ result \in {"none", "null", "image", "condition", "latent", "upscaled"}

\* Whatever fails, only the model of the current stage has offloaded weights or
\* a compute buffer on the device: with offload_params_to_cpu the peak is the
\* largest component, never a sum of two.
OneModelOnDevice ==
  \A r \in Runners : placed[r] \/ compute[r] =>
    pc = "dead" \/ (pc \in DOMAIN RunnerOf /\ RunnerOf[pc] = r)

\* Between calls nothing of a call is left: no memory of its own and no compute
\* buffer, and offloaded weights are back, on each way out of a call.
NothingLeft ==
  pc \in {"idle", "closed"} =>
    /\ work = "none" /\ ~pinned /\ ~enc
    /\ \A r \in Runners : ~placed[r] /\ ~compute[r]

\* The weights a stage computes with are alive, on a context that has generated
\* nothing yet even with free_params_immediately: a generation frees each model
\* after its last use, and never the upscaler, which is not the context's.
WeightsAlive ==
  pc \in DOMAIN RunnerOf /\ (pc = "upscale" \/ ~(setup.freeNow /\ used)) =>
    weights[RunnerOf[pc]] = "alive"

\* A context can generate again (tools/engine/main.cpp: "The engine is designed
\* for repeated generation with the same loaded context"), which free_sd_ctx
\* ends and nothing else: no stage ever computes with freed weights.
GeneratesAgain == pc \in DOMAIN RunnerOf => weights[RunnerOf[pc]] = "alive"

Wanted(s) == IF s.latent # NoLatent THEN s.latent ELSE s.image

\* The images are those of some of the first n sources, in their order.
Chosen(images, sources, n) ==
  \E at \in [DOMAIN images -> 1 .. n] :
    /\ \A k \in DOMAIN images : images[k] = Wanted(sources[at[k]])
    /\ \A j, k \in DOMAIN images : j < k => at[j] < at[k]

\* Latents given, encoded, and encoded in place of unusable ones reach the
\* diffusion model in the order of the request, each source once, and all of
\* them unless one was dropped.
ReferencesInOrder ==
  pc \in {"condition", "sample", "decode"} /\ call.kind = "image" =>
    /\ Chosen(latents, call.sources, Len(call.sources))
    /\ "dropped" \in flawed \/ Len(latents) = Len(call.sources)

\* The diffusion model computes with the positions of this request's shapes.
PositionsCurrent ==
  pc = "sample" /\ left < call.steps =>
    pe.positions = <<call.shape, Sizes(latents)>>

\* An image that is returned has been decoded.
ImageIsDecoded == result = "image" => "decode" \notin flawed

\* A call returns, or the process dies.
Returns == pc = "begin" ~> pc \in {"idle", "dead"}
=============================================================================
