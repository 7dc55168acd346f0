-------------------------- MODULE GenerationProofs --------------------------
(***************************************************************************)
(* Proofs about Generation: the device holds one model at a time, a call   *)
(* leaves nothing behind, and references reach the model in order, for any *)
(* requests, tiles, images and shapes.                                     *)
(***************************************************************************)
EXTENDS Generation, TLAPS

-----------------------------------------------------------------------------
(* The inductive invariant *)

Serving == pc \notin {"closed", "idle", "dead"}

\* Which calls can be at which stage
Kinds ==
  /\ pc \in {"closed", "idle", "begin"} => latents = <<>>
  /\ Serving => call \in Requests
  /\ pc \in {"refs", "sample", "decode"} => call.kind = "image"
  /\ pc = "encode" => call.kind \in {"image", "latent"}
  /\ pc = "condition" => call.kind \in {"image", "condition"}
  /\ pc = "upscale" => call.kind = "upscale"

\* The weights that are still alive
Alive ==
  /\ pc # "closed" => weights["esrgan"] = "alive"
  /\ pc # "closed" /\ ~setup.freeNow => \A r \in Runners : weights[r] = "alive"
  /\ pc \in {"idle", "begin", "refs", "encode", "condition", "upscale"} /\ ~used =>
       \A r \in Runners : weights[r] = "alive"
  /\ pc = "sample" /\ ~used => weights["flux"] = "alive" /\ weights["vae"] = "alive"
  /\ pc = "decode" /\ ~used => weights["vae"] = "alive"

\* The latents so far are those of the sources so far.
Gathered ==
  pc \in {"refs", "encode"} /\ call.kind = "image" =>
    /\ source \in 1 .. Len(call.sources) + 1
    /\ pc = "encode" =>
         MoreSources /\ Source.latent = NoLatent /\ Source.image # NoImage
    /\ Chosen(latents, call.sources, source - 1)
    /\ "dropped" \in flawed \/ Len(latents) = source - 1

\* Cached positions are those of some request with the cached key.
PositionsMatchKey ==
  \/ pe = NoPositions
  \/ \E shape \in Shapes, images \in Seq(Images) :
       /\ pe.key = PositionKey(shape, images)
       /\ pe.positions = <<shape, Sizes(images)>>

Inv ==
  /\ TypeOK
  /\ Kinds
  /\ Alive
  /\ OneModelOnDevice
  /\ NothingLeft
  /\ Gathered
  /\ ReferencesInOrder
  /\ PositionsMatchKey

-----------------------------------------------------------------------------
(* Type correctness *)

\* What the assumption says of a request.
LEMMA RequestType ==
  ASSUME NEW c \in Requests
  PROVE  /\ c \in Request
         /\ c.kind \in {"image", "condition", "latent", "upscale"}
         /\ c.steps \in Nat /\ c.tiled \in BOOLEAN /\ c.shape \in Shapes
         /\ c.sources \in Seq(Sources) /\ c.given \in BOOLEAN
BY GenerationAssumption DEF Request

\* A source of a request.
LEMMA SourceType ==
  ASSUME call \in Requests, source \in 1 .. Len(call.sources)
  PROVE  /\ Source \in Sources
         /\ Source.latent \in Images \cup {NoLatent}
         /\ Source.image \in Images \cup {NoImage}
<1>1. call.sources \in Seq(Sources)
  BY RequestType
<1>2. Source \in Sources
  BY <1>1 DEF Source
<1>. QED
  BY <1>2 DEF Sources

\* The number of passes of an operation.
LEMMA PassesType == \A t \in BOOLEAN : Passes(t) \subseteq Nat
BY GenerationAssumption DEF Passes

\* What computing and freeing do to the runners' types.
LEMMA RunnerTypes ==
  ASSUME TypeOK, NEW r \in Runners, Ran(r) \/ Fails(r) \/ FreeCompute(r)
  PROVE  placed' \in [Runners -> BOOLEAN] /\ compute' \in [Runners -> BOOLEAN]
<1>1. (r \in setup.moves) \in BOOLEAN
  OBVIOUS
<1>2. CASE Ran(r)
  BY <1>1, <1>2 DEF TypeOK, Ran
<1>3. CASE FreeCompute(r)
  BY <1>3 DEF TypeOK, FreeCompute
<1>4. CASE UNCHANGED <<placed, compute>>
  BY <1>4 DEF TypeOK
<1>. QED
  BY <1>2, <1>3, <1>4 DEF Fails, OffloadFails, ReserveFails, RunFails

LEMMA WeightTypes ==
  ASSUME TypeOK, NEW r \in Runners, FreeParams(r)
  PROVE  weights' \in [Runners -> {"alive", "freed"}]
BY DEF TypeOK, FreeParams

\* A return leaves the variables of the call at their values between calls.
LEMMA ReturnTypes ==
  ASSUME NEW what \in {"null", "image", "condition", "latent", "upscaled"}, Return(what)
  PROVE  /\ used' = (used \/ call.kind = "image")
         /\ pc' = "idle" /\ result' = what /\ call' = NoCall /\ source' \in Nat
         /\ latents' = <<>> /\ latents' \in Seq(Images) /\ left' \in Nat
         /\ work' = "none" /\ pinned' = FALSE /\ enc' = FALSE
BY DEF Return, FreeMemory

\* Every variable keeps its type in a step.
LEMMA TypeStep ==
  ASSUME TypeOK, Kinds, Gathered, Next
  PROVE  TypeOK'
<1>. USE DEF runnerVars, memoryVars, callVars
<1>1. CASE NewContext
  BY <1>1 DEF NewContext, TypeOK
<1>2. CASE FreeContext
  BY <1>2 DEF FreeContext, TypeOK
<1>3. ASSUME NEW c \in Requests, Call(c) PROVE TypeOK'
  BY <1>3, RequestType DEF Call, TypeOK
<1>4. CASE Begin
  <2>1. call \in Requests
    BY <1>4 DEF Begin, Kinds, Serving
  <2>2. pc' \in {"refs", "condition", "encode", "upscale"}
    BY <1>4, <2>1, RequestType DEF Begin, Stage
  <2>3. left' \in Nat
    <3>1. Passes(tiling) \subseteq Nat /\ Passes(TRUE) \subseteq Nat
      BY PassesType DEF TypeOK
    <3>2. FirstPasses \in {Passes(tiling), Passes(TRUE), {0}}
      BY DEF FirstPasses
    <3>3. FirstPasses \subseteq Nat
      <4>1. {0} \subseteq Nat
        OBVIOUS
      <4>. QED
        BY <3>1, <3>2, <4>1, Zenon
    <3>4. left' \in FirstPasses
      BY <1>4 DEF Begin
    <3>. QED
      BY <3>3, <3>4
  <2>4. /\ work' \in {"none", "own", "pinned"} /\ pinned' \in BOOLEAN
        /\ flawed' \subseteq {"blank", "dropped", "encode", "decode", "upscale"}
    BY <1>4 DEF Begin
  <2>. QED
    BY <1>4, <2>2, <2>3, <2>4 DEF Begin, TypeOK
<1>19. CASE NoMemory
  BY <1>19, ReturnTypes DEF NoMemory, TypeOK
<1>5. CASE TakeLatent
  <2>1. call \in Requests /\ source \in 1 .. Len(call.sources)
    BY <1>5 DEF TakeLatent, Kinds, Serving, Gathered, MoreSources
  <2>2. Source.latent \in Images
    BY <1>5, <2>1, SourceType DEF TakeLatent
  <2>. QED
    BY <1>5, <2>2 DEF TakeLatent, TypeOK
<1>6. CASE EncodeSource
  BY <1>6, PassesType DEF EncodeSource, TypeOK
<1>7. CASE DropSource
  BY <1>7 DEF DropSource, NextSource, TypeOK
<1>8. CASE EncodePass
  <2>1. placed' \in [Runners -> BOOLEAN] /\ compute' \in [Runners -> BOOLEAN]
    <3>1. CASE UNCHANGED <<placed, compute>>
      BY <3>1 DEF TypeOK
    <3>2. CASE Ran("vae") \/ Fails("vae")
      BY <3>2, RunnerTypes DEF Runners
    <3>. QED
      BY <1>8, <3>1, <3>2 DEF EncodePass
  <2>2. CASE Die
    BY <2>1, <2>2 DEF Die, TypeOK
  <2>3. CASE ~Die
    <3>1. left' \in Nat
      BY <1>8, <2>3 DEF EncodePass, TypeOK
    <3>2. flawed' \in {flawed, flawed \cup {"encode"}}
      BY <1>8, <2>3 DEF EncodePass
    <3>3. UNCHANGED <<pc, setup, used, weights, tiling, call, source, latents, result, work, pinned, enc>>
      BY <1>8, <2>3 DEF EncodePass
    <3>. QED
      BY <2>1, <3>1, <3>2, <3>3 DEF TypeOK
  <2>. QED
    BY <2>2, <2>3
<1>9. CASE EncodeDone
  <2>1. placed' \in [Runners -> BOOLEAN] /\ compute' \in [Runners -> BOOLEAN]
    BY <1>9, RunnerTypes DEF EncodeDone, Runners
  <2>2. CASE call.kind = "image"
    <3>1. call \in Requests /\ source \in 1 .. Len(call.sources) /\ Source.image # NoImage
      BY <1>9, <2>2 DEF EncodeDone, Kinds, Serving, Gathered, MoreSources
    <3>2. Source.image \in Images
      BY <3>1, SourceType
    <3>3. latents' \in Seq(Images) /\ source' \in Nat
      BY <1>9, <2>2, <3>1, <3>2 DEF EncodeDone, TypeOK
    <3>. QED
      BY <1>9, <2>1, <2>2, <3>3 DEF EncodeDone, TypeOK
  <2>3. CASE call.kind # "image"
    <3>1. Return("latent")
      BY <1>9, <2>3 DEF EncodeDone
    <3>. QED
      BY <1>9, <2>1, <3>1, ReturnTypes DEF EncodeDone, TypeOK
  <2>. QED
    BY <2>2, <2>3
<1>10. CASE EncodedAll
  <2>1. call \in Requests
    BY <1>10 DEF EncodedAll, Kinds, Serving
  <2>. QED
    BY <1>10, <2>1, RequestType DEF EncodedAll, TypeOK
<1>11. CASE Condition
  <2>. "llm" \in Runners
    BY DEF Runners
  <2>1. call \in Requests
    BY <1>11 DEF Condition, Kinds, Serving
  <2>2. placed' \in [Runners -> BOOLEAN] /\ compute' \in [Runners -> BOOLEAN]
    <3>1. CASE UNCHANGED <<placed, compute>>
      BY <3>1 DEF TypeOK
    <3>2. CASE FreeCompute("llm") \/ Fails("llm")
      BY <3>2, RunnerTypes
    <3>. QED
      BY <1>11, <3>1, <3>2 DEF Condition
  <2>3. CASE FreeParams("llm") /\ call.kind = "image" /\ pc' = "sample"
    BY <1>11, <2>1, <2>2, <2>3, WeightTypes, RequestType DEF Condition, Die, TypeOK
  <2>4. CASE FreeParams("llm") /\ Return("condition")
    BY <1>11, <2>2, <2>4, WeightTypes, ReturnTypes DEF Condition, Die, TypeOK
  <2>5. CASE Die
    BY <2>2, <2>5 DEF Die, TypeOK
  <2>. QED
    BY <1>11, <2>3, <2>4, <2>5 DEF Condition
<1>12. CASE SamplePass
  <2>1. placed' \in [Runners -> BOOLEAN] /\ compute' \in [Runners -> BOOLEAN]
    BY <1>12, RunnerTypes DEF SamplePass, Runners
  <2>. QED
    BY <1>12, <2>1 DEF SamplePass, TypeOK
<1>13. CASE SampleFails
  <2>1. placed' \in [Runners -> BOOLEAN] /\ compute' \in [Runners -> BOOLEAN]
    BY <1>13, RunnerTypes DEF SampleFails, AfterFailure, Runners
  <2>2. weights' \in [Runners -> {"alive", "freed"}]
    BY <1>13, WeightTypes DEF SampleFails, Runners
  <2>. QED
    BY <1>13, <2>1, <2>2, ReturnTypes DEF SampleFails, TypeOK
<1>14. CASE SampleDone
  <2>1. placed' \in [Runners -> BOOLEAN] /\ compute' \in [Runners -> BOOLEAN]
    BY <1>14, RunnerTypes DEF SampleDone, Runners
  <2>2. weights' \in [Runners -> {"alive", "freed"}]
    BY <1>14, WeightTypes DEF SampleDone, Runners
  <2>. QED
    BY <1>14, <2>1, <2>2, PassesType DEF SampleDone, TypeOK
<1>15. CASE DecodePass
  <2>1. placed' \in [Runners -> BOOLEAN] /\ compute' \in [Runners -> BOOLEAN]
    BY <1>15, RunnerTypes DEF DecodePass, Runners
  <2>2. left' \in Nat
    BY <1>15 DEF DecodePass, AfterFailedTile, TypeOK
  <2>3. flawed' \in {flawed, flawed \cup {"decode"}}
    BY <1>15 DEF DecodePass
  <2>. QED
    BY <1>15, <2>1, <2>2, <2>3 DEF DecodePass, TypeOK
<1>16. CASE DecodeDone
  <2>1. placed' \in [Runners -> BOOLEAN] /\ compute' \in [Runners -> BOOLEAN]
    BY <1>16, RunnerTypes DEF DecodeDone, Runners
  <2>2. weights' \in [Runners -> {"alive", "freed"}]
    BY <1>16, WeightTypes DEF DecodeDone, Runners
  <2>3. PICK what \in {"image", "null"} : Return(what)
    BY <1>16 DEF DecodeDone
  <2>. QED
    BY <1>16, <2>1, <2>2, <2>3, ReturnTypes DEF DecodeDone, TypeOK
<1>17. CASE UpscalePass
  <2>1. placed' \in [Runners -> BOOLEAN] /\ compute' \in [Runners -> BOOLEAN]
    BY <1>17, RunnerTypes DEF UpscalePass, Runners
  <2>2. left' \in Nat
    BY <1>17 DEF UpscalePass, TypeOK
  <2>3. flawed' \in {flawed, flawed \cup {"upscale"}}
    BY <1>17 DEF UpscalePass
  <2>. QED
    BY <1>17, <2>1, <2>2, <2>3 DEF UpscalePass, TypeOK
<1>18. CASE UpscaleDone
  <2>1. placed' \in [Runners -> BOOLEAN] /\ compute' \in [Runners -> BOOLEAN]
    BY <1>18, RunnerTypes DEF UpscaleDone, Runners
  <2>. QED
    BY <1>18, <2>1, ReturnTypes DEF UpscaleDone, TypeOK
<1>20. CASE ReadFreed
  BY <1>20 DEF ReadFreed, Die, TypeOK
<1>. QED
  BY <1>1, <1>2, <1>3, <1>4, <1>5, <1>6, <1>7, <1>8, <1>9, <1>10, <1>11, <1>12,
     <1>13, <1>14, <1>15, <1>16, <1>17, <1>18, <1>19, <1>20 DEF Next, Serve
-----------------------------------------------------------------------------
(* The stages of a call *)

LEMMA KindsStep ==
  ASSUME TypeOK, Kinds, Next
  PROVE  Kinds'
<1>. USE DEF runnerVars, memoryVars, callVars, Kinds, Serving
<1>1. CASE NewContext \/ FreeContext
  BY <1>1 DEF NewContext, FreeContext
<1>2. ASSUME NEW c \in Requests, Call(c) PROVE Kinds'
  BY <1>2 DEF Call
<1>3. CASE Begin
  <2>1. call \in Requests /\ UNCHANGED <<call, latents>> /\ pc = "begin"
    BY <1>3 DEF Begin
  <2>2. /\ call.kind = "image" => pc' = "refs"
        /\ call.kind = "condition" => pc' = "condition"
        /\ call.kind = "latent" => pc' = "encode"
        /\ call.kind = "upscale" => pc' = "upscale"
    BY <1>3 DEF Begin, Stage
  <2>3. call.kind \in {"image", "condition", "latent", "upscale"}
    BY <2>1, RequestType
  <2>. QED
    BY <1>3, <2>1, <2>2, <2>3
<1>4. CASE NoMemory
  BY <1>4, ReturnTypes DEF NoMemory
<1>5. CASE TakeLatent \/ EncodeSource \/ DropSource \/ EncodedAll
  BY <1>5 DEF TakeLatent, EncodeSource, DropSource, EncodedAll
<1>6. CASE EncodePass
  BY <1>6 DEF EncodePass, Die
<1>7. CASE EncodeDone
  BY <1>7, ReturnTypes DEF EncodeDone
<1>8. CASE Condition
  BY <1>8, ReturnTypes DEF Condition, Die
<1>9. CASE SamplePass \/ SampleDone
  BY <1>9 DEF SamplePass, SampleDone
<1>10. CASE SampleFails \/ UpscaleDone
  BY <1>10, ReturnTypes DEF SampleFails, UpscaleDone
<1>11. CASE DecodePass \/ UpscalePass
  BY <1>11 DEF DecodePass, UpscalePass
<1>12. CASE DecodeDone
  <2>1. PICK what \in {"image", "null"} : Return(what)
    BY <1>12 DEF DecodeDone
  <2>. QED
    BY <1>12, <2>1, ReturnTypes DEF DecodeDone
<1>13. CASE ReadFreed
  BY <1>13 DEF ReadFreed, Die
<1>. QED
  BY <1>1, <1>2, <1>3, <1>4, <1>5, <1>6, <1>7, <1>8, <1>9, <1>10, <1>11, <1>12, <1>13
  DEF Next, Serve

-----------------------------------------------------------------------------
(* Weights *)

\* Where weights are freed
LEMMA FreeParamsOnly ==
  ASSUME TypeOK, NEW r \in Runners, FreeParams(r)
  PROVE  /\ \A q \in Runners : q # r => weights'[q] = weights[q]
         /\ ~(setup.freeNow /\ call.kind = "image") => weights' = weights
BY DEF FreeParams, TypeOK

\* A model is freed after its last use in a generation.
LEMMA AliveStep ==
  ASSUME TypeOK, Kinds, Alive, Next
  PROVE  Alive'
<1>. USE DEF runnerVars, memoryVars, callVars, Alive
<1>. /\ "llm" \in Runners /\ "flux" \in Runners /\ "vae" \in Runners
     /\ "esrgan" \in Runners
  BY DEF Runners
<1>1. CASE NewContext \/ FreeContext
  BY <1>1 DEF NewContext, FreeContext
<1>2. ASSUME NEW c \in Requests, Call(c) PROVE Alive'
  BY <1>2 DEF Call
<1>3. CASE Begin
  <2>1. /\ pc = "begin" /\ UNCHANGED <<weights, setup, used, call>>
        /\ call \in Requests /\ pc' = Stage(call)
    BY <1>3 DEF Begin, Kinds, Serving
  <2>2. pc' \in {"refs", "condition", "encode"} \/ pc' = "upscale"
    BY <2>1, RequestType DEF Stage
  <2>. QED
    BY <2>1, <2>2
<1>4. CASE NoMemory
  BY <1>4, ReturnTypes DEF NoMemory
<1>5. CASE TakeLatent \/ EncodeSource \/ DropSource \/ EncodedAll
  BY <1>5 DEF TakeLatent, EncodeSource, DropSource, EncodedAll, Kinds
<1>6. CASE EncodePass
  BY <1>6 DEF EncodePass, Die
<1>7. CASE EncodeDone
  <2>1. pc = "encode" /\ UNCHANGED <<setup, weights>>
    BY <1>7 DEF EncodeDone
  <2>2. CASE pc' = "refs" /\ UNCHANGED used
    BY <2>1, <2>2
  <2>3. CASE call.kind = "latent" /\ Return("latent")
    <3>1. pc' = "idle" /\ used' = (used \/ call.kind = "image")
      BY <2>3, ReturnTypes
    <3>. QED
      BY <2>1, <2>3, <3>1
  <2>. QED
    BY <1>7, <2>2, <2>3 DEF EncodeDone
<1>8. CASE Condition
  <2>1. CASE Die
    <3>1. pc = "condition" /\ pc' = "dead" /\ UNCHANGED <<setup, weights>>
      BY <1>8, <2>1 DEF Condition, Die
    <3>. QED
      BY <3>1
  <2>2. CASE FreeParams("llm")
    <3>0. /\ pc = "condition" /\ UNCHANGED setup
          /\ \A q \in Runners : q # "llm" => weights'[q] = weights[q]
          /\ ~(setup.freeNow /\ call.kind = "image") => weights' = weights
      BY <1>8, <2>1, <2>2, FreeParamsOnly DEF Condition, Die
    <3>1. CASE Return("condition") /\ call.kind = "condition"
      <4>1. pc' = "idle" /\ used' = (used \/ call.kind = "image") /\ weights' = weights
        BY <3>0, <3>1, ReturnTypes
      <4>. QED
        BY <3>0, <3>1, <4>1
    <3>2. CASE pc' = "sample" /\ used' = used
      BY <3>0, <3>2
    <3>. QED
      BY <1>8, <2>1, <2>2, <3>1, <3>2 DEF Condition
  <2>. QED
    BY <1>8, <2>1, <2>2 DEF Condition
<1>9. CASE SamplePass
  BY <1>9 DEF SamplePass
<1>10. CASE SampleFails
  BY <1>10, FreeParamsOnly, ReturnTypes DEF SampleFails, Kinds, Serving
<1>11. CASE SampleDone
  BY <1>11, FreeParamsOnly DEF SampleDone, Kinds, Serving
<1>12. CASE DecodePass \/ UpscalePass
  BY <1>12 DEF DecodePass, UpscalePass
<1>13. CASE DecodeDone
  <2>1. PICK what \in {"image", "null"} : Return(what)
    BY <1>13 DEF DecodeDone
  <2>. QED
    BY <1>13, <2>1, FreeParamsOnly, ReturnTypes DEF DecodeDone, Kinds, Serving
<1>14. CASE UpscaleDone
  BY <1>14, ReturnTypes DEF UpscaleDone, Kinds
<1>15. CASE ReadFreed
  <2>1. pc # "closed" /\ pc' = "dead" /\ UNCHANGED <<setup, weights>>
    BY <1>15 DEF ReadFreed, Die, RunnerOf
  <2>. QED
    BY <2>1
<1>. QED
  BY <1>1, <1>2, <1>3, <1>4, <1>5, <1>6, <1>7, <1>8, <1>9, <1>10, <1>11, <1>12,
     <1>13, <1>14, <1>15 DEF Next, Serve

-----------------------------------------------------------------------------
(* The device *)

\* What a runner does leaves the others alone.
LEMMA OthersAlone ==
  ASSUME TypeOK, NEW r \in Runners, Ran(r) \/ Fails(r)
  PROVE  \A q \in Runners : q # r =>
           placed'[q] = placed[q] /\ compute'[q] = compute[q]
BY DEF TypeOK, Ran, Fails, FreeCompute, OffloadFails, ReserveFails, RunFails

\* After its stage has freed it, nothing is left on the device.
LEMMA StageFreed ==
  ASSUME TypeOK, OneModelOnDevice, pc \in DOMAIN RunnerOf, FreeCompute(RunnerOf[pc])
  PROVE  \A q \in Runners : ~placed'[q] /\ ~compute'[q]
BY DEF TypeOK, OneModelOnDevice, FreeCompute, RunnerOf, Runners

\* Before and between stages nothing is on the device.
LEMMA NoStage ==
  ASSUME OneModelOnDevice, pc # "dead", pc \notin DOMAIN RunnerOf
  PROVE  \A q \in Runners : ~placed[q] /\ ~compute[q]
BY DEF OneModelOnDevice

LEMMA DeviceStep ==
  ASSUME TypeOK, OneModelOnDevice, Next
  PROVE  OneModelOnDevice'
<1>. USE DEF runnerVars, memoryVars, callVars
<1>. DEFINE Empty == \A q \in Runners : ~placed[q] /\ ~compute[q]
<1>1. CASE Empty'
  BY <1>1 DEF OneModelOnDevice
<1>2. CASE pc' = "dead"
  BY <1>2 DEF OneModelOnDevice
<1>3. CASE /\ pc' = pc /\ pc \in DOMAIN RunnerOf
           /\ Ran(RunnerOf[pc]) \/ Fails(RunnerOf[pc])
  <2>1. RunnerOf[pc] \in Runners
    BY <1>3 DEF RunnerOf, Runners
  <2>. QED
    BY <1>3, <2>1, OthersAlone DEF OneModelOnDevice, RunnerOf
<1>4. CASE NewContext \/ FreeContext
  <2>1. Empty'
    BY <1>4, NoStage DEF NewContext, FreeContext, RunnerOf
  <2>. QED
    BY <1>1, <2>1
<1>5. CASE Begin \/ NoMemory \/ (\E c \in Requests : Call(c))
  <2>1. Empty'
    BY <1>5, NoStage DEF Begin, NoMemory, Call, RunnerOf
  <2>. QED
    BY <1>1, <2>1
<1>6. CASE TakeLatent \/ EncodeSource \/ DropSource \/ EncodedAll
  <2>1. Empty'
    BY <1>6, NoStage DEF TakeLatent, EncodeSource, DropSource, EncodedAll, RunnerOf
  <2>. QED
    BY <1>1, <2>1
<1>7. CASE EncodePass
  BY <1>2, <1>3, <1>7 DEF EncodePass, Die, RunnerOf
<1>8. CASE SamplePass \/ DecodePass \/ UpscalePass
  BY <1>3, <1>8 DEF SamplePass, DecodePass, UpscalePass, RunnerOf
<1>9. CASE EncodeDone \/ SampleDone \/ DecodeDone \/ UpscaleDone \/ SampleFails
  <2>1. Empty'
    BY <1>9, StageFreed
    DEF EncodeDone, SampleDone, DecodeDone, UpscaleDone, SampleFails, AfterFailure, RunnerOf
  <2>. QED
    BY <1>1, <2>1
<1>10. CASE Condition
  <2>1. CASE FreeCompute("llm")
    <3>1. Empty'
      BY <1>10, <2>1, StageFreed DEF Condition, RunnerOf
    <3>. QED
      BY <1>1, <3>1
  <2>. QED
    BY <1>2, <1>10, <2>1 DEF Condition, Die
<1>11. CASE ReadFreed
  BY <1>2, <1>11 DEF ReadFreed, Die
<1>. QED
  BY <1>4, <1>5, <1>6, <1>7, <1>8, <1>9, <1>10, <1>11 DEF Next, Serve

\* Every way out of a call gives its memory back.
LEMMA NothingLeftStep ==
  ASSUME TypeOK, Kinds, OneModelOnDevice, OneModelOnDevice', NothingLeft, Next
  PROVE  NothingLeft'
<1>. USE DEF runnerVars, memoryVars, callVars
<1>1. SUFFICES ASSUME pc' \in {"idle", "closed"}
               PROVE  work' = "none" /\ ~pinned' /\ ~enc'
  <2>1. pc' \in {"idle", "closed"} => \A q \in Runners : ~placed'[q] /\ ~compute'[q]
    BY DEF OneModelOnDevice, RunnerOf
  <2>. QED
    BY <1>1, <2>1 DEF NothingLeft
<1>2. CASE \E what \in {"null", "image", "condition", "latent", "upscaled"} : Return(what)
  BY <1>2, ReturnTypes
<1>3. CASE NewContext \/ FreeContext
  BY <1>3 DEF NewContext, FreeContext, NothingLeft
<1>4. ASSUME NEW c \in Requests, Call(c) PROVE FALSE
  BY <1>1, <1>4 DEF Call
<1>5. CASE Begin
  <2>1. pc' \in {"refs", "condition", "encode", "upscale"}
    BY <1>5, RequestType DEF Begin, Stage, Kinds, Serving
  <2>. QED
    BY <1>1, <2>1
<1>6. CASE TakeLatent \/ EncodeSource \/ DropSource \/ EncodedAll \/ EncodePass
  BY <1>1, <1>6 DEF TakeLatent, EncodeSource, DropSource, EncodedAll, EncodePass, Die
<1>7. CASE SamplePass \/ SampleDone \/ DecodePass \/ UpscalePass
  BY <1>1, <1>7 DEF SamplePass, SampleDone, DecodePass, UpscalePass
<1>8. CASE NoMemory \/ SampleFails \/ DecodeDone \/ UpscaleDone
  BY <1>2, <1>8 DEF NoMemory, SampleFails, DecodeDone, UpscaleDone
<1>9. CASE EncodeDone \/ Condition
  BY <1>1, <1>2, <1>9 DEF EncodeDone, Condition, Die
<1>10. CASE ReadFreed
  BY <1>1, <1>10 DEF ReadFreed, Die
<1>. QED
  BY <1>3, <1>4, <1>5, <1>6, <1>7, <1>8, <1>9, <1>10 DEF Next, Serve

-----------------------------------------------------------------------------
(* Reference latents *)

\* Before the first source there are none.
LEMMA ChosenNone == ASSUME NEW sources PROVE Chosen(<<>>, sources, 0)
<1>1. /\ <<>> \in [DOMAIN <<>> -> 1 .. 0]
      /\ \A k \in DOMAIN <<>> : <<>>[k] = Wanted(sources[<<>>[k]])
      /\ \A j, k \in DOMAIN <<>> : j < k => <<>>[j] < <<>>[k]
  OBVIOUS
<1>. QED
  BY <1>1 DEF Chosen

\* One more source, which is dropped.
LEMMA ChosenStay ==
  ASSUME NEW images, NEW sources, NEW n \in Nat, Chosen(images, sources, n)
  PROVE  Chosen(images, sources, n + 1)
<1>1. PICK at \in [DOMAIN images -> 1 .. n] :
        /\ \A k \in DOMAIN images : images[k] = Wanted(sources[at[k]])
        /\ \A j, k \in DOMAIN images : j < k => at[j] < at[k]
  BY DEF Chosen
<1>2. at \in [DOMAIN images -> 1 .. n + 1]
  OBVIOUS
<1>. QED
  BY <1>1, <1>2 DEF Chosen

\* One more source, which is taken.
LEMMA ChosenMore ==
  ASSUME NEW images \in Seq(Images), NEW sources, NEW n \in Nat, Chosen(images, sources, n),
         NEW more, more = Append(images, Wanted(sources[n + 1]))
  PROVE  Chosen(more, sources, n + 1)
<1>1. PICK at \in [DOMAIN images -> 1 .. n] :
        /\ \A k \in DOMAIN images : images[k] = Wanted(sources[at[k]])
        /\ \A j, k \in DOMAIN images : j < k => at[j] < at[k]
  BY DEF Chosen
<1>2. /\ DOMAIN images = 1 .. Len(images) /\ Len(images) \in Nat
      /\ DOMAIN more = 1 .. Len(images) + 1
      /\ \A k \in 1 .. Len(images) : more[k] = images[k]
      /\ more[Len(images) + 1] = Wanted(sources[n + 1])
  OBVIOUS
<1>. DEFINE longer == [k \in DOMAIN more |-> IF k <= Len(images) THEN at[k] ELSE n + 1]
<1>3. longer \in [DOMAIN more -> 1 .. n + 1]
  BY <1>2
<1>4. \A k \in DOMAIN more : more[k] = Wanted(sources[longer[k]])
  <2>. TAKE k \in DOMAIN more
  <2>1. CASE k <= Len(images)
    BY <1>1, <1>2, <2>1
  <2>2. CASE k = Len(images) + 1
    BY <1>2, <2>2
  <2>. QED
    BY <1>2, <2>1, <2>2
<1>5. \A j, k \in DOMAIN more : j < k => longer[j] < longer[k]
  <2>. TAKE j, k \in DOMAIN more
  <2>. HAVE j < k
  <2>1. j \in 1 .. Len(images) /\ longer[j] = at[j] /\ at[j] \in 1 .. n
    BY <1>2
  <2>2. CASE k <= Len(images)
    BY <1>1, <1>2, <2>1, <2>2
  <2>3. CASE k = Len(images) + 1
    BY <1>2, <2>1, <2>3
  <2>. QED
    BY <1>2, <2>2, <2>3
<1>. HIDE DEF longer
<1>. QED
  BY <1>3, <1>4, <1>5 DEF Chosen

\* The same, of the source a call is at.
LEMMA ChosenNext ==
  ASSUME NEW images \in Seq(Images), NEW sources, NEW n \in Nat \ {0},
         Chosen(images, sources, n - 1),
         NEW more, more = Append(images, Wanted(sources[n]))
  PROVE  Chosen(more, sources, n)
<1>1. n - 1 \in Nat /\ (n - 1) + 1 = n
  OBVIOUS
<1>2. more = Append(images, Wanted(sources[(n - 1) + 1]))
  BY <1>1
<1>3. Chosen(more, sources, (n - 1) + 1)
  BY <1>1, <1>2, ChosenMore
<1>. QED
  BY <1>1, <1>3

\* The latents gathered so far stay those of the sources so far.
LEMMA GatheredStep ==
  ASSUME TypeOK, Kinds, Gathered, Next
  PROVE  Gathered'
<1>. USE DEF runnerVars, memoryVars, callVars
<1>1. CASE ~(pc' \in {"refs", "encode"} /\ call'.kind = "image")
  BY <1>1 DEF Gathered
<1>2. CASE Begin
  <2>1. CASE call.kind = "image"
    <3>1. /\ pc' = "refs" /\ source' = 1 /\ latents' = <<>> /\ call' = call
          /\ call.sources \in Seq(Sources)
      BY <1>2, <2>1, RequestType DEF Begin, Stage, Kinds, Serving
    <3>2. Chosen(latents', call'.sources, source' - 1)
      BY <3>1, ChosenNone
    <3>. QED
      BY <3>1, <3>2 DEF Gathered
  <2>. QED
    BY <1>1, <1>2, <2>1 DEF Begin
<1>3. ASSUME Serving, pc # "begin", Serve PROVE Gathered'
  <2>. call \in Requests /\ call.sources \in Seq(Sources)
    BY <1>3, RequestType DEF Kinds
  <2>1. CASE TakeLatent
    <3>1. latents' = Append(latents, Wanted(call.sources[source]))
      BY <2>1 DEF TakeLatent, Wanted, Source
    <3>2. call.kind = "image" /\ source \in Nat \ {0} /\ latents \in Seq(Images)
      BY <2>1 DEF TakeLatent, Kinds, TypeOK, Gathered
    <3>3. Chosen(latents, call.sources, source - 1)
      BY <2>1, <3>2 DEF TakeLatent, Gathered
    <3>4. Chosen(latents', call.sources, source)
      BY <3>1, <3>2, <3>3, ChosenNext
    <3>. QED
      BY <2>1, <3>1, <3>2, <3>4 DEF TakeLatent, Gathered, MoreSources, TypeOK, Kinds
  <2>2. CASE EncodeSource
    BY <2>2 DEF EncodeSource, Gathered, MoreSources, Source, Kinds
  <2>3. CASE DropSource
    <3>1. call.kind = "image" /\ source \in Nat \ {0}
      BY <2>3 DEF DropSource, Kinds, TypeOK, Gathered
    <3>2. Chosen(latents, call.sources, source - 1)
      BY <2>3, <3>1 DEF DropSource, Gathered
    <3>3. Chosen(latents, call.sources, source)
      BY <3>1, <3>2, ChosenStay
    <3>. QED
      BY <2>3, <3>1, <3>3 DEF DropSource, NextSource, Gathered, MoreSources, TypeOK, Kinds
  <2>4. CASE EncodePass
    <3>1. CASE Die
      BY <1>1, <3>1 DEF Die
    <3>2. CASE ~Die
      BY <2>4, <3>2 DEF EncodePass, Gathered, MoreSources, Source
    <3>. QED
      BY <3>1, <3>2
  <2>5. CASE EncodeDone
    <3>1. CASE call.kind = "image"
      <4>1. latents' = Append(latents, Wanted(call.sources[source]))
        BY <2>5, <3>1 DEF EncodeDone, Gathered, Wanted, Source
      <4>2. source \in Nat \ {0} /\ latents \in Seq(Images) /\ Chosen(latents, call.sources, source - 1)
        BY <2>5, <3>1 DEF EncodeDone, TypeOK, Gathered
      <4>3. Chosen(latents', call.sources, source)
        BY <4>1, <4>2, ChosenNext
      <4>. QED
        BY <2>5, <3>1, <4>1, <4>2, <4>3 DEF EncodeDone, Gathered, MoreSources, TypeOK
    <3>. QED
      BY <1>1, <2>5, <3>1, ReturnTypes DEF EncodeDone
  <2>6. CASE NoMemory \/ Condition \/ EncodedAll \/ SampleFails \/ UpscaleDone
    BY <1>1, <2>6, ReturnTypes DEF NoMemory, Condition, EncodedAll, SampleFails, UpscaleDone, Die
  <2>7. CASE SamplePass \/ SampleDone \/ DecodePass \/ UpscalePass
    BY <1>1, <2>7 DEF SamplePass, SampleDone, DecodePass, UpscalePass
  <2>8. CASE DecodeDone
    BY <1>1, <2>8 DEF DecodeDone, Return
  <2>9. CASE Begin
    BY <1>3, <2>9 DEF Begin
  <2>10. CASE ReadFreed
    BY <1>1, <2>10 DEF ReadFreed, Die
  <2>. QED
    BY <1>3, <2>1, <2>2, <2>3, <2>4, <2>5, <2>6, <2>7, <2>8, <2>9, <2>10 DEF Serve
<1>4. CASE NewContext \/ FreeContext
  BY <1>1, <1>4 DEF NewContext, FreeContext
<1>5. ASSUME NEW c \in Requests, Call(c) PROVE Gathered'
  BY <1>1, <1>5 DEF Call
<1>6. CASE NoMemory
  BY <1>1, <1>6, ReturnTypes DEF NoMemory
<1>7. CASE Serve /\ ~Begin /\ ~NoMemory
  <2>1. Serving /\ pc # "begin"
    BY <1>7 DEF Serve, Serving, TakeLatent, EncodeSource, DropSource, EncodePass,
       EncodeDone, EncodedAll, Condition, SamplePass, SampleFails, SampleDone,
       DecodePass, DecodeDone, UpscalePass, UpscaleDone, ReadFreed, RunnerOf
  <2>. QED
    BY <1>3, <1>7, <2>1
<1>. QED
  BY <1>2, <1>4, <1>5, <1>6, <1>7 DEF Next

\* Once all sources have been looked at, the latents are those of the request,
\* and the stages after that leave them alone.
LEMMA OrderStep ==
  ASSUME TypeOK, Kinds, Gathered, ReferencesInOrder, Next
  PROVE  ReferencesInOrder'
<1>. USE DEF runnerVars, memoryVars, callVars
<1>1. CASE ~(pc' \in {"condition", "sample", "decode"} /\ call'.kind = "image")
  BY <1>1 DEF ReferencesInOrder
<1>2. CASE EncodedAll
  <2>1. call \in Requests /\ call.kind = "image" /\ pc = "refs"
    BY <1>2 DEF EncodedAll, Kinds, Serving
  <2>2. call.sources \in Seq(Sources) /\ latents \in Seq(Images)
    BY <2>1, RequestType DEF TypeOK
  <2>3. source - 1 = Len(call.sources)
    BY <1>2, <2>1, <2>2 DEF EncodedAll, Gathered, MoreSources
  <2>4. /\ Chosen(latents, call.sources, Len(call.sources))
        /\ "dropped" \in flawed \/ Len(latents) = Len(call.sources)
    BY <2>1, <2>3 DEF Gathered
  <2>. QED
    BY <1>2, <2>4 DEF EncodedAll, ReferencesInOrder
<1>3. CASE Begin
  BY <1>1, <1>3, RequestType DEF Begin, Stage, Kinds, Serving
<1>4. CASE NewContext \/ FreeContext
  BY <1>1, <1>4 DEF NewContext, FreeContext
<1>5. ASSUME NEW c \in Requests, Call(c) PROVE ReferencesInOrder'
  BY <1>1, <1>5 DEF Call
<1>6. CASE NoMemory \/ SampleFails \/ UpscaleDone
  BY <1>1, <1>6, ReturnTypes DEF NoMemory, SampleFails, UpscaleDone
<1>7. CASE TakeLatent \/ EncodeSource \/ DropSource \/ EncodePass \/ UpscalePass
  BY <1>1, <1>7 DEF TakeLatent, EncodeSource, DropSource, EncodePass, UpscalePass, Die
<1>8. CASE EncodeDone \/ DecodeDone
  BY <1>1, <1>8 DEF EncodeDone, DecodeDone, Return
<1>9. CASE Condition
  BY <1>1, <1>9, ReturnTypes DEF Condition, Die, ReferencesInOrder
<1>10. CASE SamplePass \/ SampleDone \/ DecodePass
  BY <1>10 DEF SamplePass, SampleDone, DecodePass, ReferencesInOrder
<1>11. CASE ReadFreed
  BY <1>1, <1>11 DEF ReadFreed, Die
<1>. QED
  BY <1>2, <1>3, <1>4, <1>5, <1>6, <1>7, <1>8, <1>9, <1>10, <1>11 DEF Next, Serve

-----------------------------------------------------------------------------
(* Positions *)

\* Positions are computed together with their key.
LEMMA KeyStep ==
  ASSUME TypeOK, Kinds, PositionsMatchKey, Next
  PROVE  PositionsMatchKey'
<1>. USE DEF runnerVars, memoryVars, callVars
<1>1. CASE UNCHANGED pe
  BY <1>1 DEF PositionsMatchKey
<1>2. CASE pe' = NoPositions
  BY <1>2 DEF PositionsMatchKey
<1>3. CASE Positions /\ pc = "sample"
  <2>1. call.shape \in Shapes /\ latents \in Seq(Images)
    BY <1>3, RequestType DEF TypeOK, Kinds, Serving
  <2>2. CASE /\ pe'.key = PositionKey(call.shape, latents)
             /\ pe'.positions = <<call.shape, Sizes(latents)>>
    BY <2>1, <2>2 DEF PositionsMatchKey
  <2>. QED
    BY <1>1, <1>3, <2>2 DEF Positions
<1>. QED
  BY <1>1, <1>2, <1>3
  DEF Next, Serve, NewContext, FreeContext, Call, Begin, NoMemory, TakeLatent,
      EncodeSource, DropSource, EncodePass, EncodeDone, EncodedAll, Condition,
      SamplePass, SampleFails, SampleDone, DecodePass, DecodeDone, UpscalePass,
      UpscaleDone, ReadFreed, Die

\* With references of one size, equal keys have equal positions.
LEMMA CurrentStep ==
  ASSUME \A i, j \in Images : SizeOf[i] = SizeOf[j],
         TypeOK, Kinds, PositionsMatchKey, PositionsCurrent, Next
  PROVE  PositionsCurrent'
<1>. USE DEF runnerVars, memoryVars, callVars
<1>1. CASE pc' # "sample"
  BY <1>1 DEF PositionsCurrent
<1>2. CASE left' = call'.steps /\ call \in Requests /\ call' = call
  BY <1>2, RequestType DEF PositionsCurrent
<1>3. CASE SamplePass
  <2>1. call.shape \in Shapes /\ latents \in Seq(Images)
    BY <1>3, RequestType DEF SamplePass, TypeOK, Kinds, Serving
  <2>2. CASE pe.key = PositionKey(call.shape, latents)
    <3>1. pe # NoPositions
      <4>1. Len(PositionKey(call.shape, latents)) = 2
        BY DEF PositionKey
      <4>2. Len(NoPositions.key) = 0
        BY DEF NoPositions
      <4>. QED
        BY <2>2, <4>1, <4>2
    <3>2. PICK shape \in Shapes, images \in Seq(Images) :
            /\ pe.key = PositionKey(shape, images)
            /\ pe.positions = <<shape, Sizes(images)>>
      BY <3>1 DEF PositionsMatchKey
    <3>3. shape = call.shape /\ Len(images) = Len(latents)
      BY <2>2, <3>2 DEF PositionKey
    <3>4. Sizes(images) = Sizes(latents)
      <4>1. DOMAIN images = DOMAIN latents
        BY <2>1, <3>3
      <4>2. \A k \in DOMAIN latents : images[k] \in Images /\ latents[k] \in Images
        BY <2>1, <4>1
      <4>. QED
        BY <4>1, <4>2 DEF Sizes
    <3>. QED
      BY <1>3, <2>2, <3>2, <3>3, <3>4 DEF SamplePass, Positions, PositionsCurrent
  <2>3. CASE pe.key # PositionKey(call.shape, latents)
    BY <1>3, <2>3 DEF SamplePass, Positions, PositionsCurrent
  <2>. QED
    BY <2>2, <2>3
<1>4. CASE EncodedAll \/ Condition
  BY <1>1, <1>2, <1>4 DEF EncodedAll, Condition, Die, Return, Kinds, Serving
<1>5. CASE Begin
  BY <1>1, <1>5, RequestType DEF Begin, Stage, Kinds, Serving
<1>6. ASSUME NEW c \in Requests, Call(c) PROVE PositionsCurrent'
  BY <1>1, <1>6 DEF Call
<1>. QED
  BY <1>1, <1>3, <1>4, <1>5, <1>6
  DEF Next, Serve, NewContext, FreeContext, NoMemory, TakeLatent, EncodeSource,
      DropSource, EncodePass, EncodeDone, SampleFails, SampleDone, DecodePass,
      DecodeDone, UpscalePass, UpscaleDone, ReadFreed, Die, Return

-----------------------------------------------------------------------------
(* Theorems *)

\* The invariant is inductive.
THEOREM Invariance == Spec => []Inv
<1>1. Init => Inv
  <2>. SUFFICES ASSUME Init PROVE Inv
    OBVIOUS
  <2>1. [moves |-> {}, decodeOnly |-> TRUE, freeNow |-> FALSE] \in Setups
    <3>1. {} \in Movers
      BY DEF Movers
    <3>. QED
      BY <3>1 DEF Setups
  <2>2. TypeOK
    <3>1. setup \in Setups /\ call \in Requests \cup {NoCall}
      BY <2>1 DEF Init
    <3>2. weights \in [Runners -> {"alive", "freed"}]
      BY DEF Init
    <3>3. placed \in [Runners -> BOOLEAN] /\ compute \in [Runners -> BOOLEAN]
      BY DEF Init
    <3>4. latents \in Seq(Images) /\ source \in Nat /\ left \in Nat
      BY DEF Init
    <3>5. flawed \subseteq {"blank", "dropped", "encode", "decode", "upscale"}
      BY DEF Init
    <3>6. /\ used \in BOOLEAN /\ tiling \in BOOLEAN /\ pinned \in BOOLEAN /\ enc \in BOOLEAN
          /\ pc = "closed" /\ work = "none" /\ result = "none"
      BY DEF Init
    <3>. QED
      BY <3>1, <3>2, <3>3, <3>4, <3>5, <3>6 DEF TypeOK
  <2>3. Kinds /\ Alive /\ Gathered /\ ReferencesInOrder /\ PositionsMatchKey
    BY DEF Init, Kinds, Serving, Alive, Gathered, ReferencesInOrder, PositionsMatchKey
  <2>4. OneModelOnDevice /\ NothingLeft
    BY DEF Init, OneModelOnDevice, NothingLeft
  <2>. QED
    BY <2>2, <2>3, <2>4 DEF Inv
<1>2. Inv /\ [Next]_vars => Inv'
  <2>1. ASSUME Inv, Next PROVE Inv'
    <3>1. TypeOK' /\ Kinds' /\ Alive' /\ OneModelOnDevice'
      BY <2>1, TypeStep, KindsStep, AliveStep, DeviceStep DEF Inv
    <3>2. NothingLeft' /\ Gathered' /\ ReferencesInOrder' /\ PositionsMatchKey'
      BY <2>1, <3>1, NothingLeftStep, GatheredStep, OrderStep, KeyStep DEF Inv
    <3>. QED
      BY <3>1, <3>2 DEF Inv
  <2>2. ASSUME Inv, UNCHANGED vars PROVE Inv'
    BY <2>2 DEF vars, runnerVars, callVars, memoryVars, Inv, TypeOK, Kinds, Serving,
       Alive, OneModelOnDevice, NothingLeft, Gathered, MoreSources, Source,
       ReferencesInOrder, PositionsMatchKey
  <2>. QED
    BY <2>1, <2>2
<1>. QED
  BY <1>1, <1>2, PTL DEF Spec

\* Every variable of a generation keeps its type.
THEOREM TypeCorrect == Spec => []TypeOK
BY Invariance, PTL DEF Inv

\* Weights and buffers of two models are never on the device together, however
\* a call fails.
THEOREM OneModel == Spec => []OneModelOnDevice
BY Invariance, PTL DEF Inv

\* A call that has returned, with whatever result, has left nothing behind.
THEOREM NothingStays == Spec => []NothingLeft
BY Invariance, PTL DEF Inv

\* A context that has not generated yet has the weights each stage computes with,
\* until after the stage, whether or not they are freed immediately then.
THEOREM WeightsStayAlive == Spec => []WeightsAlive
<1>1. Inv => WeightsAlive
  BY DEF Inv, Kinds, Alive, WeightsAlive, RunnerOf, Runners
<1>. QED
  BY <1>1, Invariance, PTL

\* The diffusion model gets the references of the request, in its order.
THEOREM ReferencesStayInOrder == Spec => []ReferencesInOrder
BY Invariance, PTL DEF Inv

\* With references of one size, the cached positions are those of the request.
THEOREM PositionsStayCurrent ==
  ASSUME \A i, j \in Images : SizeOf[i] = SizeOf[j]
  PROVE  Spec => []PositionsCurrent
<1>1. Init => PositionsCurrent
  BY DEF Init, PositionsCurrent
<1>2. Inv /\ PositionsCurrent /\ [Next]_vars => PositionsCurrent'
  <2>1. CASE UNCHANGED vars
    BY <2>1 DEF vars, callVars, PositionsCurrent
  <2>. QED
    BY <2>1, CurrentStep DEF Inv
<1>. QED
  BY <1>1, <1>2, Invariance, PTL DEF Spec

-----------------------------------------------------------------------------
(* Calls end *)

\* How far a call is.
StageOf(point) ==
  CASE point = "begin" -> 5
    [] point \in {"refs", "encode", "upscale"} -> 4
    [] point = "condition" -> 3
    [] point = "sample" -> 2
    [] point = "decode" -> 1
    [] OTHER -> 0

\* What is left of n from position s
Rest(n, s) == IF s <= n THEN n + 1 - s ELSE 0

\* Two steps for each reference that is not looked at yet, the second while it
\* is encoded.
Unseen == Rest(Len(call.sources), source)

Pending ==
  IF pc = "refs" THEN 2 * Unseen + 1
  ELSE IF pc = "encode" /\ call.kind = "image" THEN 2 * Unseen
  ELSE 0

\* A step takes a call to a later stage, to the next reference, or leaves it
\* fewer passes.
Closer ==
  \/ StageOf(pc') < StageOf(pc)
  \/ StageOf(pc') = StageOf(pc) /\ Pending' < Pending
  \/ pc' = pc /\ Pending' = Pending /\ left' < left

\* The parts of the measure are natural numbers.
LEMMA MeasureType ==
  ASSUME Inv, Serving
  PROVE  StageOf(pc) \in Nat /\ Unseen \in Nat /\ Pending \in Nat /\ left \in Nat
<1>1. source \in Nat /\ left \in Nat
  BY DEF Inv, TypeOK
<1>2. Len(call.sources) \in Nat
  BY RequestType DEF Inv, Kinds
<1>3. Unseen \in Nat
  BY <1>1, <1>2 DEF Unseen, Rest
<1>. QED
  BY <1>1, <1>3 DEF Pending, StageOf

\* Doubling keeps the order, and leaves room for one in between.
LEMMA Doubled ==
  ASSUME NEW a \in Nat, NEW b \in Nat, a < b
  PROVE  2 * a + 1 < 2 * b /\ 2 * a + 1 < 2 * b + 1
OBVIOUS

\* One position further, one less is left.
LEMMA RestDrops ==
  ASSUME NEW n \in Nat, NEW s \in Nat, s <= n
  PROVE  Rest(n, s) \in Nat /\ Rest(n, s + 1) \in Nat /\ Rest(n, s + 1) < Rest(n, s)
BY DEF Rest

\* The next reference leaves one fewer.
LEMMA SourceCloser ==
  ASSUME Inv, Serving, MoreSources, source' = source + 1, call' = call
  PROVE  Unseen \in Nat /\ Unseen' \in Nat /\ Unseen' < Unseen
<1>1. source \in Nat /\ Len(call.sources) \in Nat
  BY RequestType DEF Inv, TypeOK, Kinds
<1>2. Unseen = Rest(Len(call.sources), source)
  BY DEF Unseen
<1>3. Unseen' = Rest(Len(call.sources), source + 1)
  BY DEF Unseen
<1>4. source <= Len(call.sources)
  BY DEF MoreSources
<1>. QED
  BY <1>1, <1>2, <1>3, <1>4, RestDrops

\* A pass that leaves everything else in place.
LEMMA PassCloser ==
  ASSUME TypeOK, UNCHANGED <<pc, call, source>>, left' = left - 1
  PROVE  Closer
<1>1. left \in Nat /\ left' < left
  BY DEF TypeOK
<1>2. Pending' = Pending
  BY DEF Pending, Unseen
<1>. QED
  BY <1>1, <1>2 DEF Closer

\* Every step that serves a call brings its end closer, and one that leaves it
\* has set the result.
LEMMA ServeCloser ==
  ASSUME Inv, Serve
  PROVE  Closer /\ (pc' = "idle" => result' # "none")
<1>0. TypeOK /\ Kinds
  BY DEF Inv
<1>. USE DEF callVars, memoryVars
<1>1. CASE Begin
  <2>1. pc = "begin" /\ pc' \in {"refs", "condition", "encode", "upscale"}
    <3>1. call.kind \in {"image", "condition", "latent", "upscale"}
      BY <1>0, <1>1, RequestType DEF Begin, Kinds, Serving
    <3>. QED
      BY <1>1, <3>1 DEF Begin, Stage
  <2>. QED
    BY <2>1 DEF Closer, StageOf
<1>2. CASE NoMemory
  BY <1>2 DEF NoMemory, Return, Closer, StageOf
<1>3. CASE TakeLatent \/ DropSource
  <2>1. /\ pc = "refs" /\ pc' = "refs" /\ MoreSources /\ source' = source + 1
        /\ call' = call
    BY <1>3 DEF TakeLatent, DropSource, NextSource
  <2>2. Unseen \in Nat /\ Unseen' \in Nat /\ Unseen' < Unseen
    BY <2>1, SourceCloser DEF Serving
  <2>3. Pending' = 2 * Unseen' + 1 /\ Pending = 2 * Unseen + 1
    BY <2>1 DEF Pending
  <2>4. Pending' < Pending
    BY <2>2, <2>3, Doubled
  <2>. QED
    BY <2>1, <2>4 DEF Closer
<1>4. CASE EncodeSource
  <2>1. /\ pc = "refs" /\ pc' = "encode" /\ source' = source /\ call' = call
        /\ call.kind = "image"
    BY <1>0, <1>4 DEF EncodeSource, Kinds
  <2>2. Unseen' = Unseen /\ Unseen \in Nat
    BY <2>1, MeasureType DEF Unseen, Serving
  <2>3. Pending' = 2 * Unseen /\ Pending = 2 * Unseen + 1
    BY <2>1, <2>2 DEF Pending
  <2>. QED
    BY <2>1, <2>2, <2>3 DEF Closer, StageOf
<1>5. CASE EncodePass
  <2>1. CASE pc' = "dead"
    BY <1>5, <2>1 DEF EncodePass, Closer, StageOf
  <2>2. CASE pc' # "dead"
    <3>1. pc = "encode" /\ UNCHANGED <<pc, call, source>> /\ left' = left - 1
      BY <1>5, <2>2 DEF EncodePass, Die
    <3>. QED
      BY <1>0, <3>1, PassCloser
  <2>. QED
    BY <2>1, <2>2
<1>6. CASE EncodeDone
  <2>1. CASE call.kind = "latent"
    BY <1>6, <2>1 DEF EncodeDone, Return, Closer, StageOf
  <2>2. CASE call.kind = "image"
    <3>1. /\ pc = "encode" /\ pc' = "refs" /\ source' = source + 1 /\ call' = call
          /\ MoreSources
      BY <1>6, <2>2 DEF EncodeDone, Inv, Gathered
    <3>2. Unseen \in Nat /\ Unseen' \in Nat /\ Unseen' < Unseen
      BY <3>1, SourceCloser DEF Serving
    <3>3. Pending' = 2 * Unseen' + 1 /\ Pending = 2 * Unseen
      BY <2>2, <3>1 DEF Pending
    <3>. QED
      BY <3>1, <3>2, <3>3 DEF Closer, StageOf
  <2>. QED
    BY <1>6, <2>1, <2>2 DEF EncodeDone
<1>7. CASE EncodedAll
  BY <1>7 DEF EncodedAll, Closer, StageOf
<1>8. CASE Condition
  BY <1>8 DEF Condition, Die, Return, Closer, StageOf
<1>9. CASE SamplePass \/ DecodePass \/ UpscalePass
  <2>1. /\ pc \in {"sample", "decode", "upscale"} /\ UNCHANGED <<pc, call, source>>
        /\ left' = left - 1
    BY <1>9 DEF SamplePass, DecodePass, UpscalePass, AfterFailedTile
  <2>. QED
    BY <1>0, <2>1, PassCloser
<1>10. CASE SampleFails \/ DecodeDone \/ UpscaleDone
  BY <1>10 DEF SampleFails, DecodeDone, UpscaleDone, Return, Closer, StageOf
<1>11. CASE SampleDone
  BY <1>11 DEF SampleDone, Closer, StageOf
<1>12. CASE ReadFreed
  BY <1>12 DEF ReadFreed, RunnerOf, Die, Closer, StageOf
<1>. QED
  BY <1>1, <1>2, <1>3, <1>4, <1>5, <1>6, <1>7, <1>8, <1>9, <1>10, <1>11, <1>12 DEF Serve

\* Every call comes to an end, whatever fails in it: each step is in a later
\* stage, at the next reference, or leaves fewer tiles or evaluations to make,
\* and the exit it takes in the end has a result.  What is left for Returns is
\* that the caller's thread is scheduled.
THEOREM CallsEnd ==
  Spec => [][Serve => Closer /\ (pc' = "idle" => result' # "none")]_vars
<1>1. ASSUME Inv, [Next]_vars
      PROVE  [Serve => Closer /\ (pc' = "idle" => result' # "none")]_vars
  BY <1>1, ServeCloser
<1>. QED
  BY <1>1, Invariance, PTL DEF Spec
=============================================================================
