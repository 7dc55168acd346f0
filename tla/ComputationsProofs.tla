------------------------- MODULE ComputationsProofs -------------------------
(***************************************************************************)
(* Proofs about CommandLine: every image buffer has one owner from its     *)
(* allocation to its release, for any number of reference images and of    *)
(* upscaling passes.  And about MCComputations: what is proved of each     *)
(* computation alone holds of the instance that runs one of them.          *)
(***************************************************************************)
EXTENDS MCComputations, TilingProofs, SamplerProofs, RequestProofs, LoaderProofs

-----------------------------------------------------------------------------
(* The inductive invariant *)

Refs == {refImages[k] : k \in 1 .. Len(refImages)}

\* What is loaded from files: the buffers are alive and apart.
Loaded ==
  /\ init # Null => init \in heap
  /\ \A k \in 1 .. Len(refImages) :
       /\ refImages[k] \in heap /\ refImages[k] # init /\ refImages[k] # Null
       /\ \A j \in 1 .. Len(refImages) : j # k => refImages[j] # refImages[k]
  /\ refImages # <<>> => ~decodeOnly

Loading == {"arguments", "convert", "init", "refs", "results"}
Passing == {"upscaling", "upscaled"}

\* The image that is made or upscaled, once there is one
Image == IF cliPc \in Passing THEN current ELSE result

\* Before there is a result, only what was loaded is alive.
BeforeResult ==
  cliPc \in Loading =>
    /\ heap = Refs \cup ({init} \ {Null})
    /\ passes = 0 /\ saved = Null
    /\ cliPc \notin {"arguments", "convert"} => Complete
    /\ cliPc \notin {"refs", "results"} => refImages = <<>> /\ init = Null /\ made = 0
    /\ cliPc \in {"refs", "results"} => init = IF job.init THEN 1 ELSE Null

\* Afterwards the result is alive too, and apart from what was loaded.
WithResult ==
  cliPc \notin Loading \cup {"exited"} =>
    /\ heap = Refs \cup ({init, Image} \ {Null})
    /\ Image # Null /\ Image # init /\ Image \notin Refs
    /\ Image = IF job.mode = "upscale" /\ passes = 0 THEN 1 ELSE made
    /\ cliPc # "freeing" => saved = Null
    /\ cliPc = "freeing" => saved \in {Null, result}

\* The status of the process is there when it has exited.
Status == (cliPc = "exited") = (exit # -1)

CliInv ==
  /\ CliTypeOK
  /\ Status
  /\ ImagesHaveOneOwner
  /\ cliPc # "exited" => Loaded
  /\ BeforeResult
  /\ WithResult

-----------------------------------------------------------------------------
(* Freeing *)

\* Freeing buffers that are alive and apart, null pointers aside, frees each
\* of them and misuses none.
LEMMA FreeApart ==
  ASSUME NEW bs \in Seq(Nat), Free(bs), fault = FALSE,
         \A k \in 1 .. Len(bs) : bs[k] # Null =>
           bs[k] \in heap /\ \A j \in 1 .. Len(bs) : j < k => bs[j] # bs[k]
  PROVE  /\ fault' = FALSE /\ made' = made
         /\ heap' = heap \ ({bs[k] : k \in 1 .. Len(bs)} \ {Null})
  <1>1. \A k \in {k \in 1 .. Len(bs) : bs[k] # Null} :
          ~(Misused(bs[k]) \/ \E j \in {j \in 1 .. Len(bs) : bs[j] # Null} : j < k /\ bs[j] = bs[k])
    BY DEF Misused
  <1>2. {bs[k] : k \in {k \in 1 .. Len(bs) : bs[k] # Null}}
          = {bs[k] : k \in 1 .. Len(bs)} \ {Null}
    OBVIOUS
  <1> QED BY <1>1, <1>2 DEF Free

\* release_all_resources frees what was loaded.
LEMMA ReleasedApart ==
  ASSUME CliTypeOK, Loaded
  PROVE  /\ Released \in Seq(Nat)
         /\ {Released[k] : k \in 1 .. Len(Released)} = Refs \cup {init}
         /\ \A k \in 1 .. Len(Released) : Released[k] # Null =>
              Released[k] \in heap /\ \A j \in 1 .. Len(Released) : j < k => Released[j] # Released[k]
  <1>1. init \in Nat /\ refImages \in Seq(Nat)
    BY DEF CliTypeOK
  <1>2. /\ Released \in Seq(Nat) /\ Len(Released) = Len(refImages) + 1
        /\ Released[1] = init
        /\ \A k \in 2 .. Len(Released) : Released[k] = refImages[k - 1]
    BY <1>1 DEF Released
  <1>3. {Released[k] : k \in 1 .. Len(Released)} = Refs \cup {init}
    <2>1. ASSUME NEW b \in Refs PROVE \E k \in 1 .. Len(Released) : Released[k] = b
      <3>1. PICK k \in 1 .. Len(refImages) : refImages[k] = b BY <2>1 DEF Refs
      <3>2. Len(refImages) \in Nat BY <1>1
      <3>3. k + 1 \in 2 .. Len(Released) /\ (k + 1) - 1 = k BY <3>2, <1>2
      <3>4. Released[k + 1] = refImages[(k + 1) - 1] BY <3>3, <1>2
      <3>5. Released[k + 1] = b BY <3>1, <3>3, <3>4
      <3>6. k + 1 \in 1 .. Len(Released) BY <3>2, <3>3, <1>2
      <3> QED BY <3>5, <3>6
    <2>2. ASSUME NEW k \in 1 .. Len(Released) PROVE Released[k] \in Refs \cup {init}
      <3>1. k = 1 \/ k \in 2 .. Len(Released) BY <1>1, <1>2
      <3>2. k \in 2 .. Len(Released) => k - 1 \in 1 .. Len(refImages) BY <1>1, <1>2
      <3> QED BY <3>1, <3>2, <1>2 DEF Refs
    <2>3. 1 \in 1 .. Len(Released) BY <1>1, <1>2
    <2> QED BY <2>1, <2>2, <2>3, <1>2
  <1>4. ASSUME NEW k \in 1 .. Len(Released), Released[k] # Null
        PROVE  Released[k] \in heap
               /\ \A j \in 1 .. Len(Released) : j < k => Released[j] # Released[k]
    <2>1. CASE k = 1 BY <2>1, <1>1, <1>2, <1>4 DEF Loaded
    <2>2. CASE k \in 2 .. Len(Released)
      <3>1. k - 1 \in 1 .. Len(refImages) BY <2>2, <1>1, <1>2
      <3>2. ASSUME NEW j \in 1 .. Len(Released), j < k PROVE Released[j] # Released[k]
        <4>1. j = 1 \/ (j \in 2 .. Len(Released) /\ j - 1 \in 1 .. Len(refImages) /\ j - 1 # k - 1)
          BY <3>2, <1>1, <1>2
        <4> QED BY <4>1, <3>1, <2>2, <1>2 DEF Loaded
      <3> QED BY <3>1, <3>2, <2>2, <1>2 DEF Loaded
    <2> QED BY <2>1, <2>2, <1>1, <1>2
  <1> QED BY <1>2, <1>3, <1>4

-----------------------------------------------------------------------------
(* CliInvariance *)

LEMMA CliInitInv == CliInit => CliInv
  <1> SUFFICES ASSUME CliInit PROVE CliInv
    OBVIOUS
  <1> USE DEF CliInit, Null
  <1>1. CliTypeOK
    <2>1. refImages \in Seq(Nat) /\ heap \subseteq 1 .. made OBVIOUS
    <2>2. {init, result, current, saved, made, passes} \subseteq Nat OBVIOUS
    <2> QED BY <2>1, <2>2 DEF CliTypeOK
  <1>2. refImages = <<>> /\ Refs = {} BY DEF Refs
  <1>3. Status /\ ImagesHaveOneOwner BY DEF Status, ImagesHaveOneOwner, Aborted
  <1>4. Loaded BY <1>2 DEF Loaded
  <1>5. BeforeResult BY <1>2 DEF BeforeResult, Loading
  <1>6. WithResult BY DEF WithResult, Loading
  <1> QED BY <1>1, <1>3, <1>4, <1>5, <1>6 DEF CliInv

\* All that is left of CliInv when the process exits
LEMMA ExitKeeps ==
  ASSUME CliInv, NEW status \in {0, 1, Aborted}, Exit(status), CliTypeOK', job' = job,
         passes' = passes, saved' = saved, made' = made, fault' = FALSE,
         status = 0 => heap' = {}, status # 0 => saved = Null
  PROVE  CliInv'
  <1>1. cliPc' = "exited" /\ exit' = status BY DEF Exit
  <1>2. Status' BY <1>1 DEF Status, Aborted
  <1>3. ImagesHaveOneOwner' BY <1>1 DEF ImagesHaveOneOwner, CliInv, Aborted, Null
  <1>4. BeforeResult' /\ WithResult' BY <1>1 DEF BeforeResult, WithResult, Loading
  <1> QED BY <1>1, <1>2, <1>3, <1>4 DEF CliInv

\* Freeing leaves fewer buffers.
LEMMA FreeKeepsType ==
  ASSUME CliTypeOK, NEW bs, Free(bs)
  PROVE  heap' \subseteq 1 .. made' /\ made' = made
  BY DEF CliTypeOK, Free

\* A failure ends the process with all released that was loaded.
LEMMA ReleaseAndExit ==
  ASSUME CliInv, cliPc # "exited", saved = Null, Exit(1), Free(Released),
         UNCHANGED <<job, init, refImages, result, current, passes, saved>>,
         decodeOnly' \in BOOLEAN
  PROVE  CliInv'
  <1>1. CliTypeOK /\ Loaded /\ fault = FALSE BY DEF CliInv, ImagesHaveOneOwner, CliTypeOK
  <1>2. /\ Released \in Seq(Nat)
        /\ \A k \in 1 .. Len(Released) : Released[k] # Null =>
             Released[k] \in heap /\ \A j \in 1 .. Len(Released) : j < k => Released[j] # Released[k]
    BY <1>1, ReleasedApart
  <1>3. fault' = FALSE /\ made' = made BY <1>1, <1>2, FreeApart
  <1>4. heap' \subseteq 1 .. made' BY <1>1, FreeKeepsType
  <1>5. CliTypeOK' BY <1>1, <1>3, <1>4 DEF CliTypeOK, Exit
  <1>6. job' = job /\ passes' = passes /\ saved' = saved OBVIOUS
  <1>7. 1 \in {0, 1, Aborted} /\ 1 # 0 OBVIOUS
  <1> QED BY <1>3, <1>5, <1>6, <1>7, ExitKeeps

\* While things are loaded, CliInv is about them.
LEMMA LoadingKeeps ==
  ASSUME CliTypeOK', fault' = FALSE, cliPc' \in Loading, exit' = -1, saved' = Null, Loaded',
         BeforeResult'
  PROVE  CliInv'
  <1>1. Status' /\ ImagesHaveOneOwner' BY DEF Status, ImagesHaveOneOwner, Aborted, Loading
  <1>2. WithResult' BY DEF WithResult
  <1> QED BY <1>1, <1>2 DEF CliInv

\* With a result, it is about that as well.
LEMMA ResultKeeps ==
  ASSUME CliTypeOK', fault' = FALSE, cliPc' \notin Loading \cup {"exited"}, exit' = -1, Loaded',
         WithResult', saved' # Null => saved' = result' /\ cliPc' = "freeing"
  PROVE  CliInv'
  <1>1. Status' BY DEF Status
  <1>2. ImagesHaveOneOwner' BY DEF ImagesHaveOneOwner, Aborted, WithResult, Image, Passing
  <1>3. BeforeResult' BY DEF BeforeResult
  <1> QED BY <1>1, <1>2, <1>3 DEF CliInv

\* What CliInv says while the process runs
LEMMA Running ==
  ASSUME CliInv, cliPc # "exited"
  PROVE  /\ CliTypeOK /\ fault = FALSE /\ exit = -1 /\ Loaded
         /\ init \in Nat /\ refImages \in Seq(Nat) /\ Refs \subseteq Nat
         /\ made \in Nat /\ made + 1 \notin heap /\ heap \subseteq 1 .. made
         /\ result \in Nat /\ current \in Nat /\ passes \in Nat /\ saved \in Nat
  <1>1. CliTypeOK /\ ~fault /\ Loaded /\ Status BY DEF CliInv, ImagesHaveOneOwner
  <1>2. fault = FALSE BY <1>1 DEF CliTypeOK
  <1>3. exit = -1 BY <1>1 DEF Status
  <1>4. heap \subseteq 1 .. made /\ made \in Nat /\ init \in Nat /\ refImages \in Seq(Nat)
    BY <1>1 DEF CliTypeOK
  <1>5. result \in Nat /\ current \in Nat /\ passes \in Nat /\ saved \in Nat
    BY <1>1 DEF CliTypeOK
  <1>6. Refs \subseteq Nat BY <1>4 DEF Refs
  <1> QED BY <1>1, <1>2, <1>3, <1>4, <1>5, <1>6

LEMMA CliStepInv == CliInv /\ [CliNext]_cliVars => CliInv'
  <1> SUFFICES ASSUME CliInv, [CliNext]_cliVars PROVE CliInv'
    OBVIOUS
  <1> USE DEF Null
  <1>0. BeforeResult /\ WithResult
    BY DEF CliInv
  <1>1. CASE ParseArguments
    <2>0. /\ cliPc = "arguments" /\ heap = {} /\ saved = Null /\ refImages = <<>> /\ passes = 0
          /\ UNCHANGED <<job, init, refImages, decodeOnly, result, current, passes, heap, made, fault, saved>>
      BY <1>0, <1>1 DEF ParseArguments, BeforeResult, Loading, Refs, images, memory
    <2>1. CASE \E status \in {0, 1, Aborted} : Exit(status)
      <3>1. CliTypeOK' BY <2>0, <2>1, Running DEF CliTypeOK, Exit
      <3>2. fault' = FALSE BY <2>0, Running
      <3> QED BY <2>0, <2>1, <3>1, <3>2, ExitKeeps
    <2>2. CASE Complete /\ Goto(IF job.mode = "convert" THEN "convert" ELSE "init")
      <3>1. cliPc' \in {"convert", "init"} /\ exit' = exit /\ Complete' BY <2>0, <2>2 DEF Goto, Complete
      <3>2. CliTypeOK' BY <2>0, <3>1, Running DEF CliTypeOK
      <3>3. Loaded' BY <2>0, Running DEF Loaded
      <3>4. BeforeResult' BY <2>0, <3>1, <1>0 DEF BeforeResult, Loading, Refs
      <3> QED BY <2>0, <3>1, <3>2, <3>3, <3>4, Running, LoadingKeeps DEF Loading
    <2> QED BY <1>1, <2>1, <2>2 DEF ParseArguments
  <1>2. CASE Convert
    <2>0. /\ cliPc = "convert" /\ heap = {} /\ saved = Null
          /\ UNCHANGED <<job, init, refImages, decodeOnly, result, current, passes, heap, made, fault, saved>>
      BY <1>0, <1>2 DEF Convert, BeforeResult, Loading, Refs, images, memory
    <2>1. PICK status \in {0, 1} : Exit(status) BY <1>2 DEF Convert
    <2>2. CliTypeOK' BY <2>0, <2>1, Running DEF CliTypeOK, Exit
    <2> QED BY <2>0, <2>1, <2>2, Running, ExitKeeps
  <1>3. CASE LoadInit
    <2>0. /\ cliPc = "init" /\ heap = {} /\ saved = Null /\ refImages = <<>> /\ passes = 0
          /\ init = Null /\ made = 0 /\ Complete
          /\ UNCHANGED <<job, refImages, result, current, passes, saved>>
      BY <1>0, <1>3 DEF LoadInit, BeforeResult, Loading, Refs
    <2>1. CASE ~job.init
      <3>1. cliPc' = "refs" /\ exit' = exit /\ UNCHANGED <<init, decodeOnly, heap, made, fault>>
        BY <1>3, <2>1 DEF LoadInit, Goto, memory
      <3>2. CliTypeOK' BY <2>0, <3>1, Running DEF CliTypeOK
      <3>3. Loaded' BY <2>0, <3>1 DEF Loaded
      <3>4. BeforeResult' BY <2>0, <2>1, <3>1 DEF BeforeResult, Loading, Refs, Complete
      <3> QED BY <2>0, <3>1, <3>2, <3>3, <3>4, Running, LoadingKeeps DEF Loading
    <2>2. CASE job.init /\ Alloc /\ init' = made + 1 /\ Goto("refs") /\ decodeOnly' = FALSE
      <3>1. /\ cliPc' = "refs" /\ exit' = exit /\ init' = 1 /\ heap' = {1} /\ made' = 1
            /\ fault' = fault /\ decodeOnly' = FALSE
        BY <2>0, <2>2 DEF Alloc, Goto
      <3>2. CliTypeOK'
        <4>1. heap' \subseteq 1 .. made' /\ init' \in Nat /\ made' \in Nat BY <3>1
        <4> QED BY <2>0, <3>1, <4>1, Running DEF CliTypeOK
      <3>3. Loaded' BY <2>0, <3>1 DEF Loaded
      <3>4. BeforeResult' BY <2>0, <2>2, <3>1 DEF BeforeResult, Loading, Refs, Complete
      <3> QED BY <2>0, <3>1, <3>2, <3>3, <3>4, Running, LoadingKeeps DEF Loading
    <2>3. CASE LoadFailed /\ UNCHANGED init /\ decodeOnly' = FALSE
      BY <2>0, <2>3, ReleaseAndExit DEF LoadFailed
    <2> QED BY <1>3, <2>1, <2>2, <2>3 DEF LoadInit
  <1>4. CASE LoadRef
    <2>0. /\ cliPc = "refs" /\ saved = Null /\ passes = 0 /\ Complete
          /\ init = (IF job.init THEN 1 ELSE Null) /\ heap = Refs \cup ({init} \ {Null})
          /\ UNCHANGED <<job, init, result, current, passes, saved>>
      BY <1>0, <1>4 DEF LoadRef, BeforeResult, Loading
    <2>1. CASE Goto("results") /\ UNCHANGED <<refImages, decodeOnly, memory>>
      <3>1. cliPc' = "results" /\ exit' = exit /\ UNCHANGED <<refImages, decodeOnly, heap, made, fault>>
        BY <2>1 DEF Goto, memory
      <3>2. CliTypeOK' BY <2>0, <3>1, Running DEF CliTypeOK
      <3>3. Loaded' BY <2>0, <3>1, Running DEF Loaded
      <3>4. BeforeResult' BY <2>0, <3>1 DEF BeforeResult, Loading, Refs, Complete
      <3> QED BY <2>0, <3>1, <3>2, <3>3, <3>4, Running, LoadingKeeps DEF Loading
    <2>2. CASE Alloc /\ refImages' = Append(refImages, made + 1) /\ Goto("refs") /\ decodeOnly' = FALSE
      <3>1. /\ cliPc' = "refs" /\ exit' = exit /\ heap' = heap \cup {made + 1} /\ made' = made + 1
            /\ fault' = fault /\ decodeOnly' = FALSE
        BY <2>0, <2>2 DEF Alloc, Goto
      <3>2. /\ refImages' \in Seq(Nat) /\ Len(refImages') = Len(refImages) + 1
            /\ refImages'[Len(refImages) + 1] = made + 1
            /\ \A k \in 1 .. Len(refImages) : refImages'[k] = refImages[k]
        BY <2>0, <2>2, Running
      <3>3. CliTypeOK'
        <4>1. heap' \subseteq 1 .. made' /\ made' \in Nat BY <2>0, <3>1, Running
        <4> QED BY <2>0, <3>1, <3>2, <4>1, Running DEF CliTypeOK
      <3>4. Refs' = Refs \cup {made + 1}
        <4>1. Len(refImages) \in Nat BY <2>0, Running
        <4>2. 1 .. Len(refImages') = (1 .. Len(refImages)) \cup {Len(refImages) + 1} BY <3>2, <4>1
        <4> QED BY <3>2, <4>2 DEF Refs
      <3>5. Loaded'
        <4>1. \A k \in 1 .. Len(refImages') : k \in 1 .. Len(refImages) \/ k = Len(refImages) + 1
          BY <2>0, <3>2, Running
        <4>2. \A k \in 1 .. Len(refImages) : refImages[k] # made + 1 BY <2>0, Running DEF Loaded
        <4>3. init # made + 1 BY <2>0, Running DEF Loaded
        <4>4. init' # Null => init' \in heap' BY <2>0, <3>1, Running DEF Loaded
        <4>5. ASSUME NEW k \in 1 .. Len(refImages')
              PROVE  /\ refImages'[k] \in heap' /\ refImages'[k] # init' /\ refImages'[k] # Null
                     /\ \A j \in 1 .. Len(refImages') : j # k => refImages'[j] # refImages'[k]
          <5>1. Loaded BY <2>0, Running
          <5>2. CASE k \in 1 .. Len(refImages)
            <6>1. refImages'[k] = refImages[k] BY <5>2, <3>2
            <6>2. ASSUME NEW j \in 1 .. Len(refImages'), j # k PROVE refImages'[j] # refImages'[k]
              BY <5>1, <5>2, <6>1, <6>2, <4>1, <4>2, <3>2 DEF Loaded
            <6> QED BY <5>1, <5>2, <6>1, <6>2, <2>0, <3>1 DEF Loaded
          <5>3. CASE k = Len(refImages) + 1
            <6>1. refImages'[k] = made + 1 BY <5>3, <3>2
            <6>2. ASSUME NEW j \in 1 .. Len(refImages'), j # k PROVE refImages'[j] # refImages'[k]
              BY <5>3, <6>1, <6>2, <4>1, <4>2, <3>2
            <6>3. made + 1 # Null BY <2>0, Running
            <6> QED BY <6>1, <6>2, <6>3, <4>3, <2>0, <3>1
          <5> QED BY <4>1, <5>2, <5>3
        <4> QED BY <3>1, <4>4, <4>5 DEF Loaded
      <3>6. BeforeResult' BY <2>0, <3>1, <3>4 DEF BeforeResult, Loading, Complete
      <3> QED BY <2>0, <3>1, <3>3, <3>5, <3>6, Running, LoadingKeeps DEF Loading
    <2>3. CASE LoadFailed /\ UNCHANGED refImages /\ decodeOnly' = FALSE
      BY <2>0, <2>3, ReleaseAndExit DEF LoadFailed
    <2> QED BY <1>4, <2>1, <2>2, <2>3 DEF LoadRef
  <1>5. CASE UpscaleMode
    <2>0. /\ cliPc = "results" /\ saved = Null /\ passes = 0 /\ init = 1 /\ job.mode = "upscale"
          /\ heap = Refs \cup ({init} \ {Null})
          /\ UNCHANGED <<job, refImages, decodeOnly, current, passes, saved>>
      BY <1>0, <1>5 DEF UpscaleMode, BeforeResult, Loading, Complete
    <2>1. CASE TakeInit /\ Goto("upscaler") /\ UNCHANGED memory
      <3>1. /\ cliPc' = "upscaler" /\ exit' = exit /\ result' = 1 /\ init' = Null
            /\ UNCHANGED <<heap, made, fault>>
        BY <2>0, <2>1 DEF TakeInit, Goto, memory
      <3>2. CliTypeOK' BY <2>0, <3>1, Running DEF CliTypeOK
      <3>3. Loaded' BY <2>0, <3>1, Running DEF Loaded
      <3>4. 1 \notin Refs /\ Refs' = Refs BY <2>0, Running DEF Loaded, Refs
      <3>5. WithResult' BY <2>0, <3>1, <3>4 DEF WithResult, Loading, Passing, Image
      <3> QED BY <2>0, <3>1, <3>2, <3>3, <3>5, Running, ResultKeeps DEF Loading
    <2>2. CASE Exit(1) /\ Free(Released) /\ UNCHANGED <<init, result>>
      <3>1. decodeOnly' \in BOOLEAN BY <2>0, Running DEF CliTypeOK
      <3> QED BY <2>0, <2>2, <3>1, ReleaseAndExit
    <2> QED BY <1>5, <2>1, <2>2 DEF UpscaleMode
  <1>6. CASE Generate
    <2>0. /\ cliPc = "results" /\ saved = Null /\ passes = 0 /\ job.mode = "img_gen"
          /\ heap = Refs \cup ({init} \ {Null})
          /\ UNCHANGED <<job, init, refImages, decodeOnly, current, passes, saved>>
      BY <1>0, <1>6 DEF Generate, BeforeResult, Loading
    <2>1. CASE Exit(1) /\ Free(Released) /\ UNCHANGED result
      <3>1. decodeOnly' \in BOOLEAN BY <2>0, Running DEF CliTypeOK
      <3> QED BY <2>0, <2>1, <3>1, ReleaseAndExit
    <2>2. CASE \E status \in {1, Aborted} : Exit(status) /\ UNCHANGED <<result, memory>>
      <3>1. PICK status \in {1, Aborted} : Exit(status) /\ UNCHANGED <<result, heap, made, fault>>
        BY <2>2 DEF memory
      <3>2. CliTypeOK' BY <2>0, <3>1, Running DEF CliTypeOK, Exit
      <3>3. status \in {0, 1, Aborted} /\ status # 0 BY <3>1 DEF Aborted
      <3> QED BY <2>0, <3>1, <3>2, <3>3, Running, ExitKeeps
    <2>3. CASE /\ result' = made + 1 /\ made' = made + 1 /\ heap' = heap \cup {made + 1}
               /\ fault' = (fault \/ (decodeOnly /\ refImages # <<>>)
                                  \/ \E k \in 1 .. Len(refImages) : Misused(refImages[k]))
               /\ Goto("upscaler")
      <3>1. cliPc' = "upscaler" /\ exit' = exit BY <2>3 DEF Goto
      <3>2. fault' = FALSE BY <2>0, <2>3, Running DEF Loaded, Misused
      <3>3. CliTypeOK'
        <4>1. heap' \subseteq 1 .. made' /\ made' \in Nat /\ result' \in Nat BY <2>0, <2>3, Running
        <4> QED BY <2>0, <3>1, <3>2, <4>1, Running DEF CliTypeOK
      <3>4. Loaded' BY <2>0, <2>3, Running DEF Loaded
      <3>5. Refs' = Refs /\ made + 1 # Null /\ made + 1 # init /\ made + 1 \notin Refs
        BY <2>0, Running DEF Refs, Loaded
      <3>6. WithResult' BY <2>0, <2>3, <3>1, <3>5 DEF WithResult, Loading, Passing, Image
      <3> QED BY <2>0, <3>1, <3>2, <3>3, <3>4, <3>6, Running, ResultKeeps DEF Loading
    <2> QED BY <1>6, <2>1, <2>2, <2>3 DEF Generate
  <1>7. CASE NewUpscaler
    <2>0. /\ cliPc = "upscaler" /\ saved = Null
          /\ UNCHANGED <<job, init, refImages, decodeOnly, result, passes, heap, made, fault, saved>>
          /\ exit' = exit /\ current' \in {current, result}
          /\ cliPc' = "saving" \/ (cliPc' = "upscaling" /\ current' = result)
      BY <1>0, <1>7 DEF NewUpscaler, WithResult, Loading, memory, Goto
    <2>1. CliTypeOK' BY <2>0, Running DEF CliTypeOK
    <2>2. Loaded' BY <2>0, Running DEF Loaded
    <2>3. Refs' = Refs /\ Image' = Image BY <2>0 DEF Refs, Image, Passing
    <2>4. WithResult' BY <1>0, <2>0, <2>3 DEF WithResult, Loading
    <2> QED BY <2>0, <2>1, <2>2, <2>4, Running, ResultKeeps DEF Loading
  <1>8. CASE Upscale
    <2>0. /\ cliPc = "upscaling" /\ saved = Null /\ Image = current
          /\ heap = Refs \cup ({init, current} \ {Null})
          /\ current # Null /\ current # init /\ current \notin Refs
          /\ UNCHANGED <<job, init, refImages, decodeOnly, result, saved>>
      BY <1>0, <1>8 DEF Upscale, WithResult, Loading, Image, Passing
    <2>1. CASE /\ passes' = passes + 1 /\ current' = made + 1 /\ made' = made + 1
               /\ heap' = (heap \ {current}) \cup {made + 1}
               /\ fault' = (fault \/ Misused(current))
               /\ Goto("upscaling")
      <3>1. cliPc' = "upscaling" /\ exit' = exit BY <2>1 DEF Goto
      <3>2. fault' = FALSE BY <2>0, <2>1, Running DEF Misused
      <3>3. CliTypeOK'
        <4>1. heap' \subseteq 1 .. made' /\ made' \in Nat /\ current' \in Nat /\ passes' \in Nat
          BY <2>0, <2>1, Running
        <4> QED BY <2>0, <3>1, <3>2, <4>1, Running DEF CliTypeOK
      <3>4. Loaded'
        <4>1. Loaded /\ \A k \in 1 .. Len(refImages) : refImages[k] # current
          BY <2>0, Running DEF Refs
        <4> QED BY <2>0, <2>1, <4>1 DEF Loaded
      <3>5. Refs' = Refs /\ made + 1 # Null /\ made + 1 # init /\ made + 1 \notin Refs
        BY <2>0, Running DEF Refs, Loaded
      <3>6. heap' = Refs \cup ({init, made + 1} \ {Null}) BY <2>0, <2>1, <3>5
      <3>7. passes' # 0 BY <2>0, <2>1, Running
      <3>8. WithResult' BY <2>0, <2>1, <3>1, <3>5, <3>6, <3>7 DEF WithResult, Loading, Passing, Image
      <3> QED BY <2>0, <3>1, <3>2, <3>3, <3>4, <3>8, Running, ResultKeeps DEF Loading
    <2>2. CASE Goto("upscaled") /\ UNCHANGED <<passes, current, memory>>
      <3>1. cliPc' = "upscaled" /\ exit' = exit /\ UNCHANGED <<passes, current, heap, made, fault>>
        BY <2>2 DEF Goto, memory
      <3>2. CliTypeOK' BY <2>0, <3>1, Running DEF CliTypeOK
      <3>3. Loaded' BY <2>0, <3>1, Running DEF Loaded
      <3>4. Refs' = Refs /\ Image' = Image BY <2>0, <3>1 DEF Refs, Image, Passing
      <3>5. WithResult' BY <1>0, <2>0, <3>1, <3>4 DEF WithResult, Loading
      <3> QED BY <2>0, <3>1, <3>2, <3>3, <3>5, Running, ResultKeeps DEF Loading
    <2> QED BY <1>8, <2>1, <2>2 DEF Upscale
  <1>9. CASE Upscaled
    <2>0. /\ cliPc \in Passing /\ saved = Null /\ cliPc' = "saving" /\ exit' = exit /\ result' = current
          /\ UNCHANGED <<job, init, refImages, decodeOnly, current, passes, heap, made, fault, saved>>
      BY <1>0, <1>9 DEF Upscaled, TakeUpscaled, Goto, WithResult, Loading, Passing, memory
    <2>1. CliTypeOK' BY <2>0, Running DEF CliTypeOK, Passing
    <2>2. Loaded' BY <2>0, Running DEF Loaded, Passing
    <2>3. Refs' = Refs /\ Image' = Image BY <2>0 DEF Refs, Image, Passing
    <2>4. WithResult' BY <1>0, <2>0, <2>3 DEF WithResult, Loading, Passing
    <2> QED BY <2>0, <2>1, <2>2, <2>4, Running, ResultKeeps DEF Loading, Passing
  <1>10. CASE Save
    <2>0. /\ cliPc = "saving" /\ saved = Null /\ result \in heap
          /\ UNCHANGED <<job, init, refImages, result, current, decodeOnly, passes, heap, made>>
      BY <1>0, <1>10 DEF Save, WithResult, Loading, Image, Passing, images
    <2>1. CASE Exit(1) /\ UNCHANGED <<saved, fault>>
      <3>1. CliTypeOK' BY <2>0, <2>1, Running DEF CliTypeOK, Exit
      <3>2. fault' = FALSE /\ 1 \in {0, 1, Aborted} /\ 1 # 0 BY <2>0, <2>1, Running
      <3> QED BY <2>0, <2>1, <3>1, <3>2, ExitKeeps
    <2>2. CASE /\ \E ok \in BOOLEAN : saved' = IF ok THEN result ELSE Null
               /\ fault' = (fault \/ Misused(result)) /\ Goto("freeing")
      <3>1. cliPc' = "freeing" /\ exit' = exit /\ saved' \in {Null, result} BY <2>2 DEF Goto
      <3>2. fault' = FALSE BY <2>0, <2>2, Running DEF Misused
      <3>3. CliTypeOK' BY <2>0, <3>1, <3>2, Running DEF CliTypeOK
      <3>4. Loaded' BY <2>0, Running DEF Loaded
      <3>5. Refs' = Refs /\ Image' = Image BY <2>0, <3>1 DEF Refs, Image, Passing
      <3>6. WithResult' BY <1>0, <2>0, <3>1, <3>5 DEF WithResult, Loading
      <3> QED BY <2>0, <3>1, <3>2, <3>3, <3>4, <3>6, Running, ResultKeeps DEF Loading
    <2> QED BY <1>10, <2>1, <2>2 DEF Save
  <1>11. CASE FreeAll
    <2>0. /\ cliPc = "freeing" /\ exit = -1 /\ saved \in {Null, result} /\ Image = result
          /\ heap = Refs \cup ({init, result} \ {Null})
          /\ result # Null /\ result # init /\ result \notin Refs
          /\ Exit(0) /\ Free(<<result>> \o Released)
          /\ UNCHANGED <<job, init, refImages, result, current, decodeOnly, passes, saved>>
      BY <1>0, <1>11, Running DEF FreeAll, WithResult, Loading, Image, Passing, images
    <2> DEFINE bs == <<result>> \o Released
    <2>1. /\ Released \in Seq(Nat)
          /\ {Released[k] : k \in 1 .. Len(Released)} = Refs \cup {init}
          /\ \A k \in 1 .. Len(Released) : Released[k] # Null =>
               Released[k] \in heap /\ \A j \in 1 .. Len(Released) : j < k => Released[j] # Released[k]
      BY <2>0, Running, ReleasedApart
    <2>2. /\ bs \in Seq(Nat) /\ Len(bs) = Len(Released) + 1 /\ bs[1] = result
          /\ \A k \in 2 .. Len(bs) : bs[k] = Released[k - 1] /\ k - 1 \in 1 .. Len(Released)
      BY <2>0, <2>1, Running
    <2>3. \A k \in 1 .. Len(Released) : Released[k] # result BY <2>0, <2>1
    <2>4. ASSUME NEW k \in 1 .. Len(bs), bs[k] # Null
          PROVE  bs[k] \in heap /\ \A j \in 1 .. Len(bs) : j < k => bs[j] # bs[k]
      <3>1. CASE k = 1 BY <3>1, <2>0, <2>2
      <3>2. CASE k \in 2 .. Len(bs)
        <4>1. bs[k] = Released[k - 1] /\ k - 1 \in 1 .. Len(Released) BY <3>2, <2>2
        <4>2. ASSUME NEW j \in 1 .. Len(bs), j < k PROVE bs[j] # bs[k]
          <5>1. CASE j = 1 BY <5>1, <4>1, <2>2, <2>3
          <5>2. CASE j \in 2 .. Len(bs)
            <6>1. bs[j] = Released[j - 1] /\ j - 1 \in 1 .. Len(Released) /\ j - 1 < k - 1
              BY <5>2, <4>2, <3>2, <2>2
            <6> QED BY <6>1, <4>1, <2>1, <2>4
          <5> QED BY <5>1, <5>2, <2>1, <2>2
        <4> QED BY <4>1, <4>2, <2>1, <2>4
      <3> QED BY <3>1, <3>2, <2>1, <2>2
    <2>5. {bs[k] : k \in 1 .. Len(bs)} = Refs \cup {init, result}
      <3>1. ASSUME NEW b \in Refs \cup {init} PROVE \E k \in 1 .. Len(bs) : bs[k] = b
        <4>1. PICK k \in 1 .. Len(Released) : Released[k] = b BY <3>1, <2>1
        <4>2. Len(Released) \in Nat BY <2>1
        <4>3. k + 1 \in 2 .. Len(bs) /\ k + 1 \in 1 .. Len(bs) BY <4>1, <4>2, <2>2
        <4>4. bs[k + 1] = Released[k + 1 - 1] /\ k + 1 - 1 = k BY <4>2, <4>3, <2>2
        <4> QED BY <4>1, <4>3, <4>4
      <3>2. ASSUME NEW k \in 1 .. Len(bs) PROVE bs[k] \in Refs \cup {init, result}
        <4>1. k = 1 \/ k \in 2 .. Len(bs) BY <2>1, <2>2
        <4> QED BY <4>1, <2>1, <2>2
      <3>3. 1 \in 1 .. Len(bs) /\ bs[1] = result BY <2>1, <2>2
      <3> HIDE DEF bs
      <3>4. Refs \cup {init, result} \subseteq {bs[k] : k \in 1 .. Len(bs)} BY <3>1, <3>3
      <3> QED BY <3>2, <3>4
    <2>6. Free(bs) BY <2>0
    <2> HIDE DEF bs
    <2>7. fault = FALSE BY <2>0, Running
    <2>8. fault' = FALSE /\ made' = made /\ heap' = heap \ ({bs[k] : k \in 1 .. Len(bs)} \ {Null})
      BY <2>2, <2>4, <2>6, <2>7, FreeApart
    <2>9. heap' = {}
      <3>1. Null \notin Refs BY <2>0, Running DEF Refs, Loaded
      <3> QED BY <3>1, <2>0, <2>5, <2>8
    <2>10. CliTypeOK' BY <2>0, <2>8, <2>9, Running DEF CliTypeOK, Exit
    <2>11. 0 \in {0, 1, Aborted} OBVIOUS
    <2> QED BY <2>0, <2>8, <2>9, <2>10, <2>11, ExitKeeps
  <1>12. CASE UNCHANGED cliVars
    <2>1. UNCHANGED <<cliPc, job, init, refImages, decodeOnly, result, current, passes, heap, made,
                      fault, saved, exit>>
      BY <1>12 DEF cliVars
    <2>2. CliTypeOK' /\ Status' /\ ImagesHaveOneOwner'
      BY <2>1 DEF CliInv, CliTypeOK, Status, ImagesHaveOneOwner
    <2>3. Refs' = Refs /\ Image' = Image /\ Loaded' = Loaded BY <2>1 DEF Refs, Image, Passing, Loaded
    <2>4. BeforeResult' /\ WithResult' BY <1>0, <2>1, <2>3 DEF BeforeResult, WithResult, Loading, Complete
    <2> QED BY <2>1, <2>2, <2>3, <2>4 DEF CliInv
  <1>13. CASE CliExited BY <1>12, <1>13 DEF CliExited
  <1> QED
    BY <1>1, <1>2, <1>3, <1>4, <1>5, <1>6, <1>7, <1>8, <1>9, <1>10, <1>11, <1>12, <1>13 DEF CliNext

\* The inductive invariant holds in every reachable state of a run of cn-cli.
THEOREM CliInvariance == CliSpec => []CliInv
  <1> QED BY CliInitInv, CliStepInv, PTL DEF CliSpec

\* Every variable of a run keeps its type.
THEOREM CliTypes == CliSpec => []CliTypeOK
  <1>1. CliInv => CliTypeOK BY DEF CliInv
  <1> QED BY <1>1, CliInvariance, PTL

\* However a run ends, no image was freed twice or used after it was freed,
\* and status 0 means that all were freed (main of cn-cli).
THEOREM OneOwner == CliSpec => []ImagesHaveOneOwner
  <1>1. CliInv => ImagesHaveOneOwner BY DEF CliInv
  <1> QED BY <1>1, CliInvariance, PTL

-----------------------------------------------------------------------------
(* The computations together *)

\* A step of the instance is a step of every computation: of the one that runs,
\* and of the others, which stay as they are.
LEMMA StepOfEach ==
  ASSUME [Next]_computationVars
  PROVE  /\ [TilingNext]_tilingVars /\ [SamplerNext]_samplerVars
         /\ [PromptNext]_promptVars /\ [SplitNext]_splitVars
         /\ [TokenizerNext]_bpeVars /\ [CliNext]_cliVars /\ [WorkNext]_workVars
         /\ [LoaderNext]_loaderVars
BY DEF Next, Runs, computationVars

\* Every behaviour of the instance is one of each computation alone: what holds
\* of one of them, whatever it is given, holds there.
THEOREM EachAlone ==
  Spec => /\ TilingSpec /\ SamplerSpec /\ PromptSpec /\ SplitSpec
          /\ TokenizerSpec /\ CliSpec /\ WorkSpec /\ LoaderSpec
<1>1. Init => /\ TilingInit /\ SamplerInit /\ PromptInit /\ SplitInit
              /\ TokenizerInit /\ CliInit /\ WorkInit /\ LoaderInit
  BY DEF Init
<1>. QED
  BY <1>1, StepOfEach, PTL
  DEF Spec, TilingSpec, SamplerSpec, PromptSpec, SplitSpec, TokenizerSpec, CliSpec, WorkSpec,
      LoaderSpec

\* All variables of all computations keep their types.
THEOREM AllTypes == Spec => []TypeOK
<1>1. TilingTypeOK /\ SamplerTypeOK /\ PromptTypeOK /\ SplitTypeOK
        /\ TokenizerTypeOK /\ CliTypeOK /\ WorkTypeOK /\ LoaderTypeOK => TypeOK
  BY DEF TypeOK
<1>. QED
  BY <1>1, EachAlone, TilingTypes, SamplerTypes, PromptTypes, SplitTypes, TokenizerTypes,
     CliTypes, WorkTypes, TypeCorrect, PTL
=============================================================================
