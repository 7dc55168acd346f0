----------------------------- MODULE CommandLine -----------------------------
(***************************************************************************)
(* cn-cli (tools/cli/main.cpp): one run, from the arguments through the    *)
(* images it loads, the image it generates or upscales and the file it     *)
(* saves to the exit status, with every call that may fail.                *)
(*                                                                         *)
(* A buffer is the number of the allocation it came from, and 0 the null   *)
(* pointer.  What a model does is in Generation.                           *)
(***************************************************************************)
EXTENDS Integers, Sequences, FiniteSets

CONSTANTS
  MaxRefs,   \* bound: reference images
  MaxPasses  \* bound: upscale_repeats

ASSUME CommandLineAssumption == MaxRefs \in Nat /\ MaxPasses \in Nat \ {0}

Null == 0

\* Stands for the status of a process that was aborted
Aborted == 2

\* What the arguments ask for
Jobs ==
  [mode : {"img_gen", "upscale", "convert"},
   init : BOOLEAN, refs : 0 .. MaxRefs, esrgan : BOOLEAN, repeats : 0 .. MaxPasses]

VARIABLES
  cliPc,
  job,
  init,        \* init_image.data
  refImages,   \* the data of ref_images
  decodeOnly,  \* vae_decode_only
  result,      \* results[0].data
  current,     \* current_image.data
  passes,      \* u
  heap,        \* image buffers that are allocated
  made,        \* how many were
  fault,       \* a buffer was used or freed that was not allocated
  saved,       \* the buffer that was written to the output file, or Null
  exit         \* the exit status, -1 while the process runs

cliVars == <<cliPc, job, init, refImages, decodeOnly, result, current, passes,
             heap, made, fault, saved, exit>>
images == <<init, refImages, result, current>>
memory == <<heap, made, fault>>

-----------------------------------------------------------------------------
Exit(status) == cliPc' = "exited" /\ exit' = status

Goto(pc) == cliPc' = pc /\ UNCHANGED exit

\* A buffer that is not there is used, or freed a second time.
Misused(b) == b \notin heap

Alloc == made' = made + 1 /\ heap' = heap \cup {made + 1} /\ UNCHANGED fault

\* free() of each of these, null pointers among them
Free(bs) ==
  LET some == {k \in 1 .. Len(bs) : bs[k] # Null}
  IN  /\ heap' = heap \ {bs[k] : k \in some}
      /\ fault' = (fault \/ \E k \in some :
                     Misused(bs[k]) \/ \E j \in some : j < k /\ bs[j] = bs[k])
      /\ UNCHANGED made

\* release_all_resources
Released == <<init>> \o refImages

-----------------------------------------------------------------------------
CliInit ==
  /\ cliPc = "arguments" /\ job \in Jobs
  /\ init = Null /\ refImages = <<>> /\ decodeOnly = TRUE
  /\ result = Null /\ current = Null /\ passes = 0
  /\ heap = {} /\ made = 0 /\ fault = FALSE /\ saved = Null /\ exit = -1

\* The checks of SDContextParams and SDGenerationParams
Complete ==
  /\ job.repeats >= 1
  /\ job.mode = "upscale" => job.esrgan /\ job.init

\* --version, --help, a wrong argument or one that is missing, and what stoi
\* throws when it is given no number, which is not caught
ParseArguments ==
  /\ cliPc = "arguments"
  /\ \/ \E status \in {0, 1, Aborted} : Exit(status)
     \/ Complete /\ Goto(IF job.mode = "convert" THEN "convert" ELSE "init")
  /\ UNCHANGED <<job, images, decodeOnly, passes, memory, saved>>

Convert ==
  /\ cliPc = "convert" /\ \E status \in {0, 1} : Exit(status)
  /\ UNCHANGED <<job, images, decodeOnly, passes, memory, saved>>

LoadFailed == Exit(1) /\ Free(Released)

LoadInit ==
  /\ cliPc = "init"
  /\ IF ~job.init THEN Goto("refs") /\ UNCHANGED <<init, decodeOnly, memory>>
     ELSE /\ decodeOnly' = FALSE
          /\ \/ Alloc /\ init' = made + 1 /\ Goto("refs")
             \/ LoadFailed /\ UNCHANGED init
  /\ UNCHANGED <<job, refImages, result, current, passes, saved>>

\* release_all_resources does not know the image that failed to load.
LoadRef ==
  /\ cliPc = "refs"
  /\ IF Len(refImages) = job.refs
       THEN Goto("results") /\ UNCHANGED <<refImages, decodeOnly, memory>>
       ELSE /\ decodeOnly' = FALSE
            /\ \/ Alloc /\ refImages' = Append(refImages, made + 1) /\ Goto("refs")
               \/ LoadFailed /\ UNCHANGED refImages
  /\ UNCHANGED <<job, init, result, current, passes, saved>>

\* Bug the runs must notice: the init image stays in init_image too.
StillInit == result' = init /\ UNCHANGED init

\* In upscale mode the init image becomes the result.
TakeInit == result' = init /\ init' = Null

UpscaleMode ==
  /\ cliPc = "results" /\ job.mode = "upscale"
  /\ \/ TakeInit /\ Goto("upscaler") /\ UNCHANGED memory
     \/ Exit(1) /\ Free(Released) /\ UNCHANGED <<init, result>>
  /\ UNCHANGED <<job, refImages, decodeOnly, current, passes, saved>>

\* new_sd_ctx and generate_image.  The reference images are encoded, which a
\* VAE for decoding only cannot.  Images are left to the system when no image
\* is generated, or the library aborts.
Generate ==
  /\ cliPc = "results" /\ job.mode = "img_gen"
  /\ \/ Exit(1) /\ Free(Released) /\ UNCHANGED result
     \/ \E status \in {1, Aborted} : Exit(status) /\ UNCHANGED <<result, memory>>
     \/ /\ result' = made + 1 /\ made' = made + 1 /\ heap' = heap \cup {made + 1}
        /\ fault' = (fault \/ (decodeOnly /\ refImages # <<>>)
                           \/ \E k \in 1 .. Len(refImages) : Misused(refImages[k]))
        /\ Goto("upscaler")
  /\ UNCHANGED <<job, init, refImages, decodeOnly, current, passes, saved>>

\* Without an upscaler the image is saved as it is.
NewUpscaler ==
  /\ cliPc = "upscaler"
  /\ \/ job.esrgan /\ current' = result /\ Goto("upscaling")
     \/ UNCHANGED current /\ Goto("saving")
  /\ UNCHANGED <<job, init, refImages, decodeOnly, result, passes, memory, saved>>

\* One pass.  After a pass that fails the last image that was made is kept.
Upscale ==
  /\ cliPc = "upscaling" /\ passes < job.repeats
  /\ \/ /\ passes' = passes + 1 /\ current' = made + 1 /\ made' = made + 1
        /\ heap' = (heap \ {current}) \cup {made + 1}
        /\ fault' = (fault \/ Misused(current))
        /\ Goto("upscaling")
     \/ Goto("upscaled") /\ UNCHANGED <<passes, current, memory>>
  /\ UNCHANGED <<job, init, refImages, decodeOnly, result, saved>>

\* results[i] = current_image
TakeUpscaled == result' = current

Upscaled ==
  /\ cliPc = "upscaled" \/ (cliPc = "upscaling" /\ passes = job.repeats)
  /\ TakeUpscaled /\ Goto("saving")
  /\ UNCHANGED <<job, init, refImages, decodeOnly, current, passes, memory, saved>>

\* save_results fails if it cannot make the directory, and nothing is freed
\* then.  A file it cannot write is only logged.
Save ==
  /\ cliPc = "saving"
  /\ \/ Exit(1) /\ UNCHANGED <<saved, fault>>
     \/ /\ \E ok \in BOOLEAN : saved' = IF ok THEN result ELSE Null
        /\ fault' = (fault \/ Misused(result)) /\ Goto("freeing")
  /\ UNCHANGED <<job, images, decodeOnly, passes, heap, made>>

FreeAll ==
  /\ cliPc = "freeing" /\ Exit(0) /\ Free(<<result>> \o Released)
  /\ UNCHANGED <<job, images, decodeOnly, passes, saved>>

CliExited == cliPc = "exited" /\ UNCHANGED cliVars

CliNext ==
  \/ ParseArguments \/ Convert \/ LoadInit \/ LoadRef \/ UpscaleMode \/ Generate
  \/ NewUpscaler \/ Upscale \/ Upscaled \/ Save \/ FreeAll \/ CliExited

CliSpec == CliInit /\ [][CliNext]_cliVars

-----------------------------------------------------------------------------
\* The type of the state
CliTypeOK ==
  /\ cliPc \in {"arguments", "convert", "init", "refs", "results", "upscaler", "upscaling",
                "upscaled", "saving", "freeing", "exited"}
  /\ job \in Jobs /\ {init, result, current, saved, made, passes} \subseteq Nat
  /\ refImages \in Seq(Nat) /\ heap \subseteq 1 .. made
  /\ {decodeOnly, fault} \subseteq BOOLEAN /\ exit \in {-1, 0, 1, Aborted}

\* Every image has one owner while it goes from init_image through results and
\* the upscaler's passes: none is used or freed after it was freed, a run that
\* exits with 0 has freed them all, what it saved is the last image it made,
\* and one that ends otherwise has saved none; and reference images never reach a
\* VAE that was loaded for decoding only (main of cn-cli).
ImagesHaveOneOwner ==
  /\ ~fault
  /\ exit = 0 => heap = {}
  /\ exit \in {1, Aborted} => saved = Null
  /\ saved # Null =>
       saved = IF job.mode = "upscale" /\ passes = 0 THEN 1 ELSE made
=============================================================================
