# condenser.cpp in TLA+

TLA+ modules of condenser.cpp, the TLC configurations that
check them on small instances, and proofs checked by TLAPS for all instances.
Paths below are relative to the repository, line numbers are in `PROJECT.json`
("map").

## 1. The system

condenser.cpp generates images with Flux 2 Klein.  It is a library
(`condenser.h`) with two programs on top: `cn-cli`, which generates once, and
`cn-engine`, a long-lived process that another program drives with JSON over
stdin and stdout.

```
 parent process                                     reference images on disk
      | commands / messages (JSON lines)                     |
  cn-engine  --- prompt cache, latent cache, upscaler -------+
      | calls                       ^ progress callback
  library: contexts, generate_image*, sd_compute_condition, sd_encode_ref_image, upscale
      |                 |                      |
  ModelLoader       four GGMLRunners      sampler, tiling, tokenizer
  (threads)         (weights, buffers)    (computation)
```

| Component | State | Operations | What is hard | What makes it correct |
|---|---|---|---|---|
| cn-engine loop and handlers (`tools/engine/main.cpp`) | `EngineState`: context, upscaler, two caches; buffers a handler owns | nine commands | many exits per handler; pointers into caches that the same handler changes; exceptions; files edited meanwhile | one answer per command, nothing freed twice or leaked, caches belong to the loaded model |
| prompt and latent caches | key, object, `last_used` | find, touch, evict when full, emplace, clear | several insertions in one request | bounded, least recently used goes first, what is in use stays |
| progress callback (`util.cpp`) | one pointer for the process | install, uninstall, report | who reports while none is installed | stdout carries JSON only |
| pipeline (`condenser.cpp`) | context, tiling parameters, `work_ctx`, pinned buffer | conditions, reference latents, three `generate_image` variants, upscaling | every allocation and computation may fail | nothing is left behind, references in order, no freed weights |
| GGML runner (`ggml_extend.hpp`) | weights here or there, compute buffer | compute, free buffer, free parameters | failure leaves different things on the device | one model at a time on the device |
| positional embeddings (`flux.hpp`) | cached embeddings and their key | build graph | the cache outlives the request | embeddings are those of the request |
| model loader (`model.cpp`) | file list, tensor map; shared counter and flag | index a file, load tensors | worker threads, polling, failure half-way | true means every weight is loaded, from its own file |
| tiling (`ggml_extend.hpp`) | none | positions, overlap, merge | last tile, overlap that is not an integer | every pixel is written, with weights that add up to one |
| sampler (`denoiser.hpp`, `rng_philox.hpp`) | the latent; seed and offset of the generator, over generations | schedule, three methods, progress | none or one step, custom schedules, Heun's two calls, a generation that fails halfway | the model is told how much noise it gets; the seed decides the noise |
| prompt parsing and padding (`util.cpp`, `conditioner.hpp`) | two stacks of brackets, parts, tokens, weights, mask | parse, tokenize, pad | brackets nested, interleaved, left open; too many tokens | each text has the weight of its brackets; lengths agree |
| tokenizer (`tokenize_util.cpp`, `llm.hpp`) | merges and vocabulary | split, encode | a regular expression matched by hand; merges that overlap | words end where the expression ends; nothing is lost |
| memory of a call (`condenser.cpp`) | a context of fixed size | open, allocate, close | the size is an estimate, and what exceeds it aborts | the estimate covers what a call makes |
| cn-cli (`tools/cli`, `common.hpp`) | images | parse, load, generate, upscale, save | an image changes hands, many exits | each image is freed once |

`PROJECT.json` lists all components with what is modelled of each, and under
"hazards" where in the code things can go wrong that a test would hardly reach.

## 2. Modules

| Module | What it is |
|---|---|
| `LruCache` | the two caches of the engine as sequences in order of use |
| `EngineProtocol` | abstract: what the engine's README promises its parent |
| `Engine` | detailed: every handler of cn-engine with every exit |
| `EngineProperties` | the properties of `Engine`, and the refinement of `EngineProtocol` |
| `Weights` | abstract: what a model may expect of the loader |
| `Loader` | detailed: indexing and the threaded `load_tensors` |
| `Generation` | the library's calls over its four runners |
| `Tiling` | tiled processing: where tiles go and how they are blended |
| `Sampler` | several generations by the three sampling methods, with schedule, noise and progress |
| `Fractions` | the exact arithmetic `Sampler` uses for floats |
| `Prompt` | a prompt from its brackets to padded tokens, weights and mask |
| `TokenSplit` | how a text is cut into words, next to the regular expression it stands for |
| `Tokenizer` | byte pair encoding of one word |
| `WorkMemory` | the tensors of one library call, and the context they must fit |
| `CommandLine` | one run of cn-cli |
| `MCEngine`, `MCGeneration`, `MCPrompt` | instances for TLC of the violations and of `Generation` |
| `MCEngineFamilies` | instance of `Engine` for two families of clients |
| `MCComputations` | instance of `Loader` and of the computations below it, one of them in each behaviour |
| `EngineProofs`, `LoaderProofs`, `GenerationProofs`, `TilingProofs`, `SamplerProofs` | theorems about the module each is named for |
| `RequestProofs` | theorems about `Prompt`, `TokenSplit`, `Tokenizer` and `WorkMemory` |
| `ComputationsProofs` | theorems about `CommandLine`, and about the eight computations of `MCComputations` together |
| `Arithmetic` | what these need of numbers: induction, Euclid's algorithm, fractions in lowest terms |

The order was: the engine first, as it holds the most state for the longest
time; the loader second, the only code with threads of its own; then the
pipeline between them; then what its steps compute, where that can be said
without arithmetic on tensors; last the other program, cn-cli.  `Engine` uses `LruCache` for both caches and sees the
library's calls as steps that succeed or fail; `Generation` looks inside those
calls.

### Engine

State: `EngineState` is `ctx`, `upscaler`, `prompts`, `latents` (an object is
represented by what it was computed from: model, file version, tiling);
what a handler owns is `pixels`, `bufs`, `image`, `result`, `temp`, `lats`,
`cond`; `memoryError` becomes true when something freed is used or freed again.
An action is a part of a handler from one library call or file access to the
next, with all its exits.  What the JSON contains is chosen where the handler
reads it.  `EditRef` is another program that edits, deletes or restores a
reference image.

`LibraryDies` is the process that ends inside the library, for whatever reason the
modules below it have (a factor that cannot be read, the assertion of a decode-only
VAE, a result that is null, weights that are freed).

Assumptions: two uses of a cache have different `last_used` times; an edit
changes modification time or size; library calls return or end the process.

### Loader

`IndexFile` is one `init_from_file` with the ways it may stop early (before or
after its path is dropped again, with some of its tensors indexed).  `Worker`
steps are those between which other threads can see a difference: test of
`failed`, `fetch_add`, read, conversion, exits.  The main thread polls, joins,
checks the flag.  A weight holds the file its data came from, or garbage.

Assumptions: threads start; parameter buffers were allocated; a file has each
name once; memory mapping and the tensors a caller ignores make no difference.
The order of tensors within a file is arbitrary in the model.

### Generation

State: for each runner `weights`, `placed` (weights moved to the device) and
`compute` (the compute buffer); `work`, `pinned` and `enc` are the memory of a
call; `pe` is the cache of positional embeddings; `flawed` records what went
wrong without the call noticing.  One action per step of a call; `Fails` is a
`compute()` that fails at the offload, the reservation or the computation, with
what each leaves behind.  A reference latent is the image it was encoded from.

Assumptions: `ggml_gallocr_alloc_graph` succeeds on the graph it was reserved
for; parameter buffers were allocated; `work_ctx` is large enough; circular
padding is fixed for a context, so it is not in the key; the length of the text
is part of `Shapes`; preview callback and `cache()` are unused.
Context and upscaler are opened and closed together, which the properties do not
depend on.  Where the tiles' own context cannot be made, `sd_tiling` returns without
a tile and its caller goes on: that is a tiled pass of no tiles.

A context with `free_params_immediately` is called again like any other.
`ReadFreed` is what then may happen: a stage that reads freed weights goes on with
what is there, as every stage may, or the process dies.  `WeightsAlive` is what holds
all the same, up to the end of the first generation; `GeneratesAgain`, which the
comment at `tools/engine/main.cpp:392` asks of the engine's contexts, is what does not.

### Tiling

`CountTiles` counts the tiles and spreads the overlap (`sd_tiling_calc_tiles`); a
`NextTile` places one tile, computes and merges it.  `written` keeps, for each
output pixel, the sum of the weights it was blended with, scaled to integers, in
place of its colour.  The overlap is `(int)(size * factor)`: where the product
is whole, the model also lets it come out one lower, as the float may.

When exactly one tile less is processed than was counted, `tile_count` is already
`num_tiles` in the last test (`ggml_extend.hpp:642`), and the progress bar stops
one short of its end.  No text of the repository promises otherwise, so it is
a hazard and not a finding.

### Sampler

State: `plan` is what `prepare_generation` resolved a request to, `step` the loop
variable, `rng` the generator (`seed`, `offset`), which the context keeps from one
generation to the next.  The latents `x` and `x2` are represented by the variance
of the noise in them, under the assumption that the model answers every question
with the image; a division by zero makes them `Garbage`.  A drawn tensor is the
state of the generator it was drawn in, `told` what `pretty_progress` was called
with.  A step may fail wherever the model is run.  How much of the image is in a
latent is not represented (the ancestral method does not scale it); the shift of
the schedule, computed from the size of the image, is a constant, as e to its power.

A custom schedule is used as it is; its sigmas are not negative, which the code
does not test and no schedule that means something violates.  The properties say what is true of it: when
a sigma inside it is zero, nothing is promised, because the code divides by it.
The 20 steps that `common.hpp:766` documents as the default become 4
(`condenser.cpp:1484`), while the text cn-cli stores in its image still says 20.

### Prompt, TokenSplit, Tokenizer

`Prompt` reads the pieces `re_attention` matches, one action for each branch of
the loop.  A weight is a float in the code: here it is the list of multipliers in the
order they were applied, with a sign, and a written factor is named by the piece it is
in.  A factor that `std::stof` cannot read (dots only, or out of range) ends the
process: nothing catches the exception (`thrown`).

The last loop merges neighbours whose floats are equal.  The model does not compute
them: two weights computed in the same way are equal (`SurelyEqual`), unless two
factors made one not a number; two whose powers of 1.1 or whose signs differ, with no
factor in them, are not (`SurelyDiffer`, for prompts of up to `MaxPowers` pieces, so
that no power leaves a float's range); in all other cases rounding decides and the
model lets it go either way.

`WeightsByBrackets` compares stacks and ranges with a definition of which brackets
enclose which text, as the doc comment (`util.cpp:474`) has it.  The comment says
otherwise than the code in three places.  A `:w)` with no bracket open is "just text"
there and dropped here: `AnythingElseIsText`, which run `prompt_text` finds violated;
`WeightsByBrackets` leaves such a piece out.  `\)`, `\[`, `\]` and `\\` are literal
characters there and keep their backslash here, also in the comment's own example
`'\(literal\]'`; only `\(` loses it.  How a character is spelled is not part of a
property.  BREAK becomes a text of weight -1, which the encoder multiplies its states
with.  A token is the number of the part it came from.

`TokenSplit` takes a character to be one of its class.  `isspace` is undefined for
most code points, so for "wide" punctuation it answers what it likes, but always
the same.  `SplitsAsRegex` compares every word with the expression of the
comment (`tokenize_util.cpp:815`).  They differ for the texts of `Irregular`, and
the run shows that for no others: a capital contraction is put in lower case,
'd is never one (two characters are compared with it), white space is cut in
other places, and a wide character that `isspace` takes for a blank is dropped.

`Tokenizer` is `bpe` of one word and the lookup of its pieces in `encode`; the
vocabulary holds the letters and the merges, as `load_from_merges` makes it.

### WorkMemory

The tensors of a call in the order they are made, each with its descriptor and
rounded up to 16 bytes, taken from the budget until one does not fit.  That
descriptor is ggml's, which is not part of the repository; its size and the abort
are taken from how the code uses it.  `FitsBudget` names what the estimate leaves
to its margin of 128 MB: the condition, the preview tensor and small tensors.  Two
consequences, which the run reaches: `--preview vae` on an image of some 3200
pixels squared aborts, for a preview that no one calls back for
(`condenser.cpp:617`); and so does `sd_compute_condition` for a prompt of some
1240 tokens, as there is no `max_tokens` (`condenser.cpp:1647`) that would cut it off.

### CommandLine

One action per stretch of `main` that ends in a call that may fail.  A buffer is
the number of its allocation, and `fault` becomes true when something is used or
freed that is not allocated.  A process that ends with 1 may leave its images to
the system.  An image that cannot be written is logged, and the run still ends with 0.

## 3. Runs

| Run | Result | What it shows |
|---|---|---|
| `engine` | holds | memory, caches, callback and answers on every exit of every handler; requests with several references get current, live latents and evict only others'; refinement of `EngineProtocol` |
| `engine_repeated_ref` | violated | one file twice in a request: the second insertion frees the latent in use |
| `engine_racing_edit` | violated | a file edited while it is encoded is cached under its new version |
| `engine_tiling` | violated | references are encoded with the previous request's tiling |
| `engine_stdout` | violated | loading a model prints a progress bar to stdout |
| `engine_answered` | violated | wrongly typed JSON, or references for a decode-only VAE, end the process unanswered |
| `generation_life` | holds | every call with every failure: the device holds one model, nothing stays, weights live until their last use in a first generation, references and positions are right, the call returns |
| `generation_positions` | violated | references of other sizes, as many as before: positions of the previous request |
| `generation_decode` | violated | a decode that fails is returned as an image |
| `generation_freed` | violated | a second generation with `free_params_immediately` computes with freed weights |
| `prompt_text` | violated | a factor that closes no bracket is dropped from the prompt |
| `computations` | holds | the loader with its threads, tiling, sampler, prompt, splitting, byte pairs, memory and cn-cli, each alone: see below |

The loader and the computations of `computations` share no state, and all but the
loader are sequential.  `MCComputations` picks one of them at the start and leaves the
others in one initial state, so each is explored exactly as it would be in a run of its
own, and one run checks all of them:

| Computation | Properties | What they say |
|---|---|---|
| `Loader` | `OneWorkerPerTensor`, `TrueMeansLoaded`, `ProgressForward`, `LoadReturns`, `ImplementsWeights` | in every interleaving and with every failure: true means that each weight is loaded; a load returns; progress only grows |
| `Tiling` | `WrittenOnce`, `TilesInside`, `OverlapAtMostHalf`, `ProgressInBounds` | tiles lie inside, few enough overlap, and their weights add up to one in every pixel |
| `Sampler` | `NoiseAsTold`, `ProgressCountsSteps`, `SeedDecidesNoise` | the model is asked with as much noise as it is told, in Heun's second call too; each step is shown once; equal seeds draw equal noise, whatever ran before |
| `Prompt` | `WeightsByBrackets`, `TokensAligned` | stacks and ranges compute what brackets enclose; tokens, weights and mask stay aligned |
| `TokenSplit` | `SplitsAsRegex` | words are those of the expression |
| `Tokenizer` | `EncodedFully` | nothing lost, nothing left to merge, no merge done twice |
| `WorkMemory` | `FitsBudget` | which calls can abort for want of memory |
| `CommandLine` | `ImagesHaveOneOwner` | no image is freed twice or, when the run succeeds, not at all |

Violations are recorded under "findings" with the document, comment or
assertion they disagree with.

Bounds, and why they are enough:

- `engine` runs two families of clients (`MCEngineFamilies`), whose product is beyond
  TLC.  Family `models`: two models tell a cached object of the old model from one of
  the new; three prompts and two entries make an eviction with a survivor; two
  upscale repeats make `final_image` change hands twice; at most one reference.
- Family `references`, on one model: three files and two entries make every pattern
  of hit, miss and eviction for requests of up to two references; two versions of a
  file are one edit.  Requests fit the cache and name different files;
  `engine_repeated_ref` shows what happens otherwise, and more references than entries
  (eight in the code) end in the same way: a request evicts what it points to.  `RacingEdits`
  is false, so files change between commands only; `engine_racing_edit` lifts it.
  The override of tiling is one value, as nothing checked here depends on it.
- `computations`, `Loader`: two files and three names make a name move from one file to
  the other; two threads race for a tensor; a third file or thread adds no new pair.
- `generation_life`: two images and two shapes give keys that agree in
  one part and not in the other; two steps reuse what the first left; two tiles
  let one fail before or after one that succeeds.  All references have one size
  (`SameSize`): `generation_positions` lifts it.  The second shape and a generation
  without a step come with two of the six lists of sources.
- `Tiling`: each axis takes every size up to 24 (`MaxSize`) while the
  other one has one tile or two: enough for one to eleven tiles, overlaps from none to
  all but one pixel, and last tiles that are moved back by any amount.  Weights are
  exact integers; `Scales` 1 and 2 stand for encoding and decoding.
- `Sampler`: none, one and three steps, and the 20 that become 4; two shifts;
  custom schedules that end in zero or not, with a zero inside, that rise, and without
  a step.  Two generations (`MaxGenerations`) and two seeds make one follow another
  with the same and with a different seed, after a success or a failure.
- `Prompt`: all pieces in prompts of up to three, brackets and text in prompts of up
  to five, where two pairs nest and interleave, far from `MaxPowers`; `MaxLength` 6 is less than, equal to
  and more than what parts of one or three tokens make.
- `TokenSplit`: all classes in texts of up to three characters, those that look ahead
  in texts of up to five.
- `Tokenizer`: words of up to six letters and six lists of merges, in which pairs
  overlap, make each other's pieces, and rank against the order they come in.
- `WorkMemory`: images below and above the cap; prompts of `max_length` tokens, of
  more than the 64 MB for a condition hold, and of more than the margin of a generation.
- `CommandLine`: two references, two passes (`MaxRefs`, `MaxPasses`): the theorem is
  for any number.
- Deadlock is checked for the engine, the loader and the other computations.  In
  `Generation` the process may die in an assertion, which is a state without successors.

Fairness.  The engine's loop always goes on with a command it has read, so its
`FairSpec`, and `FamilySpec` like it, is weak fairness of the handlers; commands and
edits are not fair.  In the loader the operating system schedules every thread:
`FairSpec` of `MCComputations` is weak fairness of its main thread and of each worker,
and of nothing else.  In `Generation` a call runs on its caller's thread: weak
fairness of `Serve`; clients need not call.

Each property of each passing run has a mutant in `PROJECT.json`: a plausible
bug in a definition of the model that makes the run fail.

## 4. Proofs

Each proof shows an inductive invariant, one step per action, and takes the
properties from it.  They hold for every value of the constants under the
ASSUMEs of the modules (capacities and tile counts are at least one, null values
are not ordinary ones, requests have the type of a request).

- `EngineProofs` begins with lemmas on the caches: what touching, evicting and
  inserting keep, and which entries survive.  `Inv` = types, which control points
  can have which locals, which buffers and files a handler owns where, cached
  objects belong to the model.  It gives `TypeOK`, `StateBelongsToModel`,
  `CachesBounded`, `ConditionAlive`, `NothingLeaks`, and the action property
  `UsedPromptIsNewest`.  The part on ownership is needed because `NothingLeaks`
  speaks of idle states only.  An invariant that says where the callback is
  installed gives `InferenceIsQuiet`, and every step is a step of the protocol or a
  stutter (`ImplementsProtocol`).
- `Pointed`, also in `EngineProofs`, is about the latents of a request: the buffers
  hold what the files hold, the key of a cached latent tells which version it was
  encoded from, and the latents found or made so far are the newest entries of the
  cache, so that an insertion evicts another one.  It gives `MemorySafe`,
  `RequestMostRecent` and `LatentsOfThisRequest` under `RefsFit`: a request names
  no file twice and no more files than the cache has room for, and files are edited
  between commands only.  The code does not enforce these: without the first
  `engine_repeated_ref` violates `MemorySafe`, without the last
  `engine_racing_edit` violates `LatentsOfThisRequest`.
- `LoaderProofs`: `Inv` sorts the tensors of a file into settled, claimed and
  waiting by the shared counter and relates each worker's place to them.  It
  gives `LoaderTypeOK`, `OneWorkerPerTensor`, `TrueMeansLoaded` and the refinement
  `ImplementsWeights`, for any number of threads.  `ProgressCounted` adds that the total of
  a progress bar is the number of tensors up to and including this file and that
  what was shown is not ahead of what was claimed, which gives `ProgressForward`.
- `GenerationProofs`: `Inv` says which kind of call can be at which stage
  (`Kinds`), which weights are alive there (`Alive`), that latents gathered so
  far are those of the sources so far (`Gathered`), and that cached positions
  are those of some request with their key (`PositionsMatchKey`).  `Alive` speaks of
  a context that has not generated yet or does not free: no more is true
  (`generation_freed`).  It gives
  `TypeOK`, `OneModelOnDevice`, `NothingLeft`, `WeightsAlive`,
  `ReferencesInOrder`, and `PositionsCurrent` under the hypothesis that all
  references have one size, which `generation_positions` shows is needed.
- `TilingProofs`: `TilingInv` says that the current row lies inside and the last
  tile did.  It gives `TilesInside` for every size, tile, overlap up to a half
  (`TilingAssumption`) and scale.  `BlendInv` says what every pixel's weight is from
  the rows done and the tiles done in the current one: what one tile leaves to be
  blended, the next one adds, because a smootherstep ramp and its mirror image add
  up to one.  It gives `WrittenOnce`, `OverlapAtMostHalf` and `ProgressInBounds`.
- `SamplerProofs`: `SamplerInv` says how many tensors were drawn at each step (`Draws`) and
  that they are the seed's first ones (`Noises`).  It gives `SeedDecidesNoise` for
  every schedule and any number of generations.  `ToldInv` says which steps have
  been told, and gives `ProgressCountsSteps`.  `NoiseInv` says that the latent
  has the noise of the sigma the step is at, by exact arithmetic on
  fractions for each of the three methods, and gives `NoiseAsTold`.
- `ComputationsProofs`: `CliInv` says for each stage of `main` which variable owns
  which buffer and that no two own the same.  It gives `CliTypeOK` and
  `ImagesHaveOneOwner` for any number of references and passes.  `MCComputations`
  runs the eight computations one at a time; `EachAlone` shows that a behaviour of it
  is, for the variables of each, a behaviour of that computation's own specification.
  So what is proved of one is so in the instance, and `AllTypes` is that for the types.
- `RequestProofs`, on texts of any length:
  - `TokensInv` (a part keeps what it is once it has tokens, and lengths grow
    together) gives `TokensAligned`;
  - `WeightsInv` gives `WeightsByBrackets`: while a prompt is read there is a list of
    the brackets of each kind still open, in the order of the stack, and the multipliers
    of every part are those of the brackets closed so far; at the end those never closed
    are all that is left, and joining neighbours, whichever rounding makes equal, loses
    no text and gives none a weight that surely differs;
  - `WordsInv` gives `SplitsAsRegex`: the words so far are those of the expression
    from the start to the cursor, and one attempt of the code at the cursor takes what
    the expression takes;
  - `BpeInv` gives `EncodedFully` under `OneMergeEach`: no two merges make the same
    token, as is so for the merges of `vocab_qwen.hpp`.  The pieces still spell the
    word, and a merge that was applied everywhere is not possible again;
  - `WorkInv` gives `FitsBudget` under `Encodable`: the states of 512 tokens have
    room in the 64 MB of `sd_compute_condition`, which is so for hidden sizes up to
    10751.  The hidden size is read from the model file (`llm.hpp:671`); it is 2560
    in the Qwen3-4B that `docs/INFERENCE_PARAMETERS.md:9` names.
- The types of the computations (`TilingTypes`, `SamplerTypes`, `PromptTypes`,
  `SplitTypes`, `TokenizerTypes`, `WorkTypes`, `CliTypes`)
  rest on invariants of their own, because they say more than their names: no sum of
  weights is ever negative, the sampler divides by zero in two places only (a step
  from a sigma of zero, scaling back from a sigma of one), a scan that takes two
  pieces of a word at once ends inside it, no text makes the splitter cut past its end.
- `Arithmetic`: the induction theorems of the library take an operator as their
  parameter, which the provers cannot instantiate, so induction is stated here for
  sets: what is to hold of every number is that it is in a set.  From it follow that
  the recursive functions of the model are defined by their equations, Euclid's
  algorithm, and that sums and products of fractions in lowest terms do not depend on
  how they are computed.

Termination.  What the liveness properties rest on is proved too: a measure in the
natural numbers that every step lowers, for any number of references, files,
threads, tiles, pieces and letters.

| Theorem | Loop | What gets less |
|---|---|---|
| `HandlersEnd` | handlers of cn-engine | stages to the answer; in one stage, references or passes left.  An edit of a file gives nothing back |
| `WorkersEnd` | worker threads of `load_tensors` | tensors not claimed, then steps at the one held.  A claim by another worker only lowers it |
| `LoadEnds` | its main thread | stages, files and steps in one file; a poll is the exception, while a worker has something left to do |
| `CallsEnd` | calls of the library | stages, references not looked at, tiles and steps left; a call that returns has a result |
| `TilingEnds` | the two loops of `sd_tiling_non_square` | rows, and pixels ahead in a row: rests on `OverlapAtMostHalf`, without which a position may stand still |
| `PromptEnds` | parsing, merging, tokenizing, unless a factor throws | pieces to read, brackets open, parts, parts ahead |
| `SplitEnds` | `token_split` | characters ahead of the cursor |
| `MergingEnds` | the `while (true)` of `BPETokenizer::bpe` | pieces of the word.  `Shrinking` says the bigram chosen is still ahead, or new_word is already shorter than what was scanned; unlike `WordsEncoded` it needs no `OneMergeEach` |

From a measure that every step lowers to "eventually" it takes a temporal rule the
prover has not, and that a step is taken is fairness: these two are what is left to TLC.

Only model-checked: the liveness properties (`AnsweredOrDead`, `LoadReturns`, and `Returns` of
`Generation`), which need fairness and ENABLED, out of the prover's
reach.  Every safety invariant and every action property of a passing run is the
property of a theorem.  The properties of the runs
that are violated are false of the code as it is: they have no theorem, or one under
the hypothesis that excludes what the run found, stated with it.

## 5. Not modelled, and the plan

Not modelled: tensor arithmetic, the networks, file formats byte by byte, the
tables of the vocabulary and of Unicode, the rounds of the random number generator,
formatting of messages and logs, which option sets which field, vendored code.  They
hold no state that interleaves, are numerical, or are data; the vocabulary and the
vendored headers alone are nine tenths of the lines under `src/`.

Next: the numbered output files of cn-cli and the naming rules of `common.hpp`.
