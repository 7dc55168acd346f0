--------------------------- MODULE MCComputations ---------------------------
(***************************************************************************)
(* Instance for TLC of the computations that share no state: the load of a *)
(* model with its threads, and those of a single thread.  A behaviour is   *)
(* one of a single computation, while the others stay in one of their      *)
(* initial states; each is checked as it is alone.                         *)
(***************************************************************************)
EXTENDS Tiling, Sampler, Prompt, TokenSplit, Tokenizer, CommandLine, WorkMemory,
        Loader

CONSTANT MaxSize  \* bound: size of an image that is tiled, along one axis

VARIABLE computation

computationVars ==
  <<computation, tilingVars, samplerVars, promptVars, splitVars, bpeVars, cliVars, workVars,
    loaderVars>>

SomeOf(S) == CHOOSE s \in S : TRUE

\* One initial state for every computation but the one that runs
Parked ==
  /\ computation # "tiling" => small = SomeOf(Sizes) /\ tile = SomeOf(TileSizes) /\ scale = SomeOf(Scales)
  /\ computation # "prompt" => prompt = <<>>
  /\ computation # "split" => text = <<>> /\ wideIsSpace = FALSE
  /\ computation # "bpe" => merges = <<>> /\ original = <<>>
  /\ computation # "cli" => job = SomeOf(Jobs)
  /\ computation # "work" => call = SomeOf(Calls)

Init ==
  /\ computation \in {"tiling", "sampler", "prompt", "split", "bpe", "cli", "work", "loader"}
  /\ Parked
  /\ TilingInit /\ SamplerInit /\ PromptInit /\ SplitInit
  /\ TokenizerInit /\ CliInit /\ WorkInit /\ LoaderInit

\* The computation c runs, and the state v of the others stays as it is.
Runs(c, v) == computation = c /\ UNCHANGED <<computation, v>>

Next ==
  \/ /\ Runs("tiling", <<samplerVars, promptVars, splitVars, bpeVars, cliVars, workVars, loaderVars>>)
     /\ TilingNext
  \/ /\ Runs("sampler", <<tilingVars, promptVars, splitVars, bpeVars, cliVars, workVars, loaderVars>>)
     /\ SamplerNext
  \/ /\ Runs("prompt", <<tilingVars, samplerVars, splitVars, bpeVars, cliVars, workVars, loaderVars>>)
     /\ PromptNext
  \/ /\ Runs("split", <<tilingVars, samplerVars, promptVars, bpeVars, cliVars, workVars, loaderVars>>)
     /\ SplitNext
  \/ /\ Runs("bpe", <<tilingVars, samplerVars, promptVars, splitVars, cliVars, workVars, loaderVars>>)
     /\ TokenizerNext
  \/ /\ Runs("cli", <<tilingVars, samplerVars, promptVars, splitVars, bpeVars, workVars, loaderVars>>)
     /\ CliNext
  \/ /\ Runs("work", <<tilingVars, samplerVars, promptVars, splitVars, bpeVars, cliVars, loaderVars>>)
     /\ WorkNext
  \/ /\ Runs("loader", <<tilingVars, samplerVars, promptVars, splitVars, bpeVars, cliVars, workVars>>)
     /\ LoaderNext

Spec == Init /\ [][Next]_computationVars

\* The threads of a load that can run are scheduled, the main thread among them.
FairSpec ==
  /\ Spec
  /\ WF_loaderVars(computation = "loader" /\ Main)
  /\ \A w \in Workers : WF_loaderVars(computation = "loader" /\ Work(w))

\* The type of the state
TypeOK ==
  /\ TilingTypeOK /\ SamplerTypeOK /\ PromptTypeOK /\ SplitTypeOK
  /\ TokenizerTypeOK /\ CliTypeOK /\ WorkTypeOK /\ LoaderTypeOK

-----------------------------------------------------------------------------
(* Tiling: every size up to MaxSize along each axis, with a few along the  *)
(* other one, so that tiles overlap in corners too.                        *)

SomeSizes ==
  [x : 1 .. MaxSize, y : {3, 7}] \cup [x : {3, 7}, y : 1 .. MaxSize]

\* The smallest tile the pipeline asks for is 4.
SmallTiles == {[x |-> 4, y |-> 6], [x |-> 5, y |-> 4]}

\* None, a quarter and the largest one, a half
Targets == {<<0, 1>>, <<1, 4>>, <<1, 2>>}

(* Sampler: schedules that end in zero and that do not, one with a zero    *)
(* inside, one that rises, and one without a step                          *)

SomeShifts == {<<1, 1>>, <<2, 1>>}

SomeSchedules ==
  {<<One, <<1, 2>>, Zero>>, <<<<1, 2>>, One, <<1, 3>>>>, <<One, Zero, <<1, 2>>, Zero>>, <<One>>}

(* Prompt: all pieces in short prompts, brackets in longer ones            *)

SomePrompts ==
  UNION {[1 .. n -> Pieces] : n \in 0 .. 3}
    \cup UNION {[1 .. n -> {"(", "[", ")", "]", ":w)", "text"}] : n \in 4 .. 5}

(* TokenSplit: all characters in short texts, those that interact in       *)
(* longer ones                                                             *)

SomeTexts ==
  UNION {[1 .. n -> Characters] : n \in 0 .. 3}
    \cup UNION {[1 .. n -> {"a", " ", "\n", "!", "'"}] : n \in 4 .. 5}

(* Tokenizer: merges that overlap, that make each other's pieces, and that *)
(* rank against the order in which they are found                          *)

SomeWords == UNION {[1 .. n -> Alphabet] : n \in 0 .. 6}

SomeMergeLists ==
  LET a == <<"a">>
      b == <<"b">>
      aa == a \o a
      ab == a \o b
      bb == b \o b
  IN  {<<>>, <<<<a, a>>>>, <<<<b, a>>, <<a, b>>>>, <<<<a, b>>, <<ab, a>>, <<ab, ab>>>>,
       <<<<a, a>>, <<aa, a>>, <<a, b>>, <<aa, ab>>>>,
       <<<<b, b>>, <<a, b>>, <<a, bb>>, <<ab, b>>>>}

(* WorkMemory: squares of 16 pixels, up to an image the cap is too low for *)

SomeImages == [w : {32, 200}, h : {64, 200}] \cup {[w |-> 400, h |-> 400]}
=============================================================================
