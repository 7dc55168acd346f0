SPECIFICATION FairSpec
CONSTANTS
  MaxSize = 24
  Sizes <- SomeSizes
  TileSizes <- SmallTiles
  Overlaps <- Targets
  Scales = {1, 2}
  StepCounts = {0, 1, 3, 20}
  Shifts <- SomeShifts
  CustomSchedules <- SomeSchedules
  Seeds = {1, 2}
  MaxGenerations = 2
  Prompts <- SomePrompts
  TokenCounts = {1, 3}
  TemplateBefore = 1
  TemplateAfter = 1
  MaxLength = 6
  Texts <- SomeTexts
  Alphabet = {"a", "b"}
  Words <- SomeWords
  MergeLists <- SomeMergeLists
  MaxRefs = 2
  MaxPasses = 2
  Images <- SomeImages
  RefCounts = {0, 3}
  TokenTotals = {512, 2254, 4000}
  RunCounts = {0, 4}
  HiddenSize = 4096
  Names = {a, b, c}
  MaxCalls = 2
  MaxThreads = 2
INVARIANTS
  TypeOK
  WrittenOnce
  TilesInside
  OverlapAtMostHalf
  ProgressInBounds
  NoiseAsTold
  ProgressCountsSteps
  SeedDecidesNoise
  WeightsByBrackets
  TokensAligned
  SplitsAsRegex
  EncodedFully
  ImagesHaveOneOwner
  FitsBudget
  OneWorkerPerTensor
  TrueMeansLoaded
PROPERTIES
  ProgressForward
  LoadReturns
  ImplementsWeights
