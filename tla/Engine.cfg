SPECIFICATION FamilySpec
CONSTANTS
  Null = Null
  p1 = p1
  p2 = p2
  p3 = p3
  m1 = m1
  Models = {m1, m2}
  Prompts = {a, b, c}
  Paths = {p1, p2, p3}
  RefLists <- DistinctRefs
  Latents = {l1, l2, l3}
  MaxPromptEntries = 2
  MaxLatentEntries = 2
  MaxRepeats = 2
  MaxVersion = 2
  Tilings = {TRUE}
  RacingEdits = FALSE
INVARIANTS
  TypeOK
  StateBelongsToModel
  NothingLeaks
  MemorySafe
  ConditionAlive
  CachesBounded
  RequestMostRecent
  LatentsOfThisRequest
PROPERTIES
  UsedPromptIsNewest
  InferenceIsQuiet
  AnsweredOrDead
  ImplementsProtocol
