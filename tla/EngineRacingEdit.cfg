SPECIFICATION Spec
CONSTANTS
  Null = Null
  p1 = p1
  p2 = p2
  p3 = p3
  Models = {m1}
  Prompts = {a}
  Paths = {p1}
  RefLists <- OneRef
  Latents = {l1, l2, l3}
  MaxPromptEntries = 1
  MaxLatentEntries = 2
  MaxRepeats = 1
  MaxVersion = 2
  Tilings = {FALSE}
  RacingEdits = TRUE
INVARIANT
  LatentsOfThisRequest
