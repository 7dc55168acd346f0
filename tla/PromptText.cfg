SPECIFICATION PromptSpec
CONSTANTS
  Prompts <- ShortPrompts
  TokenCounts = {1}
  TemplateBefore = 1
  TemplateAfter = 1
  MaxLength = 4
INVARIANT
  AnythingElseIsText
