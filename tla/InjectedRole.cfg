SPECIFICATION PromptSpec
CONSTANTS
  MaxMessages = 2
  MaxInjections = 1
  MaxDepth = 2
INVARIANTS InjectionsAreSystemMessages
CHECK_DEADLOCK FALSE
