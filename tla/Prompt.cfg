SPECIFICATION PromptSpec
CONSTANTS
  MaxMessages = 4
  MaxInjections = 2
  MaxDepth = 2
INVARIANTS InjectionsReachTheModel InjectionsHonourDepth ClientTextKept ResultsFollowCalls
CHECK_DEADLOCK FALSE
