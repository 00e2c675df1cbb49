CONSTANTS
  r1 = r1
  Requests = {r1}
  NConns = 1
  MaxRounds = 2
  MaxTokens = 1
  MaxCalls = 1
SPECIFICATION Spec
INVARIANTS BareAnswerMeansHangup
