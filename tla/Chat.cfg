CONSTANTS
  r1 = r1
  Requests = {r1}
  NConns = 3
  MaxRounds = 4
  MaxTokens = 2
  MaxCalls = 2
SPECIFICATION FairSpec
INVARIANTS RowsTellTheAnswer SuccessTokensComplete QuotaMatchesRows HangupEndsTheLoop RoundBudget
PROPERTIES EveryChatIsAnswered
