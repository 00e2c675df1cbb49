CONSTANTS
  r1 = r1
  r2 = r2
  Requests = {r1, r2}
  Servers = {1, 2}
  Tools = {"t1"}
  Allowlists = {{"t1"}}
  CacheTicks = 2
  ConnectTicks = 1
  AnswerTicks = 1
SPECIFICATION Spec
SYMMETRY RequestSymmetry
INVARIANTS ToolsOfAllWhoAnswered CallsReachTheAdvertiser ClientsAreClosed StaleToolsFade
