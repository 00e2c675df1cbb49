CONSTANTS
  r1 = r1
  r2 = r2
  Requests = {r1}
  NConns = 3
  OAuth = TRUE
  BadTokens = {2}
  QuotaLimit <- NoQuota
  WindowLen = 1
  BaseCooldown = 1
  MaxCooldown = 2
  RetryAfters = {0, 3}
  AdminOps = {"delete", "strategy"}
SPECIFICATION FairSpec
INVARIANTS DialBudget HangupStopsBilling FailoverOrder FailureAttribution
PROPERTIES ParkingIsBlamed EveryDispatchEnds KeepsPromise
