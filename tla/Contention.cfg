CONSTANTS
  r1 = r1
  r2 = r2
  Requests = {r1, r2}
  NConns = 2
  OAuth = FALSE
  BadTokens = {}
  QuotaLimit <- QuotaOne
  WindowLen = 2
  BaseCooldown = 1
  MaxCooldown = 1
  RetryAfters = {0}
  AdminOps = {"reorder", "rekey", "toggle"}
SPECIFICATION Spec
INVARIANTS QuotaOvershootBounded
PROPERTIES RotationAdvances
SYMMETRY RequestSymmetry
