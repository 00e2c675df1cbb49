CONSTANTS
  Conns = {1}
  Refreshes = {"r1", "r2", "r3"}
  Policies = {"keeps", "rotates", "revokes", "overlaps"}
  MaxIssued = 3
SPECIFICATION FairTokenSpec
INVARIANTS SessionSurvives TokensMatchConnections
PROPERTIES NeverRollsBack EveryRefreshEnds
