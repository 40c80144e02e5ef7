SPECIFICATION FairSpec
CONSTANTS
  Requests = {r1, r2}
  Threshold = 2
  MaxGen = 3
  NoRequest = NoRequest
INVARIANTS NoSeriesAfterShutdown OwnerMayRelease
PROPERTIES CooldownAfterRelease RetireCompletes
CHECK_DEADLOCK FALSE
