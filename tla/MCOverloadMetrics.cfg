SPECIFICATION MetricsFairSpec
CONSTANTS
  NilPolicy = NilPolicy
  NoOrg = NoOrg
  Host = "h"
  Configs <- MCConfigs
  MaxWaiting = 3
  MaxRunning = 1
  MaxSamples = 3
INVARIANTS HysteresisKept NoGaugeLeftBehind
PROPERTY WaitEnds
CHECK_DEADLOCK FALSE
