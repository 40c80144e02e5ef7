SPECIFICATION Spec
CONSTANTS
  h1 = h1
  h2 = h2
  h3 = h3
  Hosts = {h1, h2, h3}
  NoHost = NoHost
  MaxInflight = 1
  Caps <- MCCaps
  Orders <- MCOrders
  PoolPairs <- MCPoolPairs
INVARIANTS ChoiceSound DueProbeIsSent RetryNeedsKnownRoom
CHECK_DEADLOCK FALSE
