SPECIFICATION FairSpec
CONSTANTS
  Events <- MCEvents
  Responses <- MCResponses
  MaxEvents = 3
  Cap = 2
INVARIANTS UsageAccounted StreamKept 
PROPERTIES ResponseEnds Metered
CHECK_DEADLOCK FALSE
