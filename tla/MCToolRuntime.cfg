SPECIFICATION FairSpec
CONSTANTS
  web = web
  code = code
  search = search
  fetch = fetch
  Profiles <- MCProfiles
  RouterTools = {search, fetch}
  ClientTools = {own}
  Offers <- MCOffers
  DisabledSets <- MCDisabledSets
  MaxIterations = 2
  MaxCalls = 2
  MaxUsage = 1
INVARIANTS NothingLeftOpen BilledOnce OneResponse
PROPERTY RequestEnds
CHECK_DEADLOCK FALSE
