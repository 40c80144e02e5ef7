SPECIFICATION Spec
CONSTANTS
  MaxIntelligence = 10
  DefaultIntelligence = 5
  Requests <- MCRequests
  Models <- MCModels
  Configured <- MCConfigured
  Reservable <- MCReservable
  Orgs <- MCOrgs
  HasPool <- MCHasPool
  DocUpload <- MCDocUpload
  DefaultModel <- MCDefaultModel
  Catalogs <- MCCatalogs
  Conversions <- MCConversions
  CacheSaltEnabled = TRUE
  MaxReports = 1
INVARIANTS QuotaKept  AutoTakesClosest OneCaller ConversationKept
CHECK_DEADLOCK FALSE
