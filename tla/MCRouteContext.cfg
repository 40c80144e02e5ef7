SPECIFICATION Spec
CONSTANTS
  Creds = {c1}
  Models = {m1, m2}
  Orgs = {o1}
  NoModel = NoModel
  NoOrg = NoOrg
  Missing = Missing
  MaxBytes = 3
  MaxRefreshes = 2
  TTL = 1
  RetryAfter = 1
  MaxSequence = 3
  MaxTime = 2
INVARIANTS BooksBalance  RejectionNotExtended
CHECK_DEADLOCK FALSE
