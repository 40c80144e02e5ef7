SPECIFICATION FairSpec
CONSTANTS
  Hosts = {h1}
  Requests = {r1}
  NoHost = NoHost
  NoObject = NoObject
  Configs <- AllSets
  MaxKey = 2
  Slots = {s1, s2, s3}
INVARIANTS PoolSound WrittenOnce
PROPERTIES KeysNeverGoBack Renewed
