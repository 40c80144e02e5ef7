SPECIFICATION FairSpec
CONSTANTS
  h1 = h1
  h2 = h2
  acme = acme
  standard = standard
  Requests = {r1, r2}
  Hosts = {h1, h2}
  Orgs = {acme}
  Configs <- MCConfigs
  MaxGen = 2
  NoEnclave = NoEnclave
  NilPolicy = NilPolicy
  NoOrg = NoOrg
INVARIANT InflightExact
PROPERTY RetiredDrains
