SPECIFICATION TableSpec
CONSTANTS
  Dispatches = {p, q}
  Keys = {a, b, c}
  Hosts = {1, 2, 3}
  Score <- MCScore
  Offers <- MCOffers
  MaxKeys = 2
  SweepChunk = 1
  Minute = 2
  LastLanding = 2
  MaxLandings = 3
  Instants = {1, 2, 5}
  Landing = {1, 2}
INVARIANTS TableConsistent DecisionSound
PROPERTY SweepSound
SYMMETRY Symmetry
CHECK_DEADLOCK FALSE
