SPECIFICATION FairSpec
CONSTANTS
  Catalogs = {c1}
  Workers = {w1, w2}
  Pollers = {p1}
  Sweepers = {s1}
  ClaimIds = {k1, k2, k3}
  NoClaim = NoClaim
  NoCatalog = NoCatalog
  MaxVersion = 2
  RetireVersions = {2}
  MaxAttempts = 2
  MaxParkCount = 1
  AttemptCap = 2
  ParkCap = 2
  MaxAborts = 1
  LeaseHonoured = TRUE
INVARIANTS
  WorkersHold
  DiscoveryMatchesCursor
PROPERTIES
  ImplementsCatalogSync
  EveryRowSettles
