SPECIFICATION Spec
CONSTANTS
  Catalogs = {c1}
  Workers = {w1}
  Pollers = {p1}
  Sweepers = {s1}
  ClaimIds = {k1, k2, k3}
  NoClaim = NoClaim
  NoCatalog = NoCatalog
  MaxVersion = 2
  RetireVersions = {}
  MaxAttempts = 1
  MaxParkCount = 1
  AttemptCap = 1
  ParkCap = 2
  MaxAborts = 0
  LeaseHonoured = TRUE
INVARIANT
  NoSupersededTarget
