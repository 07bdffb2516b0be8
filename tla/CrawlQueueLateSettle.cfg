SPECIFICATION Spec
CONSTANTS
  Catalogs = {c1}
  Workers = {w1, w2}
  Pollers = {p1}
  Sweepers = {s1}
  ClaimIds = {k1, k2}
  NoClaim = NoClaim
  NoCatalog = NoCatalog
  MaxVersion = 1
  RetireVersions = {}
  MaxAttempts = 1
  MaxParkCount = 1
  AttemptCap = 1
  ParkCap = 2
  MaxAborts = 0
  LeaseHonoured = FALSE
PROPERTY
  OnlyHolderSettles
