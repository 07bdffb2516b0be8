SPECIFICATION MCSpec
CONSTANTS
  Catalogs = {c1}
  Workers = {w1, w2}
  Pollers = {p1}
  Sweepers = {s1}
  ClaimIds = {k1, k2, k3}
  NoClaim = NoClaim
  NoCatalog = NoCatalog
  MaxVersion = 2
  RetireVersions = {2}
  MaxAttempts = 2
  MaxParkCount = 1
  AttemptCap = 2
  ParkCap = 2
  MaxAborts = 0
  LeaseHonoured = FALSE
  MaxDocBytes = 60
  BaseBytes = 20
  OffersBytes = 10
  Blanks = {0, 12}
  Docs <- MCDocs
  MaxResources = 3
  MaxSends = 2
SYMMETRY Symmetry
INVARIANTS
  TypeOK
  RowConsistent
  BudgetsSpent
  ClaimsUnique
  AcceptedIsWhole
  OverrunBounded
PROPERTIES
  LiveClaimIsFenced
  AbandonedIsTerminal
