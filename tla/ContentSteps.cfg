CONSTANTS
  Jobs = {j1, j2}
  Configs <- MCConfigs
  None = None
  MaxTime = 3
  FilesOf <- MCFilesOf
  Offers <- MCOffers
  Unreadable = Unreadable
  Local = {item}
  AllowedDomains = {"schema.org"}
  MaxCacheSize = 2
  SchemaTTL = 1
  DownloadTimeout = 1
  NoVersion = NoVersion
  Rank <- MCRank
  PositiveTTL = 1
  NegativeTTL = 0
  MaxCacheEntries = 1
  V2Versions = {"2.0.0", "2.1.0"}
  main = main
  aux = aux
  sole = sole
  dir = dir
  f1 = f1
  f2 = f2
  order = order
  item = item
SYMMETRY JobSymmetry
SPECIFICATION Spec
INVARIANTS CachesBounded MediatedIsSupported RoutesAreOwn DenialsStand
PROPERTY ActionsNeverVanish
CHECK_DEADLOCK FALSE
