SPECIFICATION Spec
CONSTANTS
  a = a
  b = b
  c = c
  n1 = n1
  Home <- MCHome
  Instances = {a, b}
  Callers = {a, c}
  Enforcers = {a}
  Ids = {n1}
  Urls = {u1}
  NoUrl = NoUrl
  Setups <- MCSetups
  TTL = 2
  MaxRelease = 2
  Default = Default
  NoNetwork = NoNetwork
  Files <- MCFiles
  Contents <- MCContents
  MaxDay = 1
INVARIANTS
  PoliciesSound
  StalenessBounded
  RefreshedOnStart
PROPERTIES
  EnforcementNeverLapses
