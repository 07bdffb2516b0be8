SPECIFICATION Spec
CONSTANTS
  Pairs <- MCPairs
  Records <- MCRecords
  Networks <- MCNetworks
  Agnostic <- MCAgnostic
  Configs <- MCConfigs
  Messages <- MCMessages
  Artifacts <- MCArtifacts
  Lookers = {r1, r2}
  Never = Never
  Skew = 1
  MaxNow = 2
INVARIANTS
  KeysAreFresh
  MembersOnly
  BlameIsRight
SYMMETRY LookerSymmetry
