SPECIFICATION MCSpec
CONSTANTS
  Pipelines <- MCPipelines
  NoAuth = NoAuth
  Attempts = {a1, a2}
  Callbacks = {k1, k2}
  Providers = {p1, p2}
  Bap = Bap
  NoSig = NoSig
\* The request is answered, or every attempt and callback has been used.
CHECK_DEADLOCK FALSE
INVARIANTS
  LeavesAsProcessed
  SignatureCoversBody
  AckMeansHandedOver
  OnlySupersededRejected
  AnswersBound
PROPERTY
  AnsweredOnce
