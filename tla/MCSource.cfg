CONSTANTS
  MaxApiCalls = 2
  MaxSinkCalls = 2
  ReplyOutcomes = {TRUE}
  AddressReuse = FALSE
  SinkUserMethods = {"PLAY", "PAUSE", "TEARDOWN", "SET_PARAMETER"}
SPECIFICATION Spec
INVARIANTS
  TypeOK
  ResetRestoresFresh
  PendingMatchesWire
  PipelineBeforeUse
PROPERTIES
  Refinement
  SinkRepliesCorrelate
  SessionEstablished
