CONSTANTS
  MaxTriggers = 2
  MaxUserCalls = 2
  TriggerMethods = {"PLAY", "PAUSE", "TEARDOWN"}
  ReplyOutcomes = {TRUE}
SPECIFICATION Spec
INVARIANTS
  TypeOK
  ResetRestoresFresh
  PendingMatchesWire
  IssuesOnlyAsked
PROPERTIES
  SourceRepliesCorrelate
  SendersReleased
