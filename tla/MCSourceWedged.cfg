CONSTANTS
  MaxApiCalls = 0
  MaxSinkCalls = 2
  ReplyOutcomes = {TRUE}
  AddressReuse = FALSE
  SinkUserMethods = {"PLAY", "PAUSE", "TEARDOWN"}
SPECIFICATION Spec
INVARIANT NoFault
