CONSTANTS
  MaxApiCalls = 0
  MaxSinkCalls = 0
  ReplyOutcomes = {TRUE, FALSE}
  AddressReuse = FALSE
  SinkUserMethods = {"PLAY", "PAUSE", "TEARDOWN"}
SPECIFICATION Spec
INVARIANT NoFault
