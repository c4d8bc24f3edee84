CONSTANTS
  MaxApiCalls = 1
  MaxSinkCalls = 0
  ReplyOutcomes = {TRUE}
  AddressReuse = TRUE
  SinkUserMethods = {"PLAY", "PAUSE", "TEARDOWN"}
SPECIFICATION Spec
PROPERTY Refinement
