CONSTANTS
  MaxApiCalls = 0
  MaxSinkCalls = 1
  ReplyOutcomes = {TRUE}
  AddressReuse = FALSE
  SinkUserMethods = {"PLAY"}
SPECIFICATION Spec
PROPERTY SinkRequestsAnswered
