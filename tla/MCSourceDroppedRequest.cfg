CONSTANTS
  MaxApiCalls = 0
  MaxSinkCalls = 2
  ReplyOutcomes = {TRUE}
  AddressReuse = FALSE
  SinkUserMethods = {"GET_PARAMETER", "PAUSE"}
SPECIFICATION Spec
PROPERTY SinkRepliesCorrelate
