CONSTANTS
  MaxTriggers = 2
  MaxUserCalls = 0
  TriggerMethods = {"PAUSE"}
  ReplyOutcomes = {TRUE}
SPECIFICATION Spec
PROPERTY
  TriggersAnswered
