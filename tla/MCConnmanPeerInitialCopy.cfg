CONSTANTS
  IPs = {"ip1", "ip2"}
  MaxChanges = 4
  MaxCalls = 1
  InitialReady = {FALSE}
  ProxyOutcomes = {TRUE}
  EarlyChanges = TRUE
  MayDestroy = FALSE
SPECIFICATION Spec
PROPERTIES
  ObserverConverges
