CONSTANTS
  IPs = {"ip1", "ip2"}
  MaxChanges = 4
  MaxCalls = 1
  InitialReady = {FALSE}
  ProxyOutcomes = {TRUE, FALSE}
  EarlyChanges = FALSE
  MayDestroy = TRUE
SPECIFICATION Spec
INVARIANTS
  InSync
  ObserverTracksPeer
PROPERTIES
  ObserverConverges
