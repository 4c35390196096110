CONSTANTS
  g1 = g1
  g2 = g2
  noGUID = noGUID
  Session = {s1, s2}
  Reader = {r1}
  MaxLogs = 1
  GUID <- MCGUID
  PortNum <- MCPortNum
  NoGUID = noGUID
  NoSession = NoSession
  Payload <- MCPayload
  defaultPortsLimit = 2
  maxPortsLimit = 2
  Limit <- MCLimit
  Offset <- MCOffset
SPECIFICATION PageSpec
INVARIANTS
  TopologyDataIsSnapshot
  HttpStatusIsTrue
  ListsAreAllOrNothing
  NodeBelongsTogether
  PagesMakeTheList
