CONSTANTS
  g1 = g1
  noGUID = noGUID
  Request = {r1}
  Session <- MCSession
  MaxLogs = 1
  GUID <- MCGUID
  PortNum <- MCPortNum
  NoGUID = noGUID
  NoSession = NoSession
  Payload <- MCPayload
SPECIFICATION ParseSpec
INVARIANTS
  ProcessingMeansUnfinished
