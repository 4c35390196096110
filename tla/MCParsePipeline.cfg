CONSTANTS
  g1 = g1
  noGUID = noGUID
  Request = {r1, r2}
  Session <- MCSession
  MaxLogs = 2
  GUID <- MCGUID
  PortNum <- MCPortNum
  NoGUID = noGUID
  NoSession = NoSession
  Payload <- MCPayload
SPECIFICATION ParseSpec
SYMMETRY Requests
INVARIANTS
  OkMeansStored
  RefusalIsDefinite
  ConflictMeansSaved
  ProcessingHasOwner
