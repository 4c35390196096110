CONSTANTS
  g1 = g1
  g2 = g2
  noGUID = noGUID
  Session = {s1, s2}
  MaxLogs = 1
  GUID <- MCGUID
  PortNum <- MCPortNum
  NoGUID = noGUID
  NoSession = NoSession
  Payload <- AllPayloads
SPECIFICATION FairSpec
INVARIANTS
  TypeOK
  DataMatchesStatus
  CheckedStatusHolds
  OneFinalizer
PROPERTIES
  ImplementsLifecycle
  HandlersFinish
  TerminalIsFinal
