CONSTANTS
  NodeID <- MCNodeID
  Family <- MCFamily
  Alphabet <- MCAlphabet
  NonASCII = {"umlaut"}
  Garbled = "garbled"
SPECIFICATION ViewSpec
INVARIANTS
  PortsUsedOnce
  EdgesAreSound
  BackboneMaximal
  HostLinksMaximal
  LinkMatchPreferred
  PartsAgree
