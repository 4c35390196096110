CONSTANTS
  NodeID <- MCNodeID
  Family <- KindFamily
  Alphabet <- MCAlphabet
  NonASCII = {"umlaut"}
  Garbled = "garbled"
SPECIFICATION ViewSpec
INVARIANTS
  EveryKindHasItsGroup
