SPECIFICATION WireSpec
CONSTANTS
  Parsed <- MCParsed
  Cause = {"clean", "nul"}
  MessageLimit = 10
  IdSize = 1
INVARIANTS
  PostIsTrue
  ViewsShowWhatWasParsed
