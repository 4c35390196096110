CONSTANTS
  maxFileSize = 2
  maxFiles = 3
  maxTotalBytes = 4
  dataDir <- MCDataDir
  File <- MCFile
  Disk <- WholeRequests
  Spelling <- MCSpelling
  Number <- MCNumber
  Lower <- MCLower
  Mentions <- MCMentions
  NodeRecord <- NodeRecords
  InfoRecord <- InfoRecords
  PortRecord <- PortRecords
  MaxRecords = 3
SPECIFICATION EngineSpec
INVARIANTS
  PathStaysInside
  WithinLimits
  RefusalIsJustified
  AllOrNothing
  GUIDsSurvive
  NumbersAreChecked
  MergedAndClosed
  LastValueWins
  NothingLost
