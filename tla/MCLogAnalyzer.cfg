SPECIFICATION Spec
CONSTANTS
  junk = junk
  broken = broken
  Junk <- junk
  Broken <- broken
  Entries <- MCEntries
  ReadBack <- MCReadBack
  Names <- MCNames
  UpperCase <- MCUpper
  Inputs <- MCInputs
  Ns <- MCNs
  Starts <- MCStarts
  UrlPatterns <- MCUrlPatterns
  MaxLogs = 3
INVARIANTS
  TypeOK
  TopIsTop
  SuspiciousAgreesWithTop
  StatisticsAddUp
  MethodFilterMatchesDistribution
  TimeRangeCoversLogs
PROPERTIES
  StaleOnlyByAddOrClear
