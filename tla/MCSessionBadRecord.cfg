SPECIFICATION Spec
CONSTANTS
  junk = junk
  broken = broken
  Junk <- junk
  Broken <- broken
  Entries <- MCEntries
  ReadBack <- MCReadBack
  Names <- MCNames
  UpperCase <- MCUpper
  ListedMethods <- MCListed
  ShortTs <- MCShortTs
  Numbers <- MCNumbers
  Foreign <- MCForeign
  Remnants <- MCRemnants
  PageSize = 1
  DefaultTop = 1
  TopIPCap = 2
  TopURLCap = 1
  AllocMayFail = FALSE
  MaxForeign = 1
  MaxTorn = 1
PROPERTIES
  BadRecordsAreIgnored
