SPECIFICATION Spec
CONSTANTS
  junk = junk
  broken = broken
  Junk <- junk
  Broken <- broken
  Entries <- MCEntries
  ReadBack <- MCReadBack
  Names <- MCNames
  UpperCase <- MCUpper
  ListedMethods <- MCListed
  ShortTs <- MCShortTs
  Numbers <- MCNumbers
  Foreign <- MCForeignFew
  Remnants <- MCRemnants
  PageSize = 1
  DefaultTop = 1
  TopIPCap = 2
  TopURLCap = 1
  AllocMayFail = TRUE
  MaxForeign = 0
  MaxTorn = 0
INVARIANTS
  HeapIsAccounted
  CachesAreFresh
  GlobalsAgree
PROPERTIES
  SecondDeleteIsAnnounced
  FailedExportLeavesNoRecords
