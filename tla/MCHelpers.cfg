SPECIFICATION HelpersSpec
CONSTANTS
  Nodes     <- MCNodes
  Root      = "root"
  Parent    <- MCParent
  Walks     <- MCWalks
  Denied    <- MCDenied
  Processes = {p, q}
  MaxOthers = 2
  Chars     <- MCChars
  Paths     <- MCPaths
  FileNames <- MCFileNames
  Urls      <- MCUrls
  Times     <- MCTimes
  Addresses <- MCAddresses
  MaxInt    = 511
  Totals    <- MCTotals
  Widths    <- MCWidths
  Steps     <- MCSteps
  Tables    <- MCTables
  Tops      <- MCTops
  Columns   <- MCColumns
  Logs      <- MCLogs
  MaxRows   <- MCMaxRows
  Config    <- MCConfig
  ClockAt   = 2
  ClockLen  = 1
  UrlMax    = 5
  UrlCut    = 2
INVARIANTS
  FalseHasCause
  TrueMeansThere
  PathsComeBack
  UrlIsItsParts
  FormattedTimes
  AddressesAreQuads
  BarIsHonest
  
