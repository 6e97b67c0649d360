CONSTANTS
  NL = "nl"
  Lines <- MCLines
  LogNames <- MCLogNames
  Statuses <- MCStatuses
  MethodNames <- MCMethods
  Yes <- MCYes
  MaxPending = 1
  CodePages = {1251}
  Devices <- MCDevices
  StartModes <- MCStartModes
SPECIFICATION FairSpec
INVARIANTS
  TailsReachTheMenuOnly
  StaleNameOnlyAtEnd
  ConsoleIsKept
PROPERTIES
  DeadInputDoesNothing
  EndIsNoticed
