CONSTANTS
  Records <- MCRecords
  Logs <- MCLogs
  BufferSize = 2
SPECIFICATION Spec
INVARIANTS
  ShortReadNeverLoads
  ReadsOneVersion
  DoneUpToLastBuffer
