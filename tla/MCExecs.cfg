\* A request that was answered does nothing more; that it is, is CallReturns
\* and DownloadEnds.
CHECK_DEADLOCK FALSE
SPECIFICATION ExecSpec
CONSTANTS
  MaxChunks = 3
  Window = 2
  MaxOutput = 3
  OutputWindow = 2
INVARIANTS
  EndIsTheEnd
  ReaderLetGo
  CompleteIsWhole
PROPERTIES
  CallReturns
  Promise
  DownloadEnds
