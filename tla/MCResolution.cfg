CONSTANTS
  app = app
  lib = lib
  plug = plug
  NULL = NULL
  Executables <- MCExecutables
  Executable = app
  Sections <- MCSections
  Mappings <- MCMappings
  Main <- MCMain
  Traces <- MCTraces
  Depth = 3
  ReportDepth = 2
  PathLengths = {3, 4, 5}
  PathMax = 4
  MaxResolves = 3
SPECIFICATION Spec
CHECK_DEADLOCK FALSE
INVARIANTS TypeOK NothingStaysOpen LocationIsRight NamesAreShared SearchedIsOpen ObjectsAreMapped PrintedIsOfTrace
