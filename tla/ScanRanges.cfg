SPECIFICATION FairSpec
CONSTANTS
  MaxThreads = 3
  MaxPorts = 5
  PortSpace = 6
  Bounds <- AnyEnds
  OpenSets <- Listening
  StaleEnds <- Garbage
  CreateFails = TRUE
  SocketFails = TRUE
INVARIANTS
  TypeOK
  Tiled
  ReportedOnce
  NoneLeftBehind
PROPERTIES
  Terminates
  ImplementsScan
