SPECIFICATION Spec
CONSTANTS
  MaxThreads = 3
  MaxPorts = 5
  PortSpace = 6
  Bounds <- OneRange
  OpenSets <- Listening
  StaleEnds <- Garbage
  CreateFails = FALSE
  SocketFails = FALSE
INVARIANTS
  CompleteCoversRange
