SPECIFICATION Spec
CONSTANTS
  Pids = {p1}
  Threads = {t1}
  Unit = 100
  Rams = {0, 1999, 2901}
  Trust = {TRUE, FALSE}
  Garbage = {0}
  OpenFails = TRUE
  NumCpus = 1
  UmbralCPU = 10
  UmbralMem = 100
  InitCapacity = 1
  SleepTime = 1
  CleanupAge = 0
  PipeSize = 1
  MaxTotal = 2
  MaxCapacity = 1
  MainThread = MainThread
  Nobody = Nobody
SYMMETRY Symmetry
PROPERTIES
  RamPeakPrecision
