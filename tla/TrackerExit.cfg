SPECIFICATION Spec
CONSTANTS
  Pids = {p1}
  Threads = {t1}
  Unit = 1
  Rams = {0}
  Trust = {FALSE}
  Garbage = {0}
  OpenFails = FALSE
  NumCpus = 1
  UmbralCPU = 10
  UmbralMem = 1
  InitCapacity = 1
  SleepTime = 1
  CleanupAge = 0
  PipeSize = 1
  MaxTotal = 0
  MaxCapacity = 2
  MainThread = MainThread
  Nobody = Nobody
SYMMETRY Symmetry
INVARIANTS
  MonitorSurvives
