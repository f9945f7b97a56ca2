SPECIFICATION FairLockSpec
CONSTANTS
  Pids = {p1}
  Threads = {t1, t2}
  Unit = 1
  Rams = {0, 12}
  Trust = {FALSE}
  Garbage = {0}
  OpenFails = FALSE
  NumCpus = 1
  UmbralCPU = 10
  UmbralMem = 20
  InitCapacity = 1
  SleepTime = 1
  CleanupAge = 0
  PipeSize = 1
  MaxTotal = 0
  MaxCapacity = 2
  MainThread = MainThread
  Nobody = Nobody
PROPERTIES
  LiveProcessTracked
  LockReleased
  LoopsForever
