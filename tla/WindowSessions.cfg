SPECIFICATION FairSpec
CONSTANTS
  Windows = {w1, w2}
  Views <- AllViews
  PipeSize = 1
  NoWindow = NoWindow
  Main = Main
INVARIANTS
  TypeOK
  NoDoubleFree
PROPERTIES
  KillHitsMonitor
  StoppedMonitorEnds
  WatchEnds
