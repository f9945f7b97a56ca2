SPECIFICATION FairSpec
CONSTANTS
  Monitors = {m1}
  NoMonitor = NoMonitor
  Pieces <- OneOrTwo
  MaxLines = 2
  PortLines = 1
  AlertLines = 1
  MaxDepth = 2
INVARIANTS
  TypeOK
  WholeLines
  RefreshOnlyWhileShown
  ReportComplete
  NoMonitorLeft
PROPERTIES
  UsbLineShown
  
