SPECIFICATION Spec
CONSTANTS
  Windows = {w1}
  Views <- AlertView
  PipeSize = 1
  NoWindow = NoWindow
  Main = Main
INVARIANTS
  NoUseAfterFree
