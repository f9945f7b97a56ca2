SPECIFICATION Spec
CONSTANTS
  Devices <- OneStick
  Files <- TwoFiles
  DevOf <- AllOnFirst
  Base <- Names
  Ext <- Extensions
  Prefixes <- Begins
  Below <- Flat
  Fallible <- Failures
  Attr <- Attributes
  Threshold = 2
  Horizon = 2
INVARIANTS
  DeletedSound
  DeletionsReported
  AdditionsReported
  QuietWhenUnchanged
  ChangesReported
