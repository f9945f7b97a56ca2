SPECIFICATION Spec
CONSTANTS
  Devices <- OneStick
  Files <- OneFile
  DevOf <- AllOnFirst
  Base <- Names
  Ext <- Extensions
  Prefixes <- Begins
  Below <- Flat
  Fallible <- NoFailure
  Attr <- OneAttribute
  Threshold = 2
  Horizon = 2
PROPERTIES
  FirstCountIsMounted
