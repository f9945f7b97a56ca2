SPECIFICATION ListingSpec
CONSTANTS
  Devices <- Sticks
  Disks <- Sticks
  Files <- Paths
  DevOf <- OnFirst
  Base <- Names
  Ext <- Extensions
  Prefixes <- Begins
  Below <- Nested
  Fallible <- Failures
  Attr <- Attributes
  Threshold = 2
  Horizon = 0
INVARIANTS
  ListingTypeOK
  NothingLeftMounted
PROPERTIES
  GrowthReported
