CONSTANTS
  IpiCPUs = {c1, c2}
  MaxUnidles = 2
SPECIFICATION IpiSpec
PROPERTY OfflineStops
CHECK_DEADLOCK FALSE
