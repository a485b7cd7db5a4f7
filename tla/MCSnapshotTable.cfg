SPECIFICATION Spec
CONSTANTS
  k1 = k1  k2 = k2  v1 = v1  v2 = v2
  Keys <- MCKeys
  Values <- MCValues
  MaxTime = 9
  KeepLasts = {1, 2}
SYMMETRY Symmetry
CHECK_DEADLOCK FALSE
INVARIANTS
    OneCurrentPerKey
    VersionsLineUp
PROPERTIES
    RunRecordsSource
    HistoryIsKept
