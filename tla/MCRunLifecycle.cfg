SPECIFICATION Spec
CONSTANTS
  n1 = n1  n2 = n2  w1 = w1  w2 = w2
  Nodes <- MCNodes
  Workers <- MCWorkers
  Options <- MCOptions
  MaxRuns = 2
SYMMETRY Symmetry
CHECK_DEADLOCK FALSE
INVARIANTS
    SavedRunIsOnRecord
    ExitCodeMatchesRecord
    StatsBelongToNode
