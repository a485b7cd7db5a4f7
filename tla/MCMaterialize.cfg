SPECIFICATION Spec
CONSTANTS
  Configs <- SomeConfigs
  Outs <- SomeOuts
  MaxRuns = 2
CHECK_DEADLOCK FALSE
INVARIANTS
    ContractsAreKept
    RunLeavesItsRelation
    RowNotAhead
PROPERTIES
    NeverVanishes
