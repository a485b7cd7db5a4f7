CONSTANTS
  UtestScenarios <- MCUtests
  MaxUtests = 2
  TestScenarios <- MCTests
  Columns <- MCColumns
SPECIFICATION QualitySpec
CHECK_DEADLOCK FALSE
INVARIANTS
    CasesAreIsolated
    FixturesDoNotLeak
    HitIsForThisCase
    
    ChecksMeanWhatTheySay
    OwnContractIsKept
