CONSTANT
  Scenarios <- MCScenarios
  MaxCommit = 3
SPECIFICATION Spec
CHECK_DEADLOCK FALSE
INVARIANTS
    SelectorIsHonoured
    LockTellsTruth
    NearestDefinitionWins
    UtestIgnoresEnvironment
    NoSeedIsLost
