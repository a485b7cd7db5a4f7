SPECIFICATION Spec
CONSTANTS
  k1 = k1  k2 = k2
  Keys <- MCKeys
  MaxUpd = 3
  Copies = 2
  Engines = {"duckdb", "postgres", "delta", "spark", "python"}
  Parallel = {FALSE, TRUE}
  Configs <- MCConfigs
SYMMETRY Symmetry
INVARIANTS
    KeysStayUnique
    NothingLostForGood
    SuccessIsCurrent
    AppendsOnce
