SPECIFICATION Spec
CONSTANTS
  k1 = k1  k2 = k2
  Keys <- MCKeys
  MaxUpd = 1
  Copies = 2
  Engines = {"duckdb"}
  Parallel = {TRUE}
  Configs <- MCConfigs
INVARIANT OwnFlagIsRendered
