SPECIFICATION CacheSpec
CONSTANTS
  Nodes = {1, 2}
  Deps <- Pair
  Versions = {1, 2}
INVARIANTS
    CacheTellsRelation
PROPERTIES
    TrustedSkipIsFresh
    OnlySuccessPersists
