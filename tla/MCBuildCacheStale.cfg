SPECIFICATION CacheSpec
CONSTANTS
  Nodes = {1, 2}
  Deps <- Pair
  Versions = {1, 2}
PROPERTY SkipIsFresh
