\* Selection on every graph of three nodes; every mix of the options on the
\* acyclic ones; levels of up to five nodes, up to three workers or the heuristic.
SPECIFICATION MCSpec
CONSTANTS
    RegistryNodes <- MCNodes
    All = All
    Absent = Absent
    Graphs <- AllGraphs
    Snapshots <- Singletons3
    Selects <- SelectsAndAll
    Excludes <- Subsets
    Changes <- ChangesSome
    Rebuilds = {FALSE, TRUE}
    RebuildOnlys <- UpToTwoTokens
    AutoJobs = AutoJobs
    Cpus = 3
    MaxNames = 5
    MaxDuration = 3
    JobValues = {AutoJobs, 0, 1, 2, 3}
    Engines = {"DUCK", "BQ", "SPK"}
INVARIANTS
    SelectionIsExact
    PlanIsInOrder
    LevelIsDealtOut
