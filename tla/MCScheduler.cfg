\* Every DAG of four nodes, one to three jobs, with and without durations; under
\* fairness, so that schedule() can be seen to return.
SPECIFICATION FairSpec
CONSTANTS
    Nodes <- MCNodes
    Plans <- MCPlans
    Jobs = {1, 2, 3}
    Durations <- SomeDurations
    Cpus = 4
    AutoJobs = AutoJobs
INVARIANTS
    EmptyFailedMeansBuilt
    ResultTellsWhatRan
PROPERTIES
    RefinesDagRun
    Returns
