\* Each scenario bounds its pipelines, deployments, commits and failing calls.
CHECK_DEADLOCK FALSE
SPECIFICATION FairSpec
CONSTANTS
    Kept <- MCKept
    MaxRuns = 2
    MaxDrops = 1
    MaxEnvChanges = 1
    Tags <- MCTags
    MaxRunnerChanges = 1
    Scenarios <- MCScenarios
INVARIANTS
    TypeOK
    
    RunsCountedOnce
    DeploymentsCounted
    BehindExact
    RunnerOfOneSnapshot
PROPERTIES
    CollectionSparesListed
    MetricsFollow
