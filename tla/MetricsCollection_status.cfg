\* A finding: a job that ran and failed has two statuses that are 1.
\* The scenario bounds its pipelines, deployments, commits and failing calls.
CHECK_DEADLOCK FALSE
SPECIFICATION Spec
CONSTANTS
    Kept <- MCKept
    MaxRuns = 2
    MaxDrops = 1
    MaxEnvChanges = 1
    Tags <- MCTags
    MaxRunnerChanges = 1
    Scenarios <- MCFailingJob
INVARIANT OneStatusEach
