-------------------------- MODULE MCMetricsCollection --------------------------
\* An instance of MetricsCollection for TLC.
EXTENDS MetricsCollection

\* Of kinds that are written and deleted together one is kept.
MCKept == {"RunCount", "Status", "JobRunCount", "JobStatus", "TestCaseStatus",
           "EnvironmentBehindCommitsCount", "EnvironmentDeploymentCount",
           "EnvironmentDeploymentStatus", "EnvironmentInformation",
           "Runner", "RunnerContactedAtSeconds", "RunnerTagInfo"}

MCTags == <<{"a"}, {"b"}>>

NoRefs == [refs |-> FALSE, kind |-> "branch", merged |-> FALSE, perRef |-> 1,
           jobs |-> FALSE, tests |-> FALSE, variables |-> FALSE, sparse |-> TRUE, pipelines |-> 2,
           dropped |-> FALSE, rewritten |-> FALSE, retries |-> FALSE]
NoEnvironments == [environments |-> FALSE, sparse |-> TRUE, collected |-> FALSE, webhook |-> FALSE,
                   leftover |-> FALSE, deployed |-> FALSE, deployments |-> 1, commits |-> 1]
NoRunners == [runners |-> FALSE, described |-> TRUE, sparse |-> TRUE, collected |-> FALSE,
              leftover |-> FALSE, revised |-> TRUE]

Nothing == [refs |-> NoRefs, environments |-> NoEnvironments, runners |-> NoRunners,
            metrics |-> FALSE, failures |-> 1]
Refs == [NoRefs EXCEPT !.refs = TRUE]
Environments == [NoEnvironments EXCEPT !.environments = TRUE]
Runners == [NoRunners EXCEPT !.runners = TRUE, !.collected = TRUE]

MCScenarios ==
    {\* Jobs are played, fail and are retried; a new pipeline has a job of the same name.
     [Nothing EXCEPT !.refs = [Refs EXCEPT !.jobs = TRUE, !.pipelines = 1, !.retries = TRUE]],
     [Nothing EXCEPT !.refs = [Refs EXCEPT !.jobs = TRUE]],
     \* The ref is dropped or written back, and its metrics collected.
     [Nothing EXCEPT !.refs = [Refs EXCEPT !.rewritten = TRUE, !.pipelines = 1, !.sparse = FALSE],
                     !.failures = 0, !.metrics = TRUE],
     [Nothing EXCEPT !.refs = [Refs EXCEPT !.dropped = TRUE, !.pipelines = 1],
                     !.failures = 0, !.metrics = TRUE],
     [Nothing EXCEPT !.refs = [Refs EXCEPT !.jobs = TRUE, !.pipelines = 1, !.dropped = TRUE, !.rewritten = TRUE,
                                           !.sparse = FALSE],
                     !.failures = 0],
     [Nothing EXCEPT !.refs = [Refs EXCEPT !.jobs = TRUE, !.pipelines = 1],
                     !.failures = 0, !.metrics = TRUE],
     \* Several pipelines; variables and test reports.
     [Nothing EXCEPT !.refs = [Refs EXCEPT !.perRef = 2]],
     [Nothing EXCEPT !.refs = [Refs EXCEPT !.kind = "merge-request", !.merged = TRUE, !.perRef = 2,
                                           !.variables = TRUE, !.tests = TRUE]],
     \* Deployments and commits; the collection of environments, and of their metrics.
     [Nothing EXCEPT !.environments = [Environments EXCEPT !.webhook = TRUE, !.deployments = 2]],
     [Nothing EXCEPT !.environments = [Environments EXCEPT !.deployments = 2, !.commits = 2],
                     !.failures = 0],
     [Nothing EXCEPT !.environments = [Environments EXCEPT !.collected = TRUE, !.leftover = TRUE,
                                                           !.deployments = 0]],
     [Nothing EXCEPT !.environments = [Environments EXCEPT !.deployed = TRUE, !.commits = 2],
                     !.metrics = TRUE, !.failures = 0],
     [Nothing EXCEPT !.environments = [Environments EXCEPT !.collected = TRUE, !.deployed = TRUE],
                     !.metrics = TRUE, !.failures = 0],
     \* The collection of runners, and of their metrics.
     [Nothing EXCEPT !.runners = [Runners EXCEPT !.leftover = TRUE, !.revised = FALSE]],
     [Nothing EXCEPT !.runners = [Runners EXCEPT !.described = FALSE, !.revised = FALSE]],
     [Nothing EXCEPT !.runners = [Runners EXCEPT !.collected = FALSE], !.metrics = TRUE, !.failures = 0],
     [Nothing EXCEPT !.runners = [Runners EXCEPT !.revised = FALSE], !.metrics = TRUE, !.failures = 0]}

\* A job that fails.
MCFailingJob == {[Nothing EXCEPT !.refs = [Refs EXCEPT !.jobs = TRUE, !.pipelines = 1], !.failures = 0]}
=============================================================================
