--------------------------- MODULE EnvironmentMetrics ---------------------------
(***************************************************************************)
(* One environment of a project: its discovery, its metrics, the events of *)
(* its deployments and its collection (pkg/controller/environments.go,     *)
(* webhooks.go, garbage_collector.go).                                     *)
(*                                                                         *)
(* Commits are numbered: the deployed one is "commit", "head" is the       *)
(* latest of the branch, or of the tags, that it was deployed from.        *)
(***************************************************************************)
EXTENDS MetricStore

CONSTANT MaxEnvChanges     \* bound on stops, deletions and changes of the configuration

\* The code keeps every kind.
ASSUME EnvironmentKindsAssumption ==
    "EnvironmentInformation" \in Kept => "EnvironmentBehindCommitsCount" \in Kept

VARIABLES
    envSettings,   \* whether environments are pulled and collected, and events received;
                   \* the project's sparse flag; whether Redis has kept the environment;
                   \* whether GitLab had it deployed, and commits made, before;
                   \* bounds: of the deployments and commits
    configured,    \* the project is stored, pulls environments, and its regexp matches
    gitlabEnv,     \* GitLab: the environment, its last deployment, the head of its ref
    environment,   \* the environment in the store
    envPull,       \* the metrics pull of the environment
    discovery,     \* the pull of the project's environments
    event,         \* a deployment event being processed
    envSweep,      \* the collection of environments
    envChanges,    \* how often it was stopped, deleted or reconfigured
    deployments,   \* history: the deployments the stored environment has had
    uncounted,     \* history: pulls that stored a deployment and failed then
    replaced       \* history: the stored environment was deleted, or written back older

\* What they may be.
EnvSettings ==
    {s \in [environments : BOOLEAN, sparse : BOOLEAN, collected : BOOLEAN, webhook : BOOLEAN,
            leftover : BOOLEAN, deployed : BOOLEAN, deployments : Nat, commits : Nat \ {0}] :
        s.deployed => s.deployments > 0}

envVars == <<envSettings, configured, gitlabEnv, environment, envPull, discovery, event, envSweep,
             envChanges, deployments, uncounted, replaced>>
otherTasks == <<discovery, event, envSweep>>
gitlabEnvVars == <<envSettings, configured, gitlabEnv, envChanges>>

NoDeployment == [job |-> 0, status |-> "", commit |-> 0]
NoEnvironment == [stored |-> FALSE, id |-> 0, sparse |-> FALSE, latest |-> NoDeployment]
NoEnvPull == [stage |-> "idle", copy |-> NoEnvironment, former |-> 0, head |-> 0, behind |-> 0, count |-> 0]
NoSweep == [stage |-> "idle", copy |-> NoEnvironment, listed |-> FALSE, wanted |-> FALSE]

\* Listed by GetProjectEnvironments: exclude_stopped is its default.
EnvListed == gitlabEnv.state = "available"
EnvWanted == EnvListed /\ configured

EnvTypeOK ==
    /\ gitlabEnv.state \in {"none", "available", "stopped"}
    /\ gitlabEnv.latest.commit <= gitlabEnv.head /\ gitlabEnv.head <= envSettings.commits
    /\ environment.stored => environment.id = 1
    /\ environment.latest.job \in 0..gitlabEnv.latest.job
    /\ envPull.stage \in {"idle", "queued", "updating", "reading", "comparing",
                         "reusing", "counting", "writing", "deploying", "informing"}
    /\ discovery.stage \in {"idle", "exists", "updating", "storing"}
    /\ event \in {"none", "received"}
    /\ envSweep.stage \in {"idle", "checking", "listing", "sweeping"}
    /\ deployments \subseteq 0..envSettings.deployments

\* Redis keeps the environment that a former process stored, whose project had
\* another flag.
EnvInit ==
    /\ configured = TRUE
    /\ gitlabEnv = IF envSettings.deployed
                   THEN [state |-> "available", head |-> envSettings.commits,
                         latest |-> [job |-> 1, status |-> "blocked", commit |-> 1]]
                   ELSE [state |-> "none", latest |-> NoDeployment, head |-> 1]
    /\ environment = IF envSettings.leftover
                     THEN [NoEnvironment EXCEPT !.stored = TRUE, !.id = 1, !.sparse = ~envSettings.sparse]
                     ELSE NoEnvironment
    /\ envPull = NoEnvPull
    /\ discovery = NoEnvPull
    /\ event = "none"
    /\ envSweep = NoSweep
    /\ envChanges = 0
    /\ deployments = IF envSettings.leftover THEN {0} ELSE {}
    /\ uncounted = 0
    /\ replaced = FALSE

-----------------------------------------------------------------------------
\* GitLab, and the project in the store.

historyOfEnv == <<deployments, uncounted, replaced>>

StillWanted(wanted) == envSweep' = [envSweep EXCEPT !.wanted = @ /\ wanted]

ChangeState ==
    /\ envSettings.environments
    /\ \/ gitlabEnv.state = "none" /\ gitlabEnv' = [gitlabEnv EXCEPT !.state = "available"]
                                   /\ UNCHANGED envChanges
       \/ /\ gitlabEnv.state # "none" /\ envChanges < MaxEnvChanges
          /\ envChanges' = envChanges + 1
          /\ \E state \in {"available", "stopped"} \ {gitlabEnv.state} :
                gitlabEnv' = [gitlabEnv EXCEPT !.state = state]
    /\ StillWanted(gitlabEnv'.state = "available")
    /\ UNCHANGED <<envSettings, configured, environment, envPull, discovery, event, historyOfEnv>>

Commit ==
    /\ gitlabEnv.state = "available" /\ gitlabEnv.head < envSettings.commits
    /\ gitlabEnv' = [gitlabEnv EXCEPT !.head = @ + 1]
    /\ UNCHANGED <<envSettings, configured, environment, envPull, otherTasks, envChanges, historyOfEnv>>

\* Of the latest commit or of an earlier one.  GitLab sends an event, if the webhook is enabled.
Deploy ==
    /\ gitlabEnv.state = "available" /\ gitlabEnv.latest.job < envSettings.deployments
    /\ \E commit \in 1..gitlabEnv.head :
          gitlabEnv' = [gitlabEnv EXCEPT !.latest =
                           [job |-> @.job + 1, status |-> "running", commit |-> commit]]
    /\ event' = IF envSettings.webhook THEN "received" ELSE event
    /\ UNCHANGED <<envSettings, configured, environment, envPull, discovery, envSweep, envChanges,
                   historyOfEnv>>

EndDeployment ==
    /\ gitlabEnv.latest.status = "running"
    /\ gitlabEnv' = [gitlabEnv EXCEPT !.latest.status = "success"]
    /\ event' = IF envSettings.webhook THEN "received" ELSE event
    /\ UNCHANGED <<envSettings, configured, environment, envPull, discovery, envSweep, envChanges,
                   historyOfEnv>>

\* The project leaves the store, or is replaced by one that does not match.
Unconfigure ==
    /\ configured /\ envSettings.environments /\ envChanges < MaxEnvChanges
    /\ configured' = FALSE
    /\ envChanges' = envChanges + 1
    /\ StillWanted(FALSE)
    /\ UNCHANGED <<envSettings, gitlabEnv, environment, envPull, discovery, event, historyOfEnv>>

-----------------------------------------------------------------------------
\* The store.

SetEnvironment(env) ==
    /\ environment' = [env EXCEPT !.stored = TRUE]
    /\ deployments' = deployments \cup {env.latest.job}
    /\ replaced' = (replaced \/ env.latest.job < environment.latest.job)

DelEnvironment ==
    /\ environment' = NoEnvironment
    /\ replaced' = (replaced \/ environment.stored)
    /\ UNCHANGED deployments

EnvUnchanged == UNCHANGED <<environment, deployments, replaced>>

-----------------------------------------------------------------------------
\* The pull of the project's environments.

\* Scheduled for every stored project; one that pulls no environments returns.
PullEnvironmentsFromProject ==
    /\ discovery.stage = "idle" /\ configured
    /\ \/ CallFails /\ UNCHANGED discovery
       \/ /\ CallSucceeds /\ EnvListed
          /\ discovery' = [discovery EXCEPT !.stage = "exists"]
    /\ UNCHANGED <<metrics, environment, envPull, event, envSweep, gitlabEnvVars, historyOfEnv>>

LookUpEnvironment ==
    /\ discovery.stage = "exists"
    /\ discovery' = IF environment.stored THEN NoEnvPull
                    ELSE [discovery EXCEPT !.stage = "updating",
                                           !.copy = [NoEnvironment EXCEPT !.id = 1, !.sparse = envSettings.sparse]]
    /\ UNCHANGED <<metrics, failures, environment, envPull, event, envSweep, gitlabEnvVars, historyOfEnv>>

\* GetEnvironment: what GitLab knows of an environment with this id.
GetEnvironment(env) == [env EXCEPT !.latest = gitlabEnv.latest]

UpdateDiscovered ==
    /\ discovery.stage = "updating"
    /\ \/ CallFails /\ discovery' = NoEnvPull
       \/ /\ CallSucceeds
          /\ discovery' = [discovery EXCEPT !.stage = "storing", !.copy = GetEnvironment(@)]
    /\ UNCHANGED <<metrics, environment, envPull, event, envSweep, gitlabEnvVars, historyOfEnv>>

\* ScheduleTask: skipped if a metrics pull of the environment is queued or running.
Schedule(copy) == IF envPull.stage = "idle" THEN [NoEnvPull EXCEPT !.stage = "queued", !.copy = copy] ELSE envPull

StoreDiscovered ==
    /\ discovery.stage = "storing"
    /\ SetEnvironment(discovery.copy)
    /\ envPull' = Schedule(discovery.copy)
    /\ discovery' = NoEnvPull
    /\ UNCHANGED <<metrics, failures, event, envSweep, gitlabEnvVars, uncounted>>

-----------------------------------------------------------------------------
\* The metrics pull.

envPullVars == <<otherTasks, gitlabEnvVars>>

\* TaskHandlerPullMetrics.
ScheduleEnvironmentMetrics ==
    /\ environment.stored /\ envPull.stage = "idle"
    /\ envPull' = Schedule(environment)
    /\ EnvUnchanged
    /\ UNCHANGED <<metrics, failures, uncounted, envPullVars>>

\* A deployment event.  Of an environment that is not stored only the name is
\* known: GitLab is asked for the environment with id 0, and answers with an error.
ProcessDeploymentEvent ==
    /\ event = "received"
    /\ event' = "none"
    /\ envPull' = IF environment.stored THEN Schedule(environment) ELSE envPull
    /\ EnvUnchanged
    /\ UNCHANGED <<metrics, failures, uncounted, discovery, envSweep, gitlabEnvVars>>

\* An environment that has been deleted meanwhile is pulled all the same.
RefreshEnvironment ==
    /\ envPull.stage = "queued"
    /\ LET copy == IF environment.stored THEN environment ELSE envPull.copy IN
          envPull' = [envPull EXCEPT !.stage = "updating", !.copy = copy, !.former = copy.latest.job]
    /\ EnvUnchanged
    /\ UNCHANGED <<metrics, failures, uncounted, envPullVars>>

\* A copy's id is never 0: it comes from the store.
UpdateEnvironment ==
    /\ envPull.stage = "updating"
    /\ \/ /\ CallFails /\ envPull' = NoEnvPull /\ EnvUnchanged
       \/ /\ CallSucceeds
          /\ envPull' = [envPull EXCEPT !.stage = "reading", !.copy = GetEnvironment(@)]
          /\ SetEnvironment(GetEnvironment(envPull.copy))
    /\ UNCHANGED <<metrics, uncounted, envPullVars>>

\* A pull that has stored the environment fails: a new deployment stays uncounted.
PullFails ==
    /\ CallFails
    /\ envPull' = NoEnvPull
    /\ uncounted' = IF envPull.copy.latest.job > envPull.former THEN uncounted + 1 ELSE uncounted

\* The head of the branch, or the latest tag; without a deployment neither.
ReadHead ==
    /\ envPull.stage = "reading"
    /\ \/ /\ envPull.copy.latest.job # 0 /\ PullFails
       \/ /\ CallSucceeds
          /\ envPull' = [envPull EXCEPT !.stage = "comparing",
                            !.head = IF envPull.copy.latest.job = 0 THEN 0 ELSE gitlabEnv.head]
          /\ UNCHANGED uncounted
    /\ EnvUnchanged
    /\ UNCHANGED <<metrics, envPullVars>>

EnvironmentLabelsValues == [project |-> "p", environment |-> "e"]

\* Mutant: a new deployment is no reason to compare again.
ComparedHead(info) == info.value = 1 /\ info.labels.latest_commit_short_id = envPull.head

\* The two commits were compared by the pull that wrote the information last.
Compared(info) ==
    /\ info.value = 1
    /\ info.labels.latest_commit_short_id = envPull.head
    /\ info.labels.current_commit_short_id = envPull.copy.latest.commit

CompareCommits ==
    /\ envPull.stage = "comparing"
    /\ LET info == GetMetric(metrics, Metric("EnvironmentInformation", EnvironmentLabelsValues, 0))
       IN envPull' = [envPull EXCEPT
                         !.stage = IF envPull.head = envPull.copy.latest.commit THEN "writing"
                                   ELSE IF Compared(info) THEN "reusing" ELSE "counting",
                         !.behind = 0]
    /\ EnvUnchanged
    /\ UNCHANGED <<metrics, failures, uncounted, envPullVars>>

\* The number that was counted then, or 0 if its metric is gone.
ReuseBehind ==
    /\ envPull.stage = "reusing"
    /\ LET behind == GetMetric(metrics, Metric("EnvironmentBehindCommitsCount", EnvironmentLabelsValues, 0))
       IN envPull' = [envPull EXCEPT !.stage = "writing", !.behind = behind.value]
    /\ EnvUnchanged
    /\ UNCHANGED <<metrics, failures, uncounted, envPullVars>>

GetCommitCountBetweenRefs ==
    /\ envPull.stage = "counting"
    /\ \/ PullFails
       \/ /\ CallSucceeds
          /\ envPull' = [envPull EXCEPT !.stage = "writing", !.behind = envPull.head - envPull.copy.latest.commit]
          /\ UNCHANGED uncounted
    /\ EnvUnchanged
    /\ UNCHANGED <<metrics, envPullVars>>

InformationLabelsValues ==
    [project |-> "p", environment |-> "e",
     environment_id |-> envPull.copy.id, external_url |-> "", kind |-> "branch", ref |-> "r",
     current_commit_short_id |-> envPull.copy.latest.commit,
     latest_commit_short_id |-> envPull.head, available |-> TRUE, username |-> ""]

DeploymentStatusLabelsValues == [project |-> "p", environment |-> "e", status |-> ""]

\* Mutant: a deployment counts whenever it is pulled.
CountDeploymentAgain(former, latest) == latest.job > 0

\* A deployment is counted when its job is later than the stored one.
CountDeployment(former, latest) == latest.job > former

\* The number of commits is written first, and the former number of deployments read.
WriteBehind ==
    /\ envPull.stage = "writing"
    /\ metrics' = SetMetrics(metrics,
           {Metric("EnvironmentBehindCommitsCount", EnvironmentLabelsValues, envPull.behind)})
    /\ LET count == GetMetric(metrics, Metric("EnvironmentDeploymentCount", EnvironmentLabelsValues, 0))
       IN envPull' = [envPull EXCEPT !.stage = "deploying", !.count = count.value]
    /\ EnvUnchanged
    /\ UNCHANGED <<failures, uncounted, envPullVars>>

\* What is written of the deployment is one step: a collection deletes it metric by metric.
WriteDeployment ==
    /\ envPull.stage = "deploying"
    /\ LET labels == EnvironmentLabelsValues
           latest == envPull.copy.latest
           new == IF CountDeployment(envPull.former, latest) THEN envPull.count + 1 ELSE envPull.count
           written == SetMetrics(metrics,
                          {Metric("EnvironmentDeploymentCount", labels, new)}
                            \cup Gauges({"EnvironmentBehindDurationSeconds", "EnvironmentDeploymentJobID",
                                         "EnvironmentDeploymentDurationSeconds",
                                         "EnvironmentDeploymentTimestamp"}, labels, latest.job))
       IN metrics' = EmitStatus(written, "EnvironmentDeploymentStatus", DeploymentStatusLabelsValues,
                                latest.status, envPull.copy.sparse)
    /\ envPull' = [envPull EXCEPT !.stage = "informing"]
    /\ EnvUnchanged
    /\ UNCHANGED <<failures, uncounted, envPullVars>>

\* The two commits are written last.
WriteInformation ==
    /\ envPull.stage = "informing"
    /\ metrics' = SetMetrics(metrics, {Metric("EnvironmentInformation", InformationLabelsValues, 1)})
    /\ envPull' = NoEnvPull
    /\ EnvUnchanged
    /\ UNCHANGED <<failures, uncounted, envPullVars>>

-----------------------------------------------------------------------------
\* The collection of environments.

sweepVars == <<metrics, gitlabEnvVars, envPull, discovery, event, uncounted>>

CollectEnvironments ==
    /\ envSettings.collected /\ envSweep.stage = "idle"
    /\ envSweep' = [stage |-> IF environment.stored THEN "checking" ELSE "sweeping",
                    copy |-> environment, listed |-> FALSE, wanted |-> EnvWanted]
    /\ EnvUnchanged
    /\ UNCHANGED <<failures, sweepVars>>

\* Deleted if its project is not stored, pulls no environments or does not match
\* (then the code goes on to list the project, where nothing matches either); written
\* back, as it was read, if the project's flag differs.
CheckEnvironment ==
    /\ envSweep.stage = "checking"
    /\ envSweep' = [envSweep EXCEPT !.stage = IF configured THEN "listing" ELSE "sweeping"]
    /\ IF ~configured THEN DelEnvironment
       ELSE IF envSweep.copy.sparse # envSettings.sparse
            THEN SetEnvironment([envSweep.copy EXCEPT !.sparse = envSettings.sparse])
       ELSE EnvUnchanged
    /\ UNCHANGED <<failures, sweepVars>>

\* Mutant: an error ends the listing and not the collection.
ListEnvironmentsOrNone ==
    /\ envSweep.stage = "listing"
    /\ \/ CallFails /\ envSweep' = [envSweep EXCEPT !.stage = "sweeping"]
       \/ CallSucceeds /\ envSweep' = [envSweep EXCEPT !.stage = "sweeping", !.listed = EnvListed]
    /\ EnvUnchanged
    /\ UNCHANGED sweepVars

\* Only the projects of the environments read first are listed.
ListEnvironments ==
    /\ envSweep.stage = "listing"
    /\ \/ CallFails /\ envSweep' = NoSweep
       \/ CallSucceeds /\ envSweep' = [envSweep EXCEPT !.stage = "sweeping", !.listed = EnvListed]
    /\ EnvUnchanged
    /\ UNCHANGED sweepVars

\* Environments are read again: those not listed are deleted.
SweepEnvironments ==
    /\ envSweep.stage = "sweeping"
    /\ envSweep' = NoSweep
    /\ IF environment.stored /\ ~envSweep.listed THEN DelEnvironment ELSE EnvUnchanged
    /\ UNCHANGED <<failures, sweepVars>>

EnvDiscoveryStep ==
    \/ PullEnvironmentsFromProject \/ LookUpEnvironment \/ UpdateDiscovered \/ StoreDiscovered

EnvPullStep ==
    \/ ScheduleEnvironmentMetrics \/ RefreshEnvironment \/ UpdateEnvironment \/ ReadHead
    \/ CompareCommits \/ ReuseBehind \/ GetCommitCountBetweenRefs
    \/ WriteBehind \/ WriteDeployment \/ WriteInformation

EnvSweepStep == CollectEnvironments \/ CheckEnvironment \/ ListEnvironments \/ SweepEnvironments

EnvOthers ==
    /\ ChangeState \/ Commit \/ Deploy \/ EndDeployment \/ Unconfigure
    /\ UNCHANGED <<metrics, failures>>

EnvStep ==
    \/ envSettings.environments /\ (EnvDiscoveryStep \/ EnvPullStep \/ EnvSweepStep \/ ProcessDeploymentEvent)
    \/ EnvOthers

-----------------------------------------------------------------------------
\* Properties.

OfEnvironment(kind) == {m \in metrics : m.kind = kind}

\* As long as the environment stays in the store and is not written back older,
\* every deployment it gets after the first is counted exactly once, but for those
\* whose pull failed once the environment was stored (environments.go:192).
DeploymentsCounted ==
    \A m \in OfEnvironment("EnvironmentDeploymentCount") :
        envPull.stage \in {"idle", "queued", "updating"} /\ ~replaced /\ ~robbed =>
            m.value + uncounted = Cardinality(deployments) - 1

\* The number of commits behind is stored with the two commits that it was counted
\* for, and is that of these two, but while a pull writes first the one and then the
\* other.  A collection that deletes metrics of an environment that is back in the
\* store, or will be, may take the number and leave the commits: then, and only then,
\* the number may be missing, and 0 from the next pull on, until a commit or a
\* deployment makes it count again (environments.go:153, :167).
BehindExact ==
    envPull.stage \notin {"deploying", "informing"} =>
        \A info \in OfEnvironment("EnvironmentInformation") :
            LET behind == {m.value : m \in OfEnvironment("EnvironmentBehindCommitsCount")}
                exact == info.labels.latest_commit_short_id - info.labels.current_commit_short_id
            IN behind = {exact} \/ ((robbed \/ replaced) /\ behind \subseteq {exact, 0})

\* A collection deletes no environment that was stored when it began and that was
\* configured and listed ever since (garbage_collector.go:165).
EnvSpared ==
    envSweep.copy.stored /\ envSweep.wanted /\ environment.stored => environment'.stored

EnvMetricsCurrent ==
    /\ \A info \in OfEnvironment("EnvironmentInformation") :
          info.labels.current_commit_short_id = gitlabEnv.latest.commit
    /\ gitlabEnv.latest.status \in statusesList =>
          \E m \in OfEnvironment("EnvironmentDeploymentStatus") :
              m.value = 1 /\ m.labels.status = gitlabEnv.latest.status
=============================================================================
