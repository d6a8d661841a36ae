--------------------------- MODULE MetricsCollection ---------------------------
(***************************************************************************)
(* GarbageCollectMetrics (pkg/controller/garbage_collector.go), composed   *)
(* with what stores the owners of metrics and writes metrics: RefMetrics,  *)
(* EnvironmentMetrics and RunnerMetrics.  They share the metrics table and *)
(* GitLab, whose calls may fail.                                           *)
(*                                                                         *)
(* Each behaviour is of one scenario: a ref, an environment or a runner    *)
(* with its settings.                                                      *)
(***************************************************************************)
EXTENDS RefMetrics, EnvironmentMetrics, RunnerMetrics

CONSTANT Scenarios   \* sets of settings

ASSUME ScenariosAssumption ==
    Scenarios \subseteq [refs : RefSettings, environments : EnvSettings, runners : RunnerSettings,
                         metrics : BOOLEAN, failures : Nat]

VARIABLES
    scheduled,      \* whether the collection of metrics is
    metricsSweep    \* the collection of metrics

vars == <<metrics, failures, robbed, refVars, envVars, runnerVars, scheduled, metricsSweep>>

\* What a collection keeps of an owner.
Owner(x) == [stored |-> x.stored, sparse |-> x.sparse]
NoMetricsSweep == [stage |-> "idle", ref |-> Owner(NoRef), environment |-> Owner(NoEnvironment),
                   runner |-> Owner(NoRunner), todo |-> {}]

TypeOK ==
    /\ StoreTypeOK /\ RefTypeOK /\ EnvTypeOK /\ RunnerTypeOK
    /\ metricsSweep.stage \in {"idle", "reading", "deleting"}
    /\ \A m \in metricsSweep.todo : m.kind \in Kept

Init ==
    /\ \E scenario \in Scenarios :
          /\ settings = scenario.refs /\ envSettings = scenario.environments
          /\ runnerSettings = scenario.runners /\ scheduled = scenario.metrics
          /\ failures = scenario.failures
    /\ StoreInit /\ RefInit /\ EnvInit /\ RunnerInit
    /\ metricsSweep = NoMetricsSweep

-----------------------------------------------------------------------------
\* The collection of metrics.

ownerVars == <<failures, refVars, envVars, runnerVars, scheduled>>

\* Environments, runners and refs are read ...
CollectMetrics ==
    /\ scheduled /\ metricsSweep.stage = "idle"
    /\ metricsSweep' = [stage |-> "reading", ref |-> Owner(ref), environment |-> Owner(environment),
                        runner |-> Owner(runner), todo |-> {}]
    /\ UNCHANGED <<metrics, robbed, ownerVars>>

HasLabel(m, label) == label \in DOMAIN m.labels

\* A metric of no ref, environment or runner.
Orphan(m) ==
    /\ ~HasLabel(m, "runner_id")
    /\ ~HasLabel(m, "project") \/ (~HasLabel(m, "ref") /\ ~HasLabel(m, "environment"))

\* JobQueuedDurationSeconds is not among the kinds deleted with jobs disabled.
RefMetricCollected(m) ==
    /\ HasLabel(m, "ref") /\ ~HasLabel(m, "environment")
    /\ \/ ~metricsSweep.ref.stored
       \/ m.kind \in JobKinds \ {"JobQueuedDurationSeconds"} /\ ~settings.jobs
       \/ m.kind \in {"JobStatus", "Status"} /\ metricsSweep.ref.sparse /\ m.value # 1

RunnerMetricCollected(m) ==
    /\ HasLabel(m, "runner_id")
    /\ ~metricsSweep.runner.stored \/ (m.kind = "Runner" /\ metricsSweep.runner.sparse /\ m.value # 1)

EnvironmentMetricCollected(m) ==
    /\ HasLabel(m, "environment")
    /\ \/ ~metricsSweep.environment.stored
       \/ m.kind = "EnvironmentDeploymentStatus" /\ metricsSweep.environment.sparse /\ m.value # 1

\* Mutant: the metrics of environments are taken for those of refs.
CollectedWithoutEnvironments(m) == Orphan(m) \/ RefMetricCollected(m) \/ RunnerMetricCollected(m)

Collected(m) ==
    Orphan(m) \/ RefMetricCollected(m) \/ RunnerMetricCollected(m) \/ EnvironmentMetricCollected(m)

\* ... then the metrics, and each is judged by what was read ...
ReadMetrics ==
    /\ metricsSweep.stage = "reading"
    /\ LET todo == {m \in metrics : Collected(m)} IN
          metricsSweep' = IF todo = {} THEN NoMetricsSweep
                          ELSE [metricsSweep EXCEPT !.stage = "deleting", !.todo = todo]
    /\ UNCHANGED <<metrics, robbed, ownerVars>>

\* What is deleted was judged to have no owner and has one by now, or to be of a
\* status that is not set and is by now.
Robs(m) ==
    \E x \in metrics :
        /\ x.kind = m.kind /\ Key(x) = Key(m)
        /\ \/ x # m
           \/ HasLabel(m, "environment") /\ ~metricsSweep.environment.stored /\ environment.stored
           \/ HasLabel(m, "runner_id") /\ ~metricsSweep.runner.stored /\ runner.stored
           \/ HasLabel(m, "ref") /\ ~HasLabel(m, "environment") /\ ~metricsSweep.ref.stored /\ ref.stored

\* ... and deleted, one by one in any order, whatever they have become.
DeleteMetric(m) ==
    /\ metricsSweep.stage = "deleting"
    /\ m \in metricsSweep.todo
    /\ metricsSweep' = IF metricsSweep.todo = {m} THEN NoMetricsSweep
                       ELSE [metricsSweep EXCEPT !.todo = @ \ {m}]
    /\ metrics' = DelMetrics(metrics, {m})
    /\ robbed' = (robbed \/ Robs(m))
    /\ UNCHANGED ownerVars

MetricsSweepStep ==
    CollectMetrics \/ ReadMetrics \/ \E m \in metricsSweep.todo : DeleteMetric(m)

sweepState == <<robbed, scheduled, metricsSweep>>

Next ==
    \/ settings.refs /\ RefStep /\ UNCHANGED <<envVars, runnerVars, sweepState>>
    \/ EnvStep /\ UNCHANGED <<refVars, runnerVars, sweepState>>
    \/ RunnerStep /\ UNCHANGED <<refVars, envVars, sweepState>>
    \/ MetricsSweepStep

Spec == Init /\ [][Next]_vars

\* Pulls and collections are scheduled again and again, and each task runs on: the
\* queue and its workers are modelled in LocalTaskQueue.
FairSpec ==
    /\ Spec
    /\ WF_vars(settings.refs /\ UNCHANGED <<envVars, runnerVars, sweepState>> /\ RefPullStep)
    /\ WF_vars(settings.refs /\ UNCHANGED <<metrics, failures, envVars, runnerVars, sweepState>>
                 /\ DiscoverRef)
    /\ WF_vars(envSettings.environments /\ UNCHANGED <<refVars, runnerVars, sweepState>>
                 /\ EnvPullStep)
    /\ WF_vars(runnerSettings.runners /\ UNCHANGED <<refVars, envVars, sweepState>>
                 /\ RunnerPullStep)
    /\ WF_vars(MetricsSweepStep)

-----------------------------------------------------------------------------
\* Properties.

\* A collection of environments or runners deletes none that it found when it began
\* and that was wanted ever since (garbage_collector.go:165, :390).
CollectionSparesListed == [][EnvSpared /\ RunnerSpared]_<<environment, runner>>

\* The metrics of what stays in the store come to say what GitLab says, and those
\* of what is gone for good are gone, if they are collected (garbage_collector.go:417).
MetricsFollow ==
    /\ <>[](settings.refs /\ ref.stored) => <>[]RefMetricsCurrent
    /\ <>[](envSettings.environments /\ environment.stored) => <>[]EnvMetricsCurrent
    /\ <>[](runnerSettings.runners /\ runner.stored /\ gitlabRunner.exists) => []<>RunnerMetricsCurrent
    /\ <>[](scheduled /\ ~ref.stored /\ ~environment.stored /\ ~runner.stored) => <>[](metrics = {})
=============================================================================
