----------------------------- MODULE RunnerMetrics -----------------------------
(***************************************************************************)
(* One runner of a project: its discovery, its metrics and its collection  *)
(* (pkg/controller/runners.go, garbage_collector.go).                      *)
(*                                                                         *)
(* What GitLab says of a runner, its tags among it, is a revision of it;   *)
(* "status" stands for the labels of its information that say which one.   *)
(* Groups and projects are exported as tags are.                           *)
(***************************************************************************)
EXTENDS MetricStore

CONSTANTS Tags,             \* Tags[n]: the tags of the runner in revision n
          MaxRunnerChanges  \* bound on removals and changes of the configuration

ASSUME TagsAssumption == Len(Tags) \in Nat \ {0}
ASSUME RunnerChangesAssumption == MaxRunnerChanges \in Nat
\* The code keeps every kind.
ASSUME RunnerKindsAssumption ==
    "Runner" \in Kept => "RunnerTagInfo" \in Kept /\ "RunnerContactedAtSeconds" \in Kept

VARIABLES
    runnerSettings,   \* whether runners are pulled and collected; the project's
                      \* regexp and sparse flag; whether Redis has kept the runner;
                      \* bound: whether it is revised
    runnersPulled,    \* the project is stored and pulls runners
    gitlabRunner,     \* GitLab: the runner
    runner,           \* the runner in the store
    runnerPull,       \* the metrics pull of the runner
    runnerDiscovery,  \* the pull of the project's runners
    runnerSweep,      \* the collection of runners
    runnerChanges,    \* how often it was removed or reconfigured
    runnerDeleted     \* history: the runner was deleted from the store

\* What they may be.
RunnerSettings ==
    [runners : BOOLEAN, described : BOOLEAN, sparse : BOOLEAN, collected : BOOLEAN, leftover : BOOLEAN,
     revised : BOOLEAN]

gitlabRunnerVars == <<runnerSettings, runnersPulled, gitlabRunner, runnerChanges>>
runnerVars == <<gitlabRunnerVars, runner, runnerPull, runnerDiscovery, runnerSweep, runnerDeleted>>

NoRunner == [stored |-> FALSE, sparse |-> FALSE, revision |-> 0]
NoRunnerTask == [stage |-> "idle", copy |-> NoRunner]
NoRunnerPull == [stage |-> "idle", copy |-> NoRunner, todo |-> {}, tags |-> {}]
NoRunnerSweep == [stage |-> "idle", copy |-> NoRunner, listed |-> FALSE, wanted |-> FALSE]

\* GetProjectRunners matches the name, which here always matches;
\* GarbageCollectRunners matches the description.
RunnerWanted == gitlabRunner.exists /\ runnersPulled /\ runnerSettings.described

RunnerTypeOK ==
    /\ gitlabRunner.revision \in 1..Len(Tags)
    /\ runner.revision \in 0..gitlabRunner.revision
    /\ runnerPull.stage \in {"idle", "queued", "listing", "deleting", "informing", "contacting",
                            "tagging"}
    /\ \A m \in runnerPull.todo : m.kind \in Kept
    /\ runnerDiscovery.stage \in {"idle", "exists", "updating", "storing"}
    /\ runnerSweep.stage \in {"idle", "checking", "listing", "sweeping"}
    /\ runnerChanges \in 0..MaxRunnerChanges

\* Redis keeps the runner that a former process stored, with another flag.
RunnerInit ==
    /\ runnersPulled = TRUE
    /\ gitlabRunner = [exists |-> TRUE, revision |-> 1]
    /\ runner = IF runnerSettings.leftover
                THEN [NoRunner EXCEPT !.stored = TRUE, !.revision = 1, !.sparse = ~runnerSettings.sparse]
                ELSE NoRunner
    /\ runnerPull = NoRunnerPull
    /\ runnerDiscovery = NoRunnerTask
    /\ runnerSweep = NoRunnerSweep
    /\ runnerChanges = 0
    /\ runnerDeleted = FALSE

-----------------------------------------------------------------------------
\* GitLab, and the project in the store.

RunnerStays(stays) == runnerSweep' = [runnerSweep EXCEPT !.wanted = @ /\ stays]

\* Its tags or its state change.
ReviseRunner ==
    /\ runnerSettings.revised
    /\ gitlabRunner.exists /\ gitlabRunner.revision < Len(Tags)
    /\ gitlabRunner' = [gitlabRunner EXCEPT !.revision = @ + 1]
    /\ UNCHANGED <<runnerSettings, runnersPulled, runnerChanges, runner, runnerPull, runnerDiscovery,
                   runnerSweep, runnerDeleted>>

ChangeRunner ==
    /\ runnerChanges < MaxRunnerChanges
    /\ runnerChanges' = runnerChanges + 1
    /\ \/ /\ gitlabRunner' = [gitlabRunner EXCEPT !.exists = ~@]
          /\ UNCHANGED runnersPulled
       \/ /\ runnersPulled' = FALSE
          /\ UNCHANGED gitlabRunner
    /\ RunnerStays(gitlabRunner'.exists /\ runnersPulled')
    /\ UNCHANGED <<runnerSettings, runner, runnerPull, runnerDiscovery, runnerDeleted>>

-----------------------------------------------------------------------------
\* The store.

SetRunner(r) == runner' = [r EXCEPT !.stored = TRUE] /\ UNCHANGED runnerDeleted

DelRunner == runner' = NoRunner /\ runnerDeleted' = (runnerDeleted \/ runner.stored)

RunnerUnchanged == UNCHANGED <<runner, runnerDeleted>>

-----------------------------------------------------------------------------
\* The pull of the project's runners.

PullRunnersFromProject ==
    /\ runnerDiscovery.stage = "idle" /\ runnersPulled
    /\ \/ CallFails /\ UNCHANGED runnerDiscovery
       \/ /\ CallSucceeds /\ gitlabRunner.exists
          /\ runnerDiscovery' = [runnerDiscovery EXCEPT !.stage = "exists"]
    /\ RunnerUnchanged
    /\ UNCHANGED <<metrics, gitlabRunnerVars, runnerPull, runnerSweep>>

LookUpRunner ==
    /\ runnerDiscovery.stage = "exists"
    /\ runnerDiscovery' = IF runner.stored THEN NoRunnerTask
                          ELSE [stage |-> "updating",
                                copy |-> [NoRunner EXCEPT !.sparse = runnerSettings.sparse]]
    /\ RunnerUnchanged
    /\ UNCHANGED <<metrics, failures, gitlabRunnerVars, runnerPull, runnerSweep>>

\* A runner that GitLab does not have is an error.
GetRunner(task, next) ==
    \/ /\ CallFails \/ (~gitlabRunner.exists /\ UNCHANGED failures)
       /\ task' = [task EXCEPT !.stage = "idle", !.copy = NoRunner]
    \/ /\ CallSucceeds /\ gitlabRunner.exists
       /\ task' = [task EXCEPT !.stage = next, !.copy.revision = gitlabRunner.revision]

UpdateDiscoveredRunner ==
    /\ runnerDiscovery.stage = "updating"
    /\ GetRunner(runnerDiscovery, "storing")
    /\ RunnerUnchanged
    /\ UNCHANGED <<metrics, gitlabRunnerVars, runnerPull, runnerSweep>>

StoreDiscoveredRunner ==
    /\ runnerDiscovery.stage = "storing"
    /\ SetRunner(runnerDiscovery.copy)
    /\ runnerPull' = IF runnerPull.stage = "idle"
                     THEN [runnerPull EXCEPT !.stage = "queued", !.copy = runnerDiscovery.copy]
                     ELSE runnerPull
    /\ runnerDiscovery' = NoRunnerTask
    /\ UNCHANGED <<metrics, failures, gitlabRunnerVars, runnerSweep>>

-----------------------------------------------------------------------------
\* The metrics pull.

ScheduleRunnerMetrics ==
    /\ runner.stored /\ runnerPull.stage = "idle"
    /\ runnerPull' = [runnerPull EXCEPT !.stage = "queued", !.copy = runner]
    /\ RunnerUnchanged
    /\ UNCHANGED <<metrics, failures, gitlabRunnerVars, runnerDiscovery, runnerSweep>>

\* The copy is not refreshed: a runner deleted since is stored again.
UpdateRunner ==
    /\ runnerPull.stage = "queued"
    /\ GetRunner(runnerPull, "listing")
    /\ IF runnerPull'.stage = "listing" THEN SetRunner(runnerPull'.copy) ELSE RunnerUnchanged
    /\ UNCHANGED <<metrics, gitlabRunnerVars, runnerDiscovery, runnerSweep>>

runnerPullVars == <<failures, gitlabRunnerVars, runnerDiscovery, runnerSweep>>

\* What is left to be deleted; nothing is: the metrics are written.
Deleting(todo) ==
    [runnerPull EXCEPT !.stage = IF todo = {} THEN "informing" ELSE "deleting", !.todo = todo]

\* Mutant: the tags of the runner are left alone.
ListRunnerInfo ==
    /\ runnerPull.stage = "listing"
    /\ runnerPull' = Deleting({m \in metrics : m.kind \in {"Runner", "RunnerContactedAtSeconds"}})
    /\ RunnerUnchanged
    /\ UNCHANGED <<metrics, runnerPullVars>>

\* The metrics of the last pull ...
ListRunnerMetrics ==
    /\ runnerPull.stage = "listing"
    /\ runnerPull' = Deleting({m \in metrics : LabelOf(m, "runner_id") = "1" /\ m.kind \in RunnerKinds})
    /\ RunnerUnchanged
    /\ UNCHANGED <<metrics, runnerPullVars>>

\* ... are deleted one by one, in any order.
DeleteRunnerMetric(m) ==
    /\ runnerPull.stage = "deleting"
    /\ m \in runnerPull.todo
    /\ metrics' = DelMetrics(metrics, {m})
    /\ runnerPull' = Deleting(runnerPull.todo \ {m})
    /\ RunnerUnchanged
    /\ UNCHANGED runnerPullVars

WriteRunner ==
    /\ runnerPull.stage = "informing"
    /\ LET info == [runner_id |-> "1", runner_name |-> "n", runner_description |-> "d",
                    is_shared |-> FALSE, runner_type |-> "t", online |-> TRUE, active |-> TRUE,
                    paused |-> FALSE, status |-> runnerPull.copy.revision, runner_maintenance_note |-> ""]
       IN metrics' = SetMetrics(metrics, {Metric("Runner", info, 1)})
    /\ runnerPull' = [runnerPull EXCEPT !.stage = "contacting"]
    /\ RunnerUnchanged
    /\ UNCHANGED runnerPullVars

\* The runner has been in contact since its second revision.
WriteContact ==
    /\ runnerPull.stage = "contacting"
    /\ metrics' = SetMetrics(metrics,
           {Metric("RunnerContactedAtSeconds", [runner_id |-> "1"], n) : n \in {runnerPull.copy.revision} \ {1}}
             \cup {Metric("RunnerProjectInfo", [runner_id |-> "1", project |-> "p"], 1)})
    /\ runnerPull' = [runnerPull EXCEPT !.stage = "tagging", !.tags = Tags[runnerPull.copy.revision]]
    /\ RunnerUnchanged
    /\ UNCHANGED runnerPullVars

\* One by one; the code sorts them.
WriteTag(t) ==
    /\ runnerPull.stage = "tagging"
    /\ t \in runnerPull.tags
    /\ metrics' = SetMetrics(metrics, {Metric("RunnerTagInfo", [runner_id |-> "1", tag |-> t], 1)})
    /\ runnerPull' = [runnerPull EXCEPT !.tags = @ \ {t}]
    /\ RunnerUnchanged
    /\ UNCHANGED runnerPullVars

WriteGroups ==
    /\ runnerPull.stage = "tagging"
    /\ runnerPull.tags = {}
    /\ metrics' = SetMetrics(metrics, {Metric("RunnerGroupInfo", [runner_id |-> "1", group |-> "g"], 1)})
    /\ runnerPull' = NoRunnerPull
    /\ RunnerUnchanged
    /\ UNCHANGED runnerPullVars

-----------------------------------------------------------------------------
\* The collection of runners.

runnerSweepVars == <<metrics, gitlabRunnerVars, runnerPull, runnerDiscovery>>

CollectRunners ==
    /\ runnerSettings.collected /\ runnerSweep.stage = "idle"
    /\ runnerSweep' = [stage |-> IF runner.stored THEN "checking" ELSE "sweeping",
                       copy |-> runner, listed |-> FALSE, wanted |-> RunnerWanted]
    /\ RunnerUnchanged
    /\ UNCHANGED <<failures, runnerSweepVars>>

\* The project's runners are listed even if this one's description does not match.
CheckRunner ==
    /\ runnerSweep.stage = "checking"
    /\ runnerSweep' = [runnerSweep EXCEPT !.stage = IF runnersPulled THEN "listing" ELSE "sweeping"]
    /\ IF ~runnersPulled \/ ~runnerSettings.described THEN DelRunner
       ELSE IF runnerSweep.copy.sparse # runnerSettings.sparse
            THEN SetRunner([runnerSweep.copy EXCEPT !.sparse = runnerSettings.sparse])
       ELSE RunnerUnchanged
    /\ UNCHANGED <<failures, runnerSweepVars>>

ListRunners ==
    /\ runnerSweep.stage = "listing"
    /\ \/ CallFails /\ runnerSweep' = NoRunnerSweep
       \/ /\ CallSucceeds
          /\ runnerSweep' = [runnerSweep EXCEPT !.stage = "sweeping", !.listed = gitlabRunner.exists]
    /\ RunnerUnchanged
    /\ UNCHANGED runnerSweepVars

SweepRunners ==
    /\ runnerSweep.stage = "sweeping"
    /\ runnerSweep' = NoRunnerSweep
    /\ IF runner.stored /\ ~runnerSweep.listed THEN DelRunner ELSE RunnerUnchanged
    /\ UNCHANGED <<failures, runnerSweepVars>>

RunnerDiscoveryStep ==
    \/ PullRunnersFromProject \/ LookUpRunner \/ UpdateDiscoveredRunner \/ StoreDiscoveredRunner

RunnerPullStep ==
    \/ ScheduleRunnerMetrics \/ UpdateRunner \/ ListRunnerMetrics
    \/ \E m \in runnerPull.todo : DeleteRunnerMetric(m)
    \/ WriteRunner \/ WriteContact \/ (\E t \in runnerPull.tags : WriteTag(t)) \/ WriteGroups

RunnerSweepStep == CollectRunners \/ CheckRunner \/ ListRunners \/ SweepRunners

RunnerStep ==
    /\ runnerSettings.runners
    /\ \/ RunnerDiscoveryStep \/ RunnerPullStep \/ RunnerSweepStep
       \/ (ReviseRunner \/ ChangeRunner) /\ UNCHANGED <<metrics, failures>>

-----------------------------------------------------------------------------
\* Properties.

OfRunner(kind) == {m \in metrics : m.kind = kind}

\* What the metrics say of a runner.
StatusesSaid == {m.labels.status : m \in OfRunner("Runner")}
TagsSaid == {m.labels.tag : m \in OfRunner("RunnerTagInfo")}
ContactsSaid == {m.value : m \in OfRunner("RunnerContactedAtSeconds")}

\* "so the store only contains the latest snapshot" (runners.go:187): whenever the
\* metrics are exported, none of a runner's information, its last contact and its
\* tags is of another revision than the others, although they are deleted and written
\* one by one; and between the pulls of a runner that stays in the store they are all
\* there.  While a pull deletes or writes some may be missing.
RunnerOfOneSnapshot ==
    /\ \E n \in 1..Len(Tags) :
          StatusesSaid \subseteq {n} /\ TagsSaid \subseteq Tags[n] /\ ContactsSaid \subseteq {n} \ {1}
    /\ runnerPull.stage \in {"idle", "queued", "listing"} /\ ~runnerDeleted /\ ~robbed =>
          \A n \in StatusesSaid : TagsSaid = Tags[n] /\ ContactsSaid = {n} \ {1}

\* A collection deletes no runner that was stored when it began and that was
\* wanted and listed ever since (garbage_collector.go:390).
RunnerSpared ==
    runnerSweep.copy.stored /\ runnerSweep.wanted /\ runner.stored => runner'.stored

RunnerMetricsCurrent ==
    /\ \E info \in OfRunner("Runner") : info.labels.status = gitlabRunner.revision
    /\ {m.labels.tag : m \in OfRunner("RunnerTagInfo")} = Tags[gitlabRunner.revision]
=============================================================================
