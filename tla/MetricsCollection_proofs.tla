------------------------ MODULE MetricsCollection_proofs ------------------------
(***************************************************************************)
(* The invariants of MetricsCollection, for any settings, any number of    *)
(* pipelines, deployments, commits and failures.  First what holds of the  *)
(* metrics of an environment and of a runner, step by step as in           *)
(* RefMetrics_proofs; then of all three with the collection of metrics.    *)
(*                                                                         *)
(* CollectionInv is the inductive invariant.  A collection reads the       *)
(* owners once and deletes the metrics it has judged one by one: Judged    *)
(* says that those of the kinds that go with their owner had none when it  *)
(* was read.  If it has one again a deletion robs it, and what is counted  *)
(* is claimed no more; what is claimed of robbed metrics all the same      *)
(* (BehindInv, RunnerInv) survives the loss of any of them.                *)
(***************************************************************************)
EXTENDS MetricsCollection, RefMetrics_proofs

-----------------------------------------------------------------------------
\* Types.

Deployment == [job : Nat, status : {"", "blocked", "running", "success"}, commit : Nat]
Environment == [stored : BOOLEAN, id : {0, 1}, sparse : BOOLEAN, latest : Deployment]

EnvironmentPull ==
    [stage : {"idle", "queued", "updating", "reading", "comparing", "reusing", "counting", "writing",
              "deploying", "informing"},
     copy : Environment, former : Nat, head : Nat, behind : Nat, count : Nat]
Discovery ==
    [stage : {"idle", "exists", "updating", "storing"},
     copy : Environment, former : Nat, head : Nat, behind : Nat, count : Nat]
EnvironmentSweep ==
    [stage : {"idle", "checking", "listing", "sweeping"}, copy : Environment,
     listed : BOOLEAN, wanted : BOOLEAN]

EnvTyped ==
    /\ envSettings \in EnvSettings
    /\ configured \in BOOLEAN
    /\ gitlabEnv \in [state : {"none", "available", "stopped"}, latest : Deployment, head : Nat]
    /\ environment \in Environment
    /\ envPull \in EnvironmentPull
    /\ discovery \in Discovery
    /\ event \in {"none", "received"}
    /\ envSweep \in EnvironmentSweep
    /\ uncounted \in Nat
    /\ replaced \in BOOLEAN

\* What a copy of the environment says has been in GitLab.
Known(gitlab, latest) ==
    /\ latest.job <= gitlab.latest.job
    /\ latest.commit <= gitlab.head
    /\ latest.job = 0 => latest.commit = 0

\* The pull has read the head of the ref.
Headed(pull) == pull.stage \in {"comparing", "reusing", "counting", "writing", "deploying", "informing"}

EnvRelated ==
    /\ gitlabEnv.latest.commit <= gitlabEnv.head /\ gitlabEnv.head <= envSettings.commits
    /\ gitlabEnv.latest.job <= envSettings.deployments
    /\ gitlabEnv.latest.job = 0 => gitlabEnv.latest.commit = 0
    /\ Known(gitlabEnv, environment.latest) /\ Known(gitlabEnv, envPull.copy.latest)
    /\ Known(gitlabEnv, discovery.copy.latest) /\ Known(gitlabEnv, envSweep.copy.latest)
    /\ environment.stored => environment.id = 1
    /\ ~environment.stored => environment = NoEnvironment
    /\ envSweep.copy.stored => envSweep.copy.id = 1
    /\ envSweep.stage = "checking" => envSweep.copy.stored
    /\ envPull.stage # "idle" => envPull.copy.id = 1
    /\ discovery.stage \in {"updating", "storing"} => discovery.copy.id = 1
    /\ Headed(envPull) => envPull.copy.latest.commit <= envPull.head
    /\ deployments \subseteq 0..envSettings.deployments

\* The records environments begin with, and the fields of those they become.
LEMMA EnvironmentRecords ==
    /\ NoEnvironment \in Environment /\ ~NoEnvironment.stored /\ NoEnvironment.latest = NoDeployment
    /\ NoDeployment \in Deployment
    /\ \A env \in Environment :
          /\ env.stored \in BOOLEAN /\ env.id \in {0, 1} /\ env.sparse \in BOOLEAN /\ env.latest \in Deployment
          /\ \A v \in BOOLEAN : [env EXCEPT !.stored = v] \in Environment
          /\ \A v \in BOOLEAN : [env EXCEPT !.sparse = v] \in Environment
          /\ \A v \in Deployment : [env EXCEPT !.latest = v] \in Environment
  BY DEF Environment, NoEnvironment, NoDeployment, Deployment

\* Deployments.
LEMMA DeploymentRecords ==
    /\ \A job, commit \in Nat : [job |-> job, status |-> "running", commit |-> commit] \in Deployment
    /\ \A d \in Deployment : d.job \in Nat /\ d.commit \in Nat
    /\ \A d \in Deployment : [d EXCEPT !.status = "success"] \in Deployment
  BY DEF Deployment

\* The tasks of an environment when there are none.
LEMMA PullRecords ==
    /\ NoEnvPull \in EnvironmentPull /\ NoEnvPull \in Discovery
    /\ NoSweep \in EnvironmentSweep
  BY EnvironmentRecords DEF NoEnvPull, NoSweep, EnvironmentPull, Discovery, EnvironmentSweep

\* A pull whose commits have been compared.
LEMMA ComparedPulls ==
    ASSUME NEW pull \in EnvironmentPull, NEW n \in Nat
    PROVE  /\ \A stage \in {"reusing", "counting", "writing"} :
                 [pull EXCEPT !.stage = stage, !.behind = n] \in EnvironmentPull
           /\ [pull EXCEPT !.stage = "deploying", !.count = n] \in EnvironmentPull
           /\ [pull EXCEPT !.stage = "informing"] \in EnvironmentPull
  BY DEF EnvironmentPull

\* The fields of a pull, and those that each step leaves.
LEMMA PullFields ==
    ASSUME NEW pull \in EnvironmentPull, NEW stage, NEW n, NEW copy, NEW former
    PROVE  /\ pull.head \in Nat /\ pull.former \in Nat /\ pull.behind \in Nat /\ pull.count \in Nat
           /\ pull.copy \in Environment /\ pull.copy.latest \in Deployment
           /\ LET updating == [pull EXCEPT !.stage = stage, !.copy = copy, !.former = former]
                  reading == [pull EXCEPT !.stage = stage, !.copy = copy]
                  comparing == [pull EXCEPT !.stage = stage, !.head = n]
                  compared == [pull EXCEPT !.stage = stage, !.behind = n]
                  counted == [pull EXCEPT !.stage = stage, !.count = n]
                  staged == [pull EXCEPT !.stage = stage] IN
                /\ updating.stage = stage /\ updating.copy = copy /\ updating.former = former
                /\ reading.stage = stage /\ reading.copy = copy /\ reading.former = pull.former
                /\ comparing.stage = stage /\ comparing.copy = pull.copy /\ comparing.former = pull.former
                /\ comparing.head = n
                /\ compared.stage = stage /\ compared.copy = pull.copy /\ compared.former = pull.former
                /\ compared.head = pull.head /\ compared.behind = n
                /\ counted.stage = stage /\ counted.copy = pull.copy /\ counted.former = pull.former
                /\ counted.head = pull.head /\ counted.count = n
                /\ staged.stage = stage /\ staged.copy = pull.copy /\ staged.former = pull.former
                /\ staged.head = pull.head
  BY EnvironmentRecords DEF EnvironmentPull

\* The types hold when the exporter starts.
LEMMA EnvTypedInit ==
    ASSUME EnvInit, envSettings \in EnvSettings
    PROVE  EnvTyped
  <1>1. [NoEnvironment EXCEPT !.stored = TRUE, !.id = 1, !.sparse = ~envSettings.sparse] \in Environment
    BY DEF NoEnvironment, NoDeployment, Environment, Deployment, EnvSettings
  <1>2. gitlabEnv \in [state : {"none", "available", "stopped"}, latest : Deployment, head : Nat]
    <2>1. [job |-> 1, status |-> "blocked", commit |-> 1] \in Deployment /\ envSettings.commits \in Nat
      BY DEF Deployment, EnvSettings
    <2>2. CASE envSettings.deployed
      BY <2>1, <2>2 DEF EnvInit
    <2>3. CASE ~envSettings.deployed
      BY <2>3, EnvironmentRecords DEF EnvInit
    <2> QED
      BY <2>2, <2>3
  <1> QED
    BY <1>1, <1>2, EnvironmentRecords, PullRecords DEF EnvInit, EnvTyped

\* A step of the environment keeps them.
LEMMA EnvTypedStep ==
    ASSUME EnvTyped, EnvRelated, Table(metrics), EnvStep
    PROVE  EnvTyped'
  <1> USE DEF EnvTyped
  <1>1. CASE ChangeState
    BY <1>1 DEF ChangeState, StillWanted, historyOfEnv, EnvironmentSweep
  <1>2. CASE Commit
    BY <1>2 DEF Commit, otherTasks, historyOfEnv
  <1>3. CASE Deploy
    <2>1. PICK commit \in 1..gitlabEnv.head :
             gitlabEnv' = [gitlabEnv EXCEPT !.latest = [job |-> @.job + 1, status |-> "running", commit |-> commit]]
      BY <1>3 DEF Deploy
    <2>a. gitlabEnv.latest \in Deployment /\ gitlabEnv.head \in Nat
      OBVIOUS
    <2>b. gitlabEnv.latest.job + 1 \in Nat /\ commit \in Nat
      BY <2>a, DeploymentRecords
    <2>2. [job |-> gitlabEnv.latest.job + 1, status |-> "running", commit |-> commit] \in Deployment
      BY <2>b, DeploymentRecords
    <2>3. gitlabEnv' \in [state : {"none", "available", "stopped"}, latest : Deployment, head : Nat]
      BY <2>1, <2>2
    <2> QED
      BY <1>3, <2>3 DEF Deploy, historyOfEnv
  <1>4. CASE EndDeployment
    BY <1>4 DEF EndDeployment, historyOfEnv, Deployment
  <1>5. CASE Unconfigure
    BY <1>5 DEF Unconfigure, StillWanted, historyOfEnv, EnvironmentSweep
  <1>6. CASE PullEnvironmentsFromProject
    BY <1>6 DEF PullEnvironmentsFromProject, gitlabEnvVars, historyOfEnv, Discovery
  <1>7. CASE LookUpEnvironment
    <2>1. discovery' = NoEnvPull
          \/ \E copy \in Environment : discovery' = [discovery EXCEPT !.stage = "updating", !.copy = copy]
      <3>1. [NoEnvironment EXCEPT !.id = 1, !.sparse = envSettings.sparse] \in Environment
        BY DEF NoEnvironment, NoDeployment, Environment, Deployment, EnvSettings
      <3> QED
        BY <1>7, <3>1 DEF LookUpEnvironment
    <2>2. discovery' \in Discovery
      BY <2>1, PullRecords DEF Discovery
    <2> QED
      BY <1>7, <2>2 DEF LookUpEnvironment, gitlabEnvVars, historyOfEnv
  <1>8. CASE UpdateDiscovered
    <2>1. GetEnvironment(discovery.copy) \in Environment
      BY EnvironmentRecords DEF GetEnvironment, Discovery
    <2>2. discovery' \in Discovery
      BY <1>8, <2>1, PullRecords DEF UpdateDiscovered, Discovery
    <2> QED
      BY <1>8, <2>2 DEF UpdateDiscovered, gitlabEnvVars, historyOfEnv
  <1>a. ASSUME NEW copy \in Environment
        PROVE  Schedule(copy) \in EnvironmentPull
    BY PullRecords DEF Schedule, EnvironmentPull
  <1>b. ASSUME NEW env \in Environment, SetEnvironment(env)
        PROVE  environment' \in Environment /\ replaced' \in BOOLEAN
    BY <1>b, EnvironmentRecords DEF SetEnvironment
  <1>c. ASSUME DelEnvironment
        PROVE  environment' \in Environment /\ replaced' \in BOOLEAN
    BY <1>c, EnvironmentRecords DEF DelEnvironment
  <1>9. CASE StoreDiscovered
    <2>1. discovery.copy \in Environment
      BY DEF Discovery
    <2> QED
      BY <1>9, <2>1, <1>a, <1>b, PullRecords DEF StoreDiscovered, gitlabEnvVars
  <1>10. CASE ScheduleEnvironmentMetrics
    BY <1>10, <1>a DEF ScheduleEnvironmentMetrics, EnvUnchanged, envPullVars, otherTasks, gitlabEnvVars
  <1>11. CASE ProcessDeploymentEvent
    BY <1>11, <1>a DEF ProcessDeploymentEvent, EnvUnchanged, gitlabEnvVars
  <1>12. CASE RefreshEnvironment
    <2>1. PICK copy \in Environment :
             envPull' = [envPull EXCEPT !.stage = "updating", !.copy = copy, !.former = copy.latest.job]
      BY <1>12 DEF RefreshEnvironment, EnvironmentPull
    <2>2. copy.latest.job \in Nat
      BY EnvironmentRecords DEF Deployment
    <2>3. envPull' \in EnvironmentPull
      BY <2>1, <2>2 DEF EnvironmentPull
    <2> QED
      BY <1>12, <2>3 DEF RefreshEnvironment, EnvUnchanged, envPullVars, otherTasks, gitlabEnvVars
  <1>13. CASE UpdateEnvironment
    <2>1. GetEnvironment(envPull.copy) \in Environment
      BY EnvironmentRecords DEF GetEnvironment, EnvironmentPull
    <2>2. environment' \in Environment /\ replaced' \in BOOLEAN
      BY <1>13, <2>1, <1>b DEF UpdateEnvironment, EnvUnchanged
    <2>3. envPull' \in EnvironmentPull
      BY <1>13, <2>1, PullRecords DEF UpdateEnvironment, EnvironmentPull
    <2> QED
      BY <1>13, <2>2, <2>3 DEF UpdateEnvironment, envPullVars, otherTasks, gitlabEnvVars
  <1>d. ASSUME PullFails
        PROVE  envPull' \in EnvironmentPull /\ uncounted' \in Nat
    BY <1>d, PullRecords DEF PullFails
  <1>14. CASE ReadHead
    <2>a. PICK head \in Nat : head = IF envPull.copy.latest.job = 0 THEN 0 ELSE gitlabEnv.head
      OBVIOUS
    <2>b. \/ PullFails
          \/ envPull' = [envPull EXCEPT !.stage = "comparing", !.head = head] /\ UNCHANGED uncounted
      BY <1>14, <2>a DEF ReadHead
    <2>1. envPull' \in EnvironmentPull /\ uncounted' \in Nat
      BY <2>b, <1>d DEF EnvironmentPull
    <2> QED
      BY <1>14, <2>1 DEF ReadHead, EnvUnchanged, envPullVars, otherTasks, gitlabEnvVars
  <1>15. CASE CompareCommits
    <2>1. PICK stage \in {"reusing", "counting", "writing"} :
             envPull' = [envPull EXCEPT !.stage = stage, !.behind = 0]
      BY <1>15 DEF CompareCommits
    <2>2. envPull' \in EnvironmentPull
      BY <2>1, ComparedPulls
    <2> QED
      BY <1>15, <2>2 DEF CompareCommits, EnvUnchanged, envPullVars, otherTasks, gitlabEnvVars
  <1>e. ASSUME NEW kind
        PROVE  GetMetric(metrics, Metric(kind, EnvironmentLabelsValues, 0)).value \in Nat
    BY GetMetricIn, Fields DEF Table, Sound
  <1>22. CASE ReuseBehind
    <2>1. PICK n \in Nat : envPull' = [envPull EXCEPT !.stage = "writing", !.behind = n]
      BY <1>22, <1>e DEF ReuseBehind
    <2>2. envPull' \in EnvironmentPull
      BY <2>1, ComparedPulls
    <2> QED
      BY <1>22, <2>2 DEF ReuseBehind, EnvUnchanged, envPullVars, otherTasks, gitlabEnvVars
  <1>16. CASE GetCommitCountBetweenRefs
    <2>a. envPull.head \in Nat /\ envPull.copy.latest.commit \in Nat
      BY EnvironmentRecords DEF EnvironmentPull, Deployment
    <2>b. envPull.copy.latest.commit <= envPull.head
      BY <1>16 DEF GetCommitCountBetweenRefs, EnvRelated, Headed
    <2>c. PICK behind \in Nat : behind = envPull.head - envPull.copy.latest.commit
      BY <2>a, <2>b
    <2>d. \/ PullFails
          \/ envPull' = [envPull EXCEPT !.stage = "writing", !.behind = behind] /\ UNCHANGED uncounted
      BY <1>16, <2>c DEF GetCommitCountBetweenRefs
    <2>1. envPull' \in EnvironmentPull /\ uncounted' \in Nat
      BY <2>d, <1>d DEF EnvironmentPull
    <2> QED
      BY <1>16, <2>1 DEF GetCommitCountBetweenRefs, EnvUnchanged, envPullVars, otherTasks, gitlabEnvVars
  <1>23. CASE WriteBehind
    <2>1. PICK n \in Nat : envPull' = [envPull EXCEPT !.stage = "deploying", !.count = n]
      BY <1>23, <1>e DEF WriteBehind
    <2>2. envPull' \in EnvironmentPull
      BY <2>1, ComparedPulls
    <2> QED
      BY <1>23, <2>2 DEF WriteBehind, EnvUnchanged, envPullVars, otherTasks, gitlabEnvVars
  <1>24. CASE WriteDeployment
    <2>1. envPull' \in EnvironmentPull
      BY <1>24, ComparedPulls DEF WriteDeployment
    <2> QED
      BY <1>24, <2>1 DEF WriteDeployment, EnvUnchanged, envPullVars, otherTasks, gitlabEnvVars
  <1>17. CASE WriteInformation
    BY <1>17, PullRecords DEF WriteInformation, EnvUnchanged, envPullVars, otherTasks, gitlabEnvVars
  <1>18. CASE CollectEnvironments
    <2>1. envSweep' \in EnvironmentSweep
      BY <1>18 DEF CollectEnvironments, EnvWanted, EnvListed, EnvironmentSweep
    <2> QED
      BY <1>18, <2>1 DEF CollectEnvironments, EnvUnchanged, sweepVars, gitlabEnvVars
  <1>19. CASE CheckEnvironment
    <2>1. [envSweep.copy EXCEPT !.sparse = envSettings.sparse] \in Environment
      BY EnvironmentRecords DEF EnvironmentSweep, EnvSettings
    <2>2. environment' \in Environment /\ replaced' \in BOOLEAN
      BY <1>19, <2>1, <1>b, <1>c DEF CheckEnvironment, EnvUnchanged
    <2>3. envSweep' \in EnvironmentSweep
      BY <1>19 DEF CheckEnvironment, EnvironmentSweep
    <2> QED
      BY <1>19, <2>2, <2>3 DEF CheckEnvironment, sweepVars, gitlabEnvVars
  <1>20. CASE ListEnvironments
    <2>1. envSweep' \in EnvironmentSweep
      BY <1>20, PullRecords DEF ListEnvironments, EnvListed, EnvironmentSweep
    <2> QED
      BY <1>20, <2>1 DEF ListEnvironments, EnvUnchanged, sweepVars, gitlabEnvVars
  <1>21. CASE SweepEnvironments
    BY <1>21, <1>c, PullRecords DEF SweepEnvironments, EnvUnchanged, sweepVars, gitlabEnvVars
  <1> QED
    BY <1>1, <1>2, <1>3, <1>4, <1>5, <1>6, <1>7, <1>8, <1>9, <1>10, <1>11, <1>12, <1>13, <1>14, <1>15,
       <1>16, <1>17, <1>18, <1>19, <1>20, <1>21, <1>22, <1>23, <1>24
       DEF EnvStep, EnvDiscoveryStep, EnvPullStep, EnvSweepStep, EnvOthers

\* No copy of the environment is ahead of GitLab when the exporter starts.
LEMMA EnvRelatedInit ==
    ASSUME EnvInit, envSettings \in EnvSettings
    PROVE  EnvRelated
  <1>1. /\ gitlabEnv.latest.job \in {0, 1} /\ gitlabEnv.latest.commit \in {0, 1}
        /\ gitlabEnv.latest.job = 0 => gitlabEnv.latest.commit = 0
        /\ gitlabEnv.latest.job <= envSettings.deployments
        /\ gitlabEnv.head \in Nat /\ 1 <= gitlabEnv.head /\ gitlabEnv.head <= envSettings.commits
    <2>1. /\ envSettings.commits \in Nat \ {0} /\ envSettings.deployments \in Nat
          /\ envSettings.deployed => envSettings.deployments > 0
      BY DEF EnvSettings
    <2>2. CASE envSettings.deployed
      <3>1. gitlabEnv = [state |-> "available", head |-> envSettings.commits,
                         latest |-> [job |-> 1, status |-> "blocked", commit |-> 1]]
        BY <2>2 DEF EnvInit
      <3>2. gitlabEnv.latest.job = 1 /\ gitlabEnv.latest.commit = 1 /\ gitlabEnv.head = envSettings.commits
        BY <3>1
      <3> QED
        BY <2>1, <2>2, <3>2
    <2>3. CASE ~envSettings.deployed
      <3>1. gitlabEnv = [state |-> "none", latest |-> NoDeployment, head |-> 1]
        BY <2>3 DEF EnvInit
      <3>2. gitlabEnv.latest = NoDeployment /\ gitlabEnv.head = 1
        BY <3>1
      <3>3. NoDeployment.job = 0 /\ NoDeployment.commit = 0
        BY DEF NoDeployment
      <3> QED
        BY <2>1, <3>2, <3>3
    <2> QED
      BY <2>2, <2>3
  <1>2. NoDeployment.job = 0 /\ NoDeployment.commit = 0
    BY DEF NoDeployment
  <1>3. NoEnvironment.latest = NoDeployment /\ NoEnvironment.stored = FALSE
    BY DEF NoEnvironment
  <1>4. environment.latest = NoDeployment /\ (environment.stored => environment.id = 1)
         /\ (~environment.stored => environment = NoEnvironment)
    BY DEF EnvInit, NoEnvironment
  <1>5. /\ envPull.copy = NoEnvironment /\ discovery.copy = NoEnvironment /\ envSweep.copy = NoEnvironment
        /\ envPull.stage = "idle" /\ discovery.stage = "idle" /\ envSweep.stage = "idle"
    BY DEF EnvInit, NoEnvPull, NoSweep
  <1>6. envSettings.commits \in Nat \ {0} /\ envSettings.deployments \in Nat
    BY DEF EnvSettings
  <1>7. deployments \subseteq 0..envSettings.deployments
    BY <1>6 DEF EnvInit
  <1> QED
    BY <1>1, <1>2, <1>3, <1>4, <1>5, <1>6, <1>7 DEF EnvRelated, Headed, Known

\* None ever is: deployments and commits are only added.
LEMMA EnvRelatedStep ==
    ASSUME EnvTyped, EnvTyped', EnvRelated, EnvStep
    PROVE  EnvRelated'
  <1>a. /\ gitlabEnv.latest.job \in Nat /\ gitlabEnv.latest.commit \in Nat /\ gitlabEnv.head \in Nat
        /\ envSettings.commits \in Nat /\ envSettings.deployments \in Nat
    BY DeploymentRecords DEF EnvTyped, EnvSettings
  <1>b. /\ environment \in Environment /\ envPull.copy \in Environment
        /\ discovery.copy \in Environment /\ envSweep.copy \in Environment
    BY DEF EnvTyped, EnvironmentPull, Discovery, EnvironmentSweep
  <1>c. \A env \in Environment : env.latest.job \in Nat /\ env.latest.commit \in Nat
    BY EnvironmentRecords, DeploymentRecords
  <1>d. /\ Known(gitlabEnv, NoEnvironment.latest) /\ NoEnvironment.stored = FALSE
        /\ Known(gitlabEnv, gitlabEnv.latest)
    <2>1. NoDeployment.job = 0 /\ NoDeployment.commit = 0
      BY DEF NoDeployment
    <2>2. NoEnvironment.latest = NoDeployment /\ NoEnvironment.stored = FALSE
      BY DEF NoEnvironment
    <2> QED
      BY <1>a, <2>1, <2>2 DEF Known, EnvRelated, Headed
  <1>e. \A env \in Environment :
          /\ [env EXCEPT !.stored = TRUE].latest = env.latest /\ [env EXCEPT !.stored = TRUE].id = env.id
          /\ [env EXCEPT !.stored = TRUE].stored = TRUE
          /\ \A v : [env EXCEPT !.sparse = v].latest = env.latest /\ [env EXCEPT !.sparse = v].id = env.id
          /\ GetEnvironment(env).latest = gitlabEnv.latest /\ GetEnvironment(env).id = env.id
    BY DEF Environment, GetEnvironment
  <1>1. CASE ChangeState
    <2>1. gitlabEnv'.latest = gitlabEnv.latest /\ gitlabEnv'.head = gitlabEnv.head
      BY <1>1 DEF ChangeState, EnvTyped
    <2>2. \A latest : Known(gitlabEnv, latest) => Known(gitlabEnv', latest)
      BY <2>1 DEF Known
    <2>3. envSweep'.copy = envSweep.copy /\ envSweep'.stage = envSweep.stage
      BY <1>1 DEF ChangeState, StillWanted, EnvTyped, EnvironmentSweep
    <2>4. UNCHANGED <<envSettings, environment, envPull, discovery, deployments>>
      BY <1>1 DEF ChangeState, historyOfEnv
    <2> QED
      BY <2>1, <2>2, <2>3, <2>4 DEF EnvRelated, Headed
  <1>2. CASE Commit
    BY <1>2, <1>a, <1>b, <1>c DEF Commit, otherTasks, historyOfEnv, EnvRelated, Known, EnvTyped
  <1>3. CASE Deploy
    <2>1. PICK commit \in 1..gitlabEnv.head :
             gitlabEnv' = [gitlabEnv EXCEPT !.latest = [job |-> @.job + 1, status |-> "running", commit |-> commit]]
      BY <1>3 DEF Deploy
    <2>2. /\ gitlabEnv.latest'.job = gitlabEnv.latest.job + 1 /\ gitlabEnv.latest'.commit = commit
          /\ gitlabEnv.head' = gitlabEnv.head
      BY <2>1 DEF EnvTyped
    <2>3. gitlabEnv.latest.job < envSettings.deployments
      BY <1>3 DEF Deploy
    <2>4. UNCHANGED <<envSettings, environment, envPull, discovery, envSweep, deployments>>
      BY <1>3 DEF Deploy, historyOfEnv
    <2> QED
      BY <2>2, <2>3, <2>4, <1>a, <1>b, <1>c DEF EnvRelated, Known
  <1>4. CASE EndDeployment
    <2>1. /\ gitlabEnv'.latest.job = gitlabEnv.latest.job /\ gitlabEnv'.latest.commit = gitlabEnv.latest.commit
          /\ gitlabEnv'.head = gitlabEnv.head
      BY <1>4 DEF EndDeployment, EnvTyped, Deployment
    <2>2. \A latest : Known(gitlabEnv, latest) => Known(gitlabEnv', latest)
      BY <2>1 DEF Known
    <2>3. UNCHANGED <<envSettings, environment, envPull, discovery, envSweep, deployments>>
      BY <1>4 DEF EndDeployment, historyOfEnv
    <2> QED
      BY <2>1, <2>2, <2>3 DEF EnvRelated, Headed
  <1>5. CASE Unconfigure
    BY <1>5 DEF Unconfigure, StillWanted, historyOfEnv, EnvRelated, EnvTyped, EnvironmentSweep
  <1>6. CASE PullEnvironmentsFromProject
    BY <1>6 DEF PullEnvironmentsFromProject, gitlabEnvVars, historyOfEnv, EnvRelated, EnvTyped, Discovery
  <1>7. CASE LookUpEnvironment
    BY <1>7, <1>b, <1>d, <1>e DEF LookUpEnvironment, gitlabEnvVars, historyOfEnv, EnvRelated, NoEnvPull, EnvTyped, Discovery
  <1>8. CASE UpdateDiscovered
    <2>1. discovery' = NoEnvPull
            \/ discovery' = [discovery EXCEPT !.stage = "storing", !.copy = GetEnvironment(@)]
      BY <1>8 DEF UpdateDiscovered
    <2>2. /\ Known(gitlabEnv, discovery'.copy.latest)
          /\ discovery'.stage \in {"updating", "storing"} => discovery'.copy.id = 1
      <3>1. CASE discovery' = NoEnvPull
        BY <3>1, <1>d DEF NoEnvPull
      <3>2. CASE discovery' = [discovery EXCEPT !.stage = "storing", !.copy = GetEnvironment(@)]
        <4>1. discovery'.copy = GetEnvironment(discovery.copy)
          BY <3>2 DEF EnvTyped, Discovery
        <4>2. discovery.copy.id = 1
          BY <1>8 DEF UpdateDiscovered, EnvRelated, Headed
        <4> QED
          BY <4>1, <4>2, <1>b, <1>d, <1>e
      <3> QED
        BY <2>1, <3>1, <3>2
    <2>3. UNCHANGED <<envSettings, gitlabEnv, environment, envPull, envSweep, deployments>>
      BY <1>8 DEF UpdateDiscovered, gitlabEnvVars, historyOfEnv
    <2> QED
      BY <2>2, <2>3 DEF EnvRelated, Headed
  <1>f. ASSUME NEW env \in Environment, SetEnvironment(env), Known(gitlabEnv, env.latest), env.id = 1,
               gitlabEnv' = gitlabEnv, envSettings' = envSettings
        PROVE  /\ Known(gitlabEnv', environment'.latest)
               /\ environment'.stored /\ environment'.id = 1
               /\ deployments' \subseteq 0..envSettings'.deployments
    <2>1. environment' = [env EXCEPT !.stored = TRUE] /\ deployments' = deployments \cup {env.latest.job}
      BY <1>f DEF SetEnvironment
    <2>2. env.latest.job \in 0..envSettings.deployments
      BY <1>f, <1>a, <1>c DEF Known, EnvRelated, Headed
    <2>3. deployments \subseteq 0..envSettings.deployments
      BY DEF EnvRelated, Headed
    <2> QED
      BY <1>f, <1>e, <2>1, <2>2, <2>3
  <1>g. ASSUME NEW copy \in Environment, Known(gitlabEnv, copy.latest), copy.id = 1,
               envPull' = Schedule(copy), gitlabEnv' = gitlabEnv
        PROVE  /\ Known(gitlabEnv', envPull'.copy.latest)
               /\ envPull'.stage # "idle" => envPull'.copy.id = 1
               /\ Headed(envPull') => envPull'.copy.latest.commit <= envPull'.head
    BY <1>g DEF Schedule, NoEnvPull, EnvRelated, Headed
  <1>9. CASE StoreDiscovered
    <2>1. /\ discovery.copy \in Environment /\ discovery.copy.id = 1 /\ Known(gitlabEnv, discovery.copy.latest)
          /\ SetEnvironment(discovery.copy) /\ envPull' = Schedule(discovery.copy)
          /\ discovery' = NoEnvPull
          /\ UNCHANGED <<gitlabEnv, envSettings, envSweep>>
      BY <1>9, <1>b DEF StoreDiscovered, EnvRelated, gitlabEnvVars
    <2>2. /\ Known(gitlabEnv', environment'.latest)
          /\ environment'.stored /\ environment'.id = 1
          /\ deployments' \subseteq 0..envSettings'.deployments
      BY <2>1, <1>f
    <2>3. /\ Known(gitlabEnv', envPull'.copy.latest)
          /\ envPull'.stage # "idle" => envPull'.copy.id = 1
          /\ Headed(envPull') => envPull'.copy.latest.commit <= envPull'.head
      BY <2>1, <1>g
    <2>4. Known(gitlabEnv', discovery'.copy.latest) /\ discovery'.stage = "idle"
      BY <2>1, <1>d DEF NoEnvPull
    <2> QED
      BY <2>1, <2>2, <2>3, <2>4 DEF EnvRelated, Headed
  <1>10. CASE ScheduleEnvironmentMetrics
    BY <1>10, <1>b, <1>d, <1>e DEF ScheduleEnvironmentMetrics, Schedule, EnvUnchanged, envPullVars, otherTasks, gitlabEnvVars, NoEnvPull, EnvRelated, Headed
  <1>11. CASE ProcessDeploymentEvent
    BY <1>11, <1>b, <1>d, <1>e DEF ProcessDeploymentEvent, Schedule, EnvUnchanged, gitlabEnvVars, NoEnvPull, EnvRelated, Headed
  <1>12. CASE RefreshEnvironment
    BY <1>12, <1>b, <1>d, <1>e DEF RefreshEnvironment, EnvUnchanged, envPullVars, otherTasks, gitlabEnvVars, EnvRelated, Headed, EnvTyped, EnvironmentPull
  <1>13. CASE UpdateEnvironment
    <2>1. UNCHANGED <<gitlabEnv, envSettings, discovery, envSweep>>
      BY <1>13 DEF UpdateEnvironment, envPullVars, otherTasks, gitlabEnvVars
    <2>2. CASE envPull' = NoEnvPull /\ EnvUnchanged
      BY <2>1, <2>2, <1>d DEF EnvUnchanged, NoEnvPull, EnvRelated, Headed
    <2>3. CASE /\ envPull' = [envPull EXCEPT !.stage = "reading", !.copy = GetEnvironment(@)]
               /\ SetEnvironment(GetEnvironment(envPull.copy))
      <3>1. PICK copy : copy = GetEnvironment(envPull.copy)
        OBVIOUS
      <3>2. copy \in Environment
        BY <3>1, EnvironmentRecords DEF GetEnvironment, EnvTyped, EnvironmentPull
      <3>3. copy.latest = gitlabEnv.latest /\ copy.id = 1
        <4>1. envPull.copy.id = 1
          BY <1>13 DEF UpdateEnvironment, EnvRelated, Headed
        <4> QED
          BY <3>1, <4>1, <1>b, <1>e
      <3>4. envPull'.stage = "reading" /\ envPull'.copy = copy
        BY <2>3, <3>1 DEF EnvTyped, EnvironmentPull
      <3>5. /\ Known(gitlabEnv', environment'.latest)
            /\ environment'.stored /\ environment'.id = 1
            /\ deployments' \subseteq 0..envSettings'.deployments
        BY <2>1, <2>3, <3>1, <3>2, <3>3, <1>d, <1>f
      <3> QED
        BY <2>1, <3>3, <3>4, <3>5, <1>d DEF EnvRelated, Headed
    <2> QED
      BY <1>13, <2>2, <2>3 DEF UpdateEnvironment
  <1>h. ASSUME envPull' = NoEnvPull
        PROVE  /\ Known(gitlabEnv, envPull'.copy.latest) /\ envPull'.stage = "idle"
    BY <1>h, <1>d DEF NoEnvPull
  <1>14. CASE ReadHead
    <2>1. UNCHANGED <<gitlabEnv, envSettings, discovery, envSweep, environment, deployments>>
      BY <1>14 DEF ReadHead, EnvUnchanged, envPullVars, otherTasks, gitlabEnvVars
    <2>2. CASE PullFails
      BY <2>1, <2>2, <1>h DEF PullFails, EnvRelated, Headed
    <2>3. CASE envPull' = [envPull EXCEPT !.stage = "comparing",
                              !.head = IF envPull.copy.latest.job = 0 THEN 0 ELSE gitlabEnv.head]
      <3>1. PICK head : head = IF envPull.copy.latest.job = 0 THEN 0 ELSE gitlabEnv.head
        OBVIOUS
      <3>2. envPull'.stage = "comparing" /\ envPull'.copy = envPull.copy /\ envPull'.head = head
        BY <2>3, <3>1 DEF EnvTyped, EnvironmentPull
      <3>3. envPull.copy.latest.commit <= head
        BY <3>1, <1>a, <1>b, <1>c DEF EnvRelated, Known
      <3>4. envPull.copy.id = 1
        BY <1>14 DEF ReadHead, EnvRelated, Headed
      <3> QED
        BY <2>1, <3>2, <3>3, <3>4 DEF EnvRelated, Headed
    <2> QED
      BY <1>14, <2>2, <2>3 DEF ReadHead
  \* A pull goes on with the same copy and head, or is done.
  <1>k. ASSUME UNCHANGED <<gitlabEnv, envSettings, discovery, envSweep, environment, deployments>>,
               \/ envPull' = NoEnvPull
               \/ Headed(envPull) /\ envPull'.copy = envPull.copy /\ envPull'.head = envPull.head
        PROVE  EnvRelated'
    <2>1. CASE envPull' = NoEnvPull
      BY <1>k, <1>h, <2>1 DEF EnvRelated, Headed
    <2>2. CASE Headed(envPull) /\ envPull'.copy = envPull.copy /\ envPull'.head = envPull.head
      BY <1>k, <2>2 DEF EnvRelated, Headed
    <2> QED
      BY <1>k, <2>1, <2>2
  <1>15. CASE CompareCommits \/ ReuseBehind
    <2>1. UNCHANGED <<gitlabEnv, envSettings, discovery, envSweep, environment, deployments>> /\ Headed(envPull)
      BY <1>15 DEF CompareCommits, ReuseBehind, EnvUnchanged, envPullVars, otherTasks, gitlabEnvVars, Headed
    <2>2. \E stage, n : envPull' = [envPull EXCEPT !.stage = stage, !.behind = n]
      BY <1>15 DEF CompareCommits, ReuseBehind
    <2>3. envPull'.copy = envPull.copy /\ envPull'.head = envPull.head
      BY <2>2, PullFields DEF EnvTyped
    <2> QED
      BY <2>1, <2>3, <1>k
  <1>16. CASE GetCommitCountBetweenRefs
    <2>1. UNCHANGED <<gitlabEnv, envSettings, discovery, envSweep, environment, deployments>> /\ Headed(envPull)
      BY <1>16 DEF GetCommitCountBetweenRefs, EnvUnchanged, envPullVars, otherTasks, gitlabEnvVars, Headed
    <2>2. envPull' = NoEnvPull \/ \E stage, n : envPull' = [envPull EXCEPT !.stage = stage, !.behind = n]
      BY <1>16 DEF GetCommitCountBetweenRefs, PullFails
    <2>3. CASE envPull' = NoEnvPull
      BY <2>1, <2>3, <1>k
    <2>4. CASE envPull' # NoEnvPull
      <3>1. PICK stage, n : envPull' = [envPull EXCEPT !.stage = stage, !.behind = n]
        BY <2>2, <2>4
      <3>2. envPull'.copy = envPull.copy /\ envPull'.head = envPull.head
        BY <3>1, PullFields DEF EnvTyped
      <3> QED
        BY <2>1, <3>2, <1>k
    <2> QED
      BY <2>3, <2>4
  <1>23. CASE WriteBehind \/ WriteDeployment
    <2>1. UNCHANGED <<gitlabEnv, envSettings, discovery, envSweep, environment, deployments>> /\ Headed(envPull)
      BY <1>23 DEF WriteBehind, WriteDeployment, EnvUnchanged, envPullVars, otherTasks, gitlabEnvVars, Headed
    <2>2. ASSUME WriteBehind
          PROVE  envPull'.copy = envPull.copy /\ envPull'.head = envPull.head
      <3>1. PICK n : envPull' = [envPull EXCEPT !.stage = "deploying", !.count = n]
        BY <2>2 DEF WriteBehind
      <3> QED
        BY <3>1, PullFields DEF EnvTyped
    <2>3. ASSUME WriteDeployment
          PROVE  envPull'.copy = envPull.copy /\ envPull'.head = envPull.head
      BY <2>3, PullFields DEF EnvTyped, WriteDeployment
    <2>4. envPull'.copy = envPull.copy /\ envPull'.head = envPull.head
      BY <1>23, <2>2, <2>3
    <2> QED
      BY <2>1, <2>4, <1>k
  <1>17. CASE WriteInformation
    BY <1>17, <1>k DEF WriteInformation, EnvUnchanged, envPullVars, otherTasks, gitlabEnvVars
  <1>18. CASE CollectEnvironments
    BY <1>18, <1>b, <1>d, <1>e DEF CollectEnvironments, EnvUnchanged, sweepVars, gitlabEnvVars, EnvRelated, Headed
  <1>i. ASSUME DelEnvironment
        PROVE  /\ Known(gitlabEnv, environment'.latest) /\ environment' = NoEnvironment
               /\ environment'.stored = FALSE /\ deployments' = deployments
    BY <1>i, <1>d DEF DelEnvironment
  <1>19. CASE CheckEnvironment
    <2>1. UNCHANGED <<gitlabEnv, envSettings, discovery, envPull>>
      BY <1>19 DEF CheckEnvironment, sweepVars, gitlabEnvVars
    <2>2. envSweep'.copy = envSweep.copy /\ envSweep'.stage \in {"listing", "sweeping"}
      BY <1>19 DEF CheckEnvironment, EnvTyped, EnvironmentSweep
    <2>3. CASE DelEnvironment
      BY <2>1, <2>2, <2>3, <1>i DEF EnvRelated, Headed
    <2>4. CASE SetEnvironment([envSweep.copy EXCEPT !.sparse = envSettings.sparse])
      <3>1. PICK copy : copy = [envSweep.copy EXCEPT !.sparse = envSettings.sparse]
        OBVIOUS
      <3>2. copy \in Environment
        BY <3>1, <1>b, EnvironmentRecords DEF EnvTyped, EnvSettings
      <3>3. copy.latest = envSweep.copy.latest /\ copy.id = envSweep.copy.id
        BY <3>1, <1>b, <1>e
      <3>4. envSweep.copy.id = 1 /\ Known(gitlabEnv, envSweep.copy.latest)
        BY <1>19 DEF CheckEnvironment, EnvRelated, Headed
      <3>5. /\ Known(gitlabEnv', environment'.latest)
            /\ environment'.stored /\ environment'.id = 1
            /\ deployments' \subseteq 0..envSettings'.deployments
        BY <2>1, <2>4, <3>1, <3>2, <3>3, <3>4, <1>f
      <3> QED
        BY <2>1, <2>2, <3>5 DEF EnvRelated, Headed
    <2>5. CASE EnvUnchanged
      BY <2>1, <2>2, <2>5 DEF EnvUnchanged, EnvRelated, Headed
    <2> QED
      BY <1>19, <2>3, <2>4, <2>5 DEF CheckEnvironment
  <1>20. CASE ListEnvironments
    <2>1. UNCHANGED <<gitlabEnv, envSettings, discovery, envPull, environment, deployments>>
      BY <1>20 DEF ListEnvironments, EnvUnchanged, sweepVars, gitlabEnvVars
    <2>2. \/ envSweep' = NoSweep
          \/ envSweep'.copy = envSweep.copy /\ envSweep'.stage = "sweeping"
      BY <1>20 DEF ListEnvironments, EnvTyped, EnvironmentSweep
    <2>3. /\ Known(gitlabEnv, envSweep'.copy.latest) /\ envSweep'.stage # "checking"
          /\ envSweep'.copy.stored => envSweep'.copy.id = 1
      BY <2>2, <1>d DEF NoSweep, EnvRelated, Headed
    <2> QED
      BY <2>1, <2>3 DEF EnvRelated, Headed
  <1>21. CASE SweepEnvironments
    BY <1>21, <1>b, <1>d, <1>e DEF SweepEnvironments, DelEnvironment, EnvUnchanged, sweepVars, gitlabEnvVars, NoSweep, EnvRelated, Headed
  <1> QED
    BY <1>1, <1>2, <1>3, <1>4, <1>5, <1>6, <1>7, <1>8, <1>9, <1>10, <1>11, <1>12, <1>13, <1>14, <1>15,
       <1>16, <1>17, <1>18, <1>19, <1>20, <1>21, <1>23
       DEF EnvStep, EnvDiscoveryStep, EnvPullStep, EnvSweepStep, EnvOthers

-----------------------------------------------------------------------------
\* What is written of the environment.

\* The kinds with one metric of the environment each.
SingleKinds == EnvironmentKinds \ {"EnvironmentDeploymentStatus"}
BehindKinds == {"EnvironmentInformation", "EnvironmentBehindCommitsCount"}

EnvLabelled(table) ==
    \A m \in table : m.kind \in EnvironmentKinds => m.labels.project = "p" /\ m.labels.environment = "e"

\* The labels of the collectors of an environment's metrics (collectors.go).
LEMMA EnvironmentCollectors ==
    /\ \A kind \in SingleKinds \ {"EnvironmentInformation"} : NewRegistry[kind] = {"project", "environment"}
    /\ NewRegistry["EnvironmentInformation"]
         = {"project", "environment", "environment_id", "external_url", "kind", "ref", "latest_commit_short_id",
            "current_commit_short_id", "available", "username"}
    /\ NewRegistry["EnvironmentDeploymentStatus"] = {"project", "environment", "status"}
  <1>1. ASSUME NEW kind \in EnvironmentKinds
        PROVE  NewRegistry[kind] = EnvironmentGauges[kind]
    <2>1. /\ kind \notin PipelineGaugeKinds /\ kind # "ID" /\ kind \notin RunKinds /\ kind \notin JobKinds
          /\ kind \notin RunnerKinds /\ kind \notin TestReportKinds /\ kind \notin TestSuiteKinds
          /\ kind \notin TestCaseKinds
      BY DEF EnvironmentKinds, PipelineGaugeKinds, RunKinds, JobKinds, RunnerKinds, TestReportKinds, TestSuiteKinds,
             TestCaseKinds
    <2> QED
      BY <2>1 DEF NewRegistry
  <1>2. ASSUME NEW kind \in SingleKinds \ {"EnvironmentInformation"}
        PROVE  NewRegistry[kind] = {"project", "environment"}
    <2>1. kind \in EnvironmentKinds /\ kind # "EnvironmentInformation" /\ kind # "EnvironmentDeploymentStatus"
      BY DEF SingleKinds
    <2> QED
      BY <1>1, <2>1 DEF EnvironmentGauges, EnvironmentLabels
  <1>3. "EnvironmentInformation" \in EnvironmentKinds /\ "EnvironmentDeploymentStatus" \in EnvironmentKinds
    BY DEF EnvironmentKinds
  <1>4. NewRegistry["EnvironmentInformation"] = EnvironmentLabels \cup EnvironmentInformationLabels
    BY <1>1, <1>3 DEF EnvironmentGauges
  <1>5. NewRegistry["EnvironmentDeploymentStatus"] = EnvironmentLabels \cup {"status"}
    BY <1>1, <1>3 DEF EnvironmentGauges
  <1> QED
    BY <1>2, <1>4, <1>5 DEF EnvironmentLabels, EnvironmentInformationLabels

\* The labels its metrics are written with are those of their collectors.
LEMMA EnvironmentLabelDomains ==
    /\ DOMAIN EnvironmentLabelsValues = {"project", "environment"}
    /\ EnvironmentLabelsValues.project = "p" /\ EnvironmentLabelsValues.environment = "e"
    /\ DOMAIN DeploymentStatusLabelsValues = {"project", "environment", "status"}
    /\ DeploymentStatusLabelsValues.project = "p" /\ DeploymentStatusLabelsValues.environment = "e"
    /\ DOMAIN InformationLabelsValues
         = {"project", "environment", "environment_id", "external_url", "kind", "ref", "latest_commit_short_id",
            "current_commit_short_id", "available", "username"}
    /\ InformationLabelsValues.project = "p" /\ InformationLabelsValues.environment = "e"
    /\ InformationLabelsValues.latest_commit_short_id = envPull.head
    /\ InformationLabelsValues.current_commit_short_id = envPull.copy.latest.commit
  BY DEF EnvironmentLabelsValues, DeploymentStatusLabelsValues, InformationLabelsValues

\* Of a single kind there is one key.
LEMMA SingleKey ==
    ASSUME NEW m, NEW n, m.kind = n.kind, m.kind \in SingleKinds, Exported(m), Exported(n),
           m.labels.project = "p", m.labels.environment = "e",
           n.labels.project = "p", n.labels.environment = "e"
    PROVE  Key(m) = Key(n)
  <1>1. KeyLabels(m.kind) = {"project", "environment"}
    <2>0. PICK kind : kind = m.kind
      OBVIOUS
    <2>1. /\ kind \in EnvironmentKinds /\ kind # "EnvironmentDeploymentStatus"
          /\ kind \notin PipelineKinds \cup TestReportKinds /\ kind \notin JobKinds
          /\ kind \notin TestSuiteKinds /\ kind \notin TestCaseKinds
          /\ kind # "RunnerProjectInfo" /\ kind # "RunnerTagInfo" /\ kind # "RunnerGroupInfo"
      BY <2>0 DEF SingleKinds, EnvironmentKinds, PipelineKinds, PipelineGaugeKinds, RunKinds, JobKinds,
                  TestReportKinds, TestSuiteKinds, TestCaseKinds
    <2> QED
      BY <2>0, <2>1 DEF KeyLabels, EnvironmentLabels
  <1>2. {"project", "environment"} \subseteq DOMAIN m.labels /\ {"project", "environment"} \subseteq DOMAIN n.labels
    BY EnvironmentCollectors DEF Exported, SingleKinds, EnvironmentKinds
  <1>3. \A label \in KeyLabels(m.kind) : LabelOf(m, label) = LabelOf(n, label)
    BY <1>1, <1>2 DEF LabelOf
  <1> QED
    BY <1>3, SameKey

\* A metric of one of these kinds.
OfTheEnvironment(m) ==
    Sound(m) /\ m.kind \in SingleKinds /\ m.labels.project = "p" /\ m.labels.environment = "e"

\* What the three steps of a pull write.
BehindMetric == Metric("EnvironmentBehindCommitsCount", EnvironmentLabelsValues, envPull.behind)
CountWritten ==
    IF CountDeployment(envPull.former, envPull.copy.latest) THEN envPull.count + 1 ELSE envPull.count
CountMetric == Metric("EnvironmentDeploymentCount", EnvironmentLabelsValues, CountWritten)
GaugesWritten ==
    {"EnvironmentBehindDurationSeconds", "EnvironmentDeploymentJobID",
     "EnvironmentDeploymentDurationSeconds", "EnvironmentDeploymentTimestamp"}
DeploymentMetrics == {CountMetric} \cup Gauges(GaugesWritten, EnvironmentLabelsValues, envPull.copy.latest.job)
InformationMetric == Metric("EnvironmentInformation", InformationLabelsValues, 1)

\* They are of the environment.
LEMMA WrittenMetrics ==
    ASSUME EnvTyped
    PROVE  /\ OfTheEnvironment(BehindMetric) /\ BehindMetric.kind = "EnvironmentBehindCommitsCount"
           /\ BehindMetric.value = envPull.behind
           /\ OfTheEnvironment(InformationMetric) /\ InformationMetric.kind = "EnvironmentInformation"
           /\ InformationMetric.labels = InformationLabelsValues
           /\ CountMetric.kind = "EnvironmentDeploymentCount" /\ CountMetric.value = CountWritten
           /\ \A m \in DeploymentMetrics :
                 /\ OfTheEnvironment(m)
                 /\ m.kind \in {"EnvironmentDeploymentCount"} \cup GaugesWritten
                 /\ m.kind = "EnvironmentDeploymentCount" => m = CountMetric
           /\ \A m, n \in DeploymentMetrics : m.kind = n.kind => m = n
           /\ CountMetric \in DeploymentMetrics
  <1> DEFINE job == envPull.copy.latest.job
             gauges == Gauges(GaugesWritten, EnvironmentLabelsValues, job)
  <1>1. envPull.behind \in Nat /\ job \in Nat /\ envPull.count \in Nat
    BY EnvironmentRecords, DeploymentRecords DEF EnvTyped, EnvironmentPull
  <1>2. CountWritten \in Nat
    BY <1>1 DEF CountWritten
  <1>3. /\ DOMAIN EnvironmentLabelsValues = NewRegistry["EnvironmentDeploymentCount"]
        /\ DOMAIN EnvironmentLabelsValues = NewRegistry["EnvironmentBehindCommitsCount"]
        /\ DOMAIN InformationLabelsValues = NewRegistry["EnvironmentInformation"]
    BY EnvironmentCollectors, EnvironmentLabelDomains DEF SingleKinds, EnvironmentKinds
  <1>4. /\ SingleKinds = {"EnvironmentBehindCommitsCount", "EnvironmentDeploymentCount", "EnvironmentInformation"}
                              \cup GaugesWritten
        /\ "EnvironmentDeploymentCount" \notin GaugesWritten
    BY DEF SingleKinds, EnvironmentKinds, GaugesWritten
  <1>5. /\ EnvironmentLabelsValues.project = "p" /\ EnvironmentLabelsValues.environment = "e"
        /\ InformationLabelsValues.project = "p" /\ InformationLabelsValues.environment = "e"
    BY EnvironmentLabelDomains
  <1>6. /\ Sound(BehindMetric) /\ BehindMetric.kind = "EnvironmentBehindCommitsCount"
        /\ BehindMetric.labels = EnvironmentLabelsValues /\ BehindMetric.value = envPull.behind
    BY <1>1, <1>3, MetricSound DEF BehindMetric
  <1>7. /\ Sound(InformationMetric) /\ InformationMetric.kind = "EnvironmentInformation"
        /\ InformationMetric.labels = InformationLabelsValues
    BY <1>3, MetricSound DEF InformationMetric
  <1>8. /\ Sound(CountMetric) /\ CountMetric.kind = "EnvironmentDeploymentCount"
        /\ CountMetric.labels = EnvironmentLabelsValues /\ CountMetric.value = CountWritten
    <2>1. PICK n \in Nat : n = CountWritten
      BY <1>2
    <2>2. CountMetric = Metric("EnvironmentDeploymentCount", EnvironmentLabelsValues, n)
      BY <2>1 DEF CountMetric
    <2>3. DOMAIN EnvironmentLabelsValues = NewRegistry["EnvironmentDeploymentCount"]
      BY <1>3
    <2>4. /\ Sound(CountMetric) /\ CountMetric.kind = "EnvironmentDeploymentCount"
          /\ CountMetric.labels = EnvironmentLabelsValues /\ CountMetric.value = n
      BY <2>2, <2>3, MetricSound
    <2> QED
      BY <2>1, <2>4
  <1>9. ASSUME NEW m \in gauges
        PROVE  /\ Sound(m) /\ m.kind \in GaugesWritten /\ m.labels = EnvironmentLabelsValues
               /\ m = Metric(m.kind, EnvironmentLabelsValues, job)
    <2>1. \A kind \in GaugesWritten : DOMAIN EnvironmentLabelsValues = NewRegistry[kind]
      BY EnvironmentCollectors, EnvironmentLabelDomains DEF GaugesWritten, SingleKinds, EnvironmentKinds
    <2> QED
      BY <1>1, <2>1, GaugesSound
  <1>10. DeploymentMetrics = {CountMetric} \cup gauges
    BY DEF DeploymentMetrics
  <1> HIDE DEF gauges
  <1>11. /\ OfTheEnvironment(BehindMetric) /\ OfTheEnvironment(InformationMetric) /\ OfTheEnvironment(CountMetric)
    BY <1>4, <1>5, <1>6, <1>7, <1>8 DEF OfTheEnvironment
  <1>12. \A m \in gauges : OfTheEnvironment(m)
    BY <1>4, <1>5, <1>9 DEF OfTheEnvironment
  <1>13. \A m, n \in DeploymentMetrics : m.kind = n.kind => m = n
    BY <1>4, <1>8, <1>9, <1>10
  <1> QED
    BY <1>4, <1>6, <1>7, <1>8, <1>9, <1>10, <1>11, <1>12, <1>13

\* No other step of the environment writes metrics.
LEMMA EnvironmentWrites ==
    ASSUME EnvStep
    PROVE  WriteBehind \/ WriteDeployment \/ WriteInformation \/ metrics' = metrics
  BY DEF EnvStep, EnvDiscoveryStep, EnvPullStep, EnvSweepStep, EnvOthers, ProcessDeploymentEvent,
         PullEnvironmentsFromProject, LookUpEnvironment, UpdateDiscovered, StoreDiscovered,
         ScheduleEnvironmentMetrics, RefreshEnvironment, UpdateEnvironment, ReadHead, CompareCommits, ReuseBehind,
         GetCommitCountBetweenRefs, CollectEnvironments, CheckEnvironment, ListEnvironments, SweepEnvironments, sweepVars

\* After a write of metrics of single kinds those of these kinds are the ones written.
LEMMA SinglesWritten ==
    ASSUME NEW table, Right(table), EnvLabelled(table), NEW new, \A m \in new : OfTheEnvironment(m),
           \A m, n \in new : m.kind = n.kind => m = n, NEW result, result = SetMetrics(table, new)
    PROVE  /\ Right(result) /\ EnvLabelled(result)
           /\ \A m : (\E x \in new : x.kind = m.kind) => (m \in result <=> m \in new /\ m.kind \in Kept)
           /\ \A kinds : (\A x \in new : x.kind \notin kinds) => OfKinds(result, kinds) = OfKinds(table, kinds)
  <1>1. Table(table)
    BY DEF Right
  <1>2. SingleKinds \cap StatusKinds = {} /\ SingleKinds \subseteq EnvironmentKinds
    BY DEF SingleKinds, EnvironmentKinds, StatusKinds
  <1>3. Right(result)
    <2>1. KeysDiffer(new)
      BY DEF KeysDiffer
    <2> QED
      BY <2>1, <1>2, WrittenRight DEF OfTheEnvironment
  <1>4. EnvLabelled(result)
    BY InSetMetrics DEF EnvLabelled, OfTheEnvironment
  <1>5. ASSUME NEW m, NEW x \in new, x.kind = m.kind
        PROVE  m \in result <=> m \in new /\ m.kind \in Kept
    <2>1. ASSUME m \in table
          PROVE  m.kind \in Kept /\ Key(x) = Key(m)
      <3>1. Exported(m) /\ Exported(x) /\ m.kind \in Kept
        BY <1>1, <2>1 DEF Table, Sound, OfTheEnvironment
      <3>2. m.labels.project = "p" /\ m.labels.environment = "e"
        BY <2>1, <1>2, <1>5 DEF EnvLabelled, OfTheEnvironment
      <3> QED
        BY <3>1, <3>2, <1>5, SingleKey DEF OfTheEnvironment
    <2> QED
      BY <2>1, <1>5, InSetMetrics
  <1>6. ASSUME NEW kinds, \A x \in new : x.kind \notin kinds
        PROVE  OfKinds(result, kinds) = OfKinds(table, kinds)
    BY <1>6, SetMetricsFrame
  <1> QED
    BY <1>3, <1>4, <1>5, <1>6

\* The number of commits behind is written, and nothing else ...
LEMMA BehindWrite ==
    ASSUME EnvTyped, Right(metrics), EnvLabelled(metrics), WriteBehind
    PROVE  /\ Right(metrics') /\ EnvLabelled(metrics')
           /\ \A m : m.kind = "EnvironmentBehindCommitsCount" =>
                        (m \in metrics' <=> m = BehindMetric /\ m.kind \in Kept)
           /\ \A kinds : "EnvironmentBehindCommitsCount" \notin kinds =>
                            OfKinds(metrics', kinds) = OfKinds(metrics, kinds)
  <1>1. PICK new : new = {BehindMetric}
    OBVIOUS
  <1>2. metrics' = SetMetrics(metrics, new)
    BY <1>1 DEF WriteBehind, BehindMetric
  <1>3. BehindMetric.kind = "EnvironmentBehindCommitsCount" /\ OfTheEnvironment(BehindMetric)
    BY WrittenMetrics
  <1>4. /\ Right(metrics') /\ EnvLabelled(metrics')
        /\ \A m : (\E x \in new : x.kind = m.kind) => (m \in metrics' <=> m \in new /\ m.kind \in Kept)
        /\ \A kinds : (\A x \in new : x.kind \notin kinds) => OfKinds(metrics', kinds) = OfKinds(metrics, kinds)
    BY <1>1, <1>2, <1>3, SinglesWritten
  <1> QED
    BY <1>1, <1>3, <1>4

\* ... the two commits ...
LEMMA InformationWrite ==
    ASSUME EnvTyped, Right(metrics), EnvLabelled(metrics), WriteInformation
    PROVE  /\ Right(metrics') /\ EnvLabelled(metrics')
           /\ \A m : m.kind = "EnvironmentInformation" =>
                        (m \in metrics' <=> m = InformationMetric /\ m.kind \in Kept)
           /\ \A kinds : "EnvironmentInformation" \notin kinds =>
                            OfKinds(metrics', kinds) = OfKinds(metrics, kinds)
  <1>1. PICK new : new = {InformationMetric}
    OBVIOUS
  <1>2. metrics' = SetMetrics(metrics, new)
    BY <1>1 DEF WriteInformation, InformationMetric
  <1>3. InformationMetric.kind = "EnvironmentInformation" /\ OfTheEnvironment(InformationMetric)
    BY WrittenMetrics
  <1>4. /\ Right(metrics') /\ EnvLabelled(metrics')
        /\ \A m : (\E x \in new : x.kind = m.kind) => (m \in metrics' <=> m \in new /\ m.kind \in Kept)
        /\ \A kinds : (\A x \in new : x.kind \notin kinds) => OfKinds(metrics', kinds) = OfKinds(metrics, kinds)
    BY <1>1, <1>2, <1>3, SinglesWritten
  <1> QED
    BY <1>1, <1>3, <1>4

\* ... or the deployment and its status.
LEMMA DeploymentWrite ==
    ASSUME EnvTyped, Right(metrics), EnvLabelled(metrics), WriteDeployment
    PROVE  /\ Right(metrics') /\ EnvLabelled(metrics')
           /\ \A m : m.kind = "EnvironmentDeploymentCount" =>
                        (m \in metrics' <=> m = CountMetric /\ m.kind \in Kept)
           /\ \A kinds : kinds \cap EnvironmentKinds \subseteq BehindKinds =>
                            OfKinds(metrics', kinds) = OfKinds(metrics, kinds)
  <1> DEFINE status == "EnvironmentDeploymentStatus"
             labels == DeploymentStatusLabelsValues
  <1>1. PICK table : table = SetMetrics(metrics, DeploymentMetrics)
    OBVIOUS
  <1>2. /\ \A m \in DeploymentMetrics :
               /\ OfTheEnvironment(m) /\ m.kind \in {"EnvironmentDeploymentCount"} \cup GaugesWritten
               /\ m.kind = "EnvironmentDeploymentCount" => m = CountMetric
        /\ \A m, n \in DeploymentMetrics : m.kind = n.kind => m = n
        /\ CountMetric \in DeploymentMetrics /\ CountMetric.kind = "EnvironmentDeploymentCount"
    BY WrittenMetrics
  <1>3. /\ Right(table) /\ EnvLabelled(table)
        /\ \A m : (\E x \in DeploymentMetrics : x.kind = m.kind) =>
                     (m \in table <=> m \in DeploymentMetrics /\ m.kind \in Kept)
        /\ \A kinds : (\A x \in DeploymentMetrics : x.kind \notin kinds) =>
                         OfKinds(table, kinds) = OfKinds(metrics, kinds)
    BY <1>1, <1>2, SinglesWritten
  <1>4. metrics' = EmitStatus(table, status, labels, envPull.copy.latest.status, envPull.copy.sparse)
    BY <1>1 DEF WriteDeployment, DeploymentMetrics, CountMetric, CountWritten, GaugesWritten
  <1>5. /\ DOMAIN labels = NewRegistry[status] /\ "status" \in DOMAIN labels
        /\ labels.project = "p" /\ labels.environment = "e"
    BY EnvironmentLabelDomains, EnvironmentCollectors
  <1>6. status \in StatusKinds /\ status # "EnvironmentDeploymentCount" /\ status \in EnvironmentKinds
    BY DEF StatusKinds, EnvironmentKinds
  <1> HIDE DEF status, labels
  <1>7. Right(metrics')
    BY <1>3, <1>4, <1>5, <1>6, EmittedRight
  <1>8. EnvLabelled(metrics')
    <2> SUFFICES ASSUME NEW m \in metrics', m.kind \in EnvironmentKinds
                 PROVE  m.labels.project = "p" /\ m.labels.environment = "e"
      BY DEF EnvLabelled
    <2>1. CASE m \in table
      BY <2>1, <1>3 DEF EnvLabelled
    <2>2. CASE m \notin table
      <3>1. PICK s, v : m = Metric(status, WithStatus(labels, s), v)
        BY <2>2, <1>4, InEmitStatus
      <3>2. PICK l : l = WithStatus(labels, s)
        OBVIOUS
      <3>3. l.project = "p" /\ l.environment = "e"
        BY <3>2, <1>5, EnvironmentLabelDomains, StatusLabel DEF labels
      <3> QED
        BY <3>1, <3>2, <3>3, Fields
    <2> QED
      BY <2>1, <2>2
  <1>9. ASSUME NEW m, m.kind = "EnvironmentDeploymentCount"
        PROVE  m \in metrics' <=> m = CountMetric /\ m.kind \in Kept
    <2>1. OfKinds(metrics', {"EnvironmentDeploymentCount"}) = OfKinds(table, {"EnvironmentDeploymentCount"})
      BY <1>4, <1>6, EmitStatusFrame
    <2>2. m \in metrics' <=> m \in table
      BY <2>1, <1>9 DEF OfKinds
    <2>3. m \in table <=> m \in DeploymentMetrics /\ m.kind \in Kept
      BY <1>2, <1>3, <1>9
    <2> QED
      BY <2>2, <2>3, <1>2, <1>9
  <1>10. ASSUME NEW kinds, kinds \cap EnvironmentKinds \subseteq BehindKinds
         PROVE  OfKinds(metrics', kinds) = OfKinds(metrics, kinds)
    <2>1. status \notin kinds /\ \A x \in DeploymentMetrics : x.kind \notin kinds
      <3>1. status \notin BehindKinds /\ status \in EnvironmentKinds
        BY DEF status, BehindKinds, EnvironmentKinds
      <3>2. \A kind \in {"EnvironmentDeploymentCount"} \cup GaugesWritten :
               kind \notin BehindKinds /\ kind \in EnvironmentKinds
        BY DEF GaugesWritten, BehindKinds, EnvironmentKinds
      <3> QED
        BY <3>1, <3>2, <1>2, <1>10
    <2>2. OfKinds(metrics', kinds) = OfKinds(table, kinds)
      BY <1>4, <2>1, EmitStatusFrame
    <2> QED
      BY <1>3, <2>1, <2>2
  <1> QED
    BY <1>7, <1>8, <1>9, <1>10

\* A step of the environment keeps the table right and changes only metrics of environments.
LEMMA EnvironmentTableStep ==
    ASSUME EnvTyped, Right(metrics), EnvLabelled(metrics), EnvStep
    PROVE  /\ Right(metrics') /\ EnvLabelled(metrics')
           /\ \A kinds : kinds \cap EnvironmentKinds = {} => OfKinds(metrics', kinds) = OfKinds(metrics, kinds)
  <1>1. BehindKinds \subseteq EnvironmentKinds /\ {} \subseteq BehindKinds
    BY DEF BehindKinds, EnvironmentKinds
  <1>2. "EnvironmentBehindCommitsCount" \in EnvironmentKinds /\ "EnvironmentInformation" \in EnvironmentKinds
    BY DEF EnvironmentKinds
  <1>3. CASE WriteBehind
    BY <1>2, <1>3, BehindWrite
  <1>4. CASE WriteDeployment
    BY <1>1, <1>4, DeploymentWrite
  <1>5. CASE WriteInformation
    BY <1>2, <1>5, InformationWrite
  <1>6. CASE metrics' = metrics
    BY <1>6
  <1> QED
    BY <1>3, <1>4, <1>5, <1>6, EnvironmentWrites

-----------------------------------------------------------------------------
\* The number of commits behind.

\* The number may be missing, or 0: a collection took it.
MayMiss == robbed \/ replaced

Behinds == {m.value : m \in OfEnvironment("EnvironmentBehindCommitsCount")}
Near(values, n) == values = {n} \/ (MayMiss /\ values \subseteq {n, 0})

\* The number of commits between the two that the pull has.
Distance == envPull.head - envPull.copy.latest.commit

\* While a pull writes, the number is that of the commits it writes last.
BehindInv ==
    /\ BehindExact
    /\ "EnvironmentInformation" \in Kept =>
          /\ envPull.stage \in {"reusing", "deploying", "informing"} => Near(Behinds, Distance)
          /\ envPull.stage = "writing" => envPull.behind = Distance \/ (MayMiss /\ envPull.behind = 0)

\* At first no metrics are there to differ.
LEMMA BehindInit ==
    ASSUME metrics = {}, EnvInit
    PROVE  BehindInv
  BY DEF BehindInv, BehindExact, OfEnvironment, EnvInit, NoEnvPull

\* What is stored of a single kind, or 0.
LEMMA StoredSingle ==
    ASSUME Right(metrics), EnvLabelled(metrics), NEW kind \in SingleKinds \ {"EnvironmentInformation"},
           NEW stored, stored = GetMetric(metrics, Metric(kind, EnvironmentLabelsValues, 0))
    PROVE  \/ OfEnvironment(kind) = {} /\ stored.value = 0
           \/ stored \in OfEnvironment(kind)
  <1>1. PICK none : none = Metric(kind, EnvironmentLabelsValues, 0)
    OBVIOUS
  <1>2. none.kind = kind /\ none.value = 0 /\ none.labels = EnvironmentLabelsValues
    BY <1>1, Fields
  <1>3. stored = GetMetric(metrics, none)
    BY <1>1
  <1>4. CASE OfEnvironment(kind) = {}
    <2>1. stored = none
      BY <1>2, <1>3, <1>4, GetMetricIn, GetMetricKind DEF OfEnvironment
    <2> QED
      BY <2>1, <1>2, <1>4
  <1>5. CASE OfEnvironment(kind) # {}
    <2>1. PICK m \in metrics : m.kind = kind
      BY <1>5 DEF OfEnvironment
    <2>2. m.labels.project = "p" /\ m.labels.environment = "e"
      BY <2>1 DEF EnvLabelled, SingleKinds
    <2>3. Exported(m)
      BY <2>1 DEF Right, Table, Sound
    <2>4. Exported(none)
      BY <1>2, EnvironmentCollectors, EnvironmentLabelDomains DEF Exported
    <2>5. Key(m) = Key(none)
      BY <2>1, <2>2, <2>3, <2>4, <1>2, EnvironmentLabelDomains, SingleKey
    <2>6. stored \in metrics
      BY <2>1, <2>5, <1>3 DEF GetMetric, MetricExists
    <2> QED
      BY <2>6, <1>2, <1>3, GetMetricKind DEF OfEnvironment
  <1> QED
    BY <1>4, <1>5

\* Two commits that were compared before have the number that was counted then, or none.
LEMMA ComparedBefore ==
    ASSUME Right(metrics), BehindInv, envPull.stage = "comparing", NEW info,
           info = GetMetric(metrics, Metric("EnvironmentInformation", EnvironmentLabelsValues, 0)),
           Compared(info)
    PROVE  Near(Behinds, Distance)
  <1>1. PICK none : none = Metric("EnvironmentInformation", EnvironmentLabelsValues, 0)
    OBVIOUS
  <1>2. none.kind = "EnvironmentInformation" /\ none.value = 0
    BY <1>1, Fields
  <1>3. info # none /\ info = GetMetric(metrics, none)
    BY <1>1, <1>2 DEF Compared
  <1>4. info \in OfEnvironment("EnvironmentInformation")
    BY <1>2, <1>3, GetMetricIn, GetMetricKind DEF OfEnvironment
  <1>5. info.labels.latest_commit_short_id - info.labels.current_commit_short_id = Distance
    BY DEF Compared, Distance
  <1>6. BehindExact
    BY DEF BehindInv
  <1>7. PICK exact : exact = info.labels.latest_commit_short_id - info.labels.current_commit_short_id
    OBVIOUS
  <1>8. Behinds = {exact} \/ ((robbed \/ replaced) /\ Behinds \subseteq {exact, 0})
    BY <1>4, <1>6, <1>7 DEF BehindExact, Behinds
  <1> QED
    BY <1>5, <1>7, <1>8 DEF Near, MayMiss

\* The steps of the pull.
LEMMA PullSteps ==
    ASSUME EnvTyped, EnvStep, envPull' # envPull
    PROVE  \/ CompareCommits \/ ReuseBehind \/ GetCommitCountBetweenRefs
           \/ WriteBehind \/ WriteDeployment \/ WriteInformation
           \/ /\ envPull.stage \in {"idle", "queued", "updating", "reading"}
              /\ envPull'.stage \in {"idle", "queued", "updating", "reading", "comparing"}
  <1> SUFFICES ASSUME ~CompareCommits, ~ReuseBehind, ~GetCommitCountBetweenRefs,
                      ~WriteBehind, ~WriteDeployment, ~WriteInformation
               PROVE  /\ envPull.stage \in {"idle", "queued", "updating", "reading"}
                      /\ envPull'.stage \in {"idle", "queued", "updating", "reading", "comparing"}
    OBVIOUS
  <1>1. StoreDiscovered \/ ScheduleEnvironmentMetrics \/ ProcessDeploymentEvent \/ RefreshEnvironment
          \/ UpdateEnvironment \/ ReadHead
    BY DEF EnvStep, EnvDiscoveryStep, EnvPullStep, EnvSweepStep, EnvOthers, ChangeState, Commit, Deploy,
           EndDeployment, Unconfigure, PullEnvironmentsFromProject, LookUpEnvironment, UpdateDiscovered,
           CollectEnvironments, CheckEnvironment, ListEnvironments, SweepEnvironments, sweepVars
  <1>2. NoEnvPull.stage = "idle" /\ \A copy : [NoEnvPull EXCEPT !.stage = "queued", !.copy = copy].stage = "queued"
    BY DEF NoEnvPull
  <1>3. CASE StoreDiscovered \/ ScheduleEnvironmentMetrics \/ ProcessDeploymentEvent
    <2>1. envPull.stage = "idle" /\ \E copy : envPull' = [NoEnvPull EXCEPT !.stage = "queued", !.copy = copy]
      BY <1>3 DEF StoreDiscovered, ScheduleEnvironmentMetrics, ProcessDeploymentEvent, Schedule
    <2> QED
      BY <2>1, <1>2
  <1>4. CASE RefreshEnvironment
    <2>1. \E copy, former : envPull' = [envPull EXCEPT !.stage = "updating", !.copy = copy, !.former = former]
      BY <1>4 DEF RefreshEnvironment
    <2>2. envPull.stage = "queued"
      BY <1>4 DEF RefreshEnvironment
    <2> QED
      BY <2>1, <2>2, PullFields DEF EnvTyped
  <1>5. CASE UpdateEnvironment
    <2>1. envPull.stage = "updating"
      BY <1>5 DEF UpdateEnvironment
    <2>2. CASE envPull' = NoEnvPull
      BY <2>1, <2>2, <1>2
    <2>3. CASE envPull' # NoEnvPull
      <3>1. PICK copy : envPull' = [envPull EXCEPT !.stage = "reading", !.copy = copy]
        BY <1>5, <2>3 DEF UpdateEnvironment
      <3> QED
        BY <2>1, <3>1, PullFields DEF EnvTyped
    <2> QED
      BY <2>2, <2>3
  <1>6. CASE ReadHead
    <2>1. envPull.stage = "reading"
      BY <1>6 DEF ReadHead
    <2>2. CASE envPull' = NoEnvPull
      BY <2>1, <2>2, <1>2
    <2>3. CASE envPull' # NoEnvPull
      <3>1. PICK head : envPull' = [envPull EXCEPT !.stage = "comparing", !.head = head]
        BY <1>6, <2>3 DEF ReadHead, PullFails
      <3> QED
        BY <2>1, <3>1, PullFields DEF EnvTyped
    <2> QED
      BY <2>2, <2>3
  <1> QED
    BY <1>1, <1>3, <1>4, <1>5, <1>6

\* What was replaced counts as replaced from then on.
LEMMA ReplacedForGood ==
    ASSUME EnvStep, EnvTyped, replaced
    PROVE  replaced'
  BY DEF EnvStep, EnvOthers, ChangeState, Commit, Deploy, EndDeployment, Unconfigure, historyOfEnv,
         EnvDiscoveryStep, PullEnvironmentsFromProject, LookUpEnvironment, UpdateDiscovered, StoreDiscovered,
         EnvPullStep, ScheduleEnvironmentMetrics, RefreshEnvironment, UpdateEnvironment, ReadHead, CompareCommits,
         ReuseBehind, GetCommitCountBetweenRefs, WriteBehind, WriteDeployment, WriteInformation, EnvSweepStep,
         CollectEnvironments, CheckEnvironment, ListEnvironments, SweepEnvironments, ProcessDeploymentEvent,
         EnvUnchanged, SetEnvironment, DelEnvironment

\* A step of the environment keeps the number of commits behind that of the two commits exported
\* (environments.go:153): a number is taken from the store only with the two commits it is of, and
\* those are written last.
LEMMA BehindStep ==
    ASSUME EnvTyped, Right(metrics), EnvLabelled(metrics), BehindInv, EnvStep, robbed' = robbed
    PROVE  BehindInv'
  <1>1. envPull \in EnvironmentPull
    BY DEF EnvTyped
  <1>2. envPull.head \in Nat /\ envPull.copy.latest.commit \in Nat
    BY <1>1, PullFields, DeploymentRecords
  <1>3. MayMiss => MayMiss'
    BY ReplacedForGood DEF MayMiss
  <1>4. /\ "EnvironmentBehindCommitsCount" \in SingleKinds \ {"EnvironmentInformation"}
        /\ "EnvironmentInformation" \notin {"EnvironmentBehindCommitsCount"}
        /\ {"EnvironmentBehindCommitsCount"} \cap EnvironmentKinds \subseteq BehindKinds
    BY DEF SingleKinds, EnvironmentKinds, BehindKinds
  <1>5. ASSUME OfKinds(metrics', {"EnvironmentBehindCommitsCount"}) = OfKinds(metrics, {"EnvironmentBehindCommitsCount"})
        PROVE  Behinds' = Behinds
    <2>1. OfEnvironment("EnvironmentBehindCommitsCount")' = OfEnvironment("EnvironmentBehindCommitsCount")
      BY <1>5 DEF OfKinds, OfEnvironment
    <2> QED
      BY <2>1 DEF Behinds
  <1>6. CASE WriteBehind
    <2>1. envPull.stage = "writing" /\ \E n : envPull' = [envPull EXCEPT !.stage = "deploying", !.count = n]
      BY <1>6 DEF WriteBehind
    <2>2. envPull'.stage = "deploying" /\ envPull'.head = envPull.head /\ envPull'.copy = envPull.copy
      BY <2>1, <1>1, PullFields
    <2>3. ASSUME "EnvironmentInformation" \in Kept
          PROVE  Near(Behinds, Distance)'
      <3>1. Distance' = Distance
        BY <2>2 DEF Distance
      <3>2. "EnvironmentBehindCommitsCount" \in Kept
        BY <2>3, EnvironmentKindsAssumption
      <3>3. \A m : m \in OfEnvironment("EnvironmentBehindCommitsCount")' <=> m = BehindMetric
        BY <3>2, <1>6, BehindWrite, WrittenMetrics DEF OfEnvironment
      <3>4. Behinds' = {envPull.behind}
        BY <3>3, WrittenMetrics DEF Behinds
      <3>5. envPull.behind = Distance \/ (MayMiss /\ envPull.behind = 0)
        BY <2>1, <2>3 DEF BehindInv
      <3> QED
        BY <3>1, <3>4, <3>5, <1>3 DEF Near
    <2> QED
      BY <2>2, <2>3 DEF BehindInv, BehindExact
  <1>7. CASE WriteDeployment
    <2>1. envPull.stage = "deploying" /\ envPull' = [envPull EXCEPT !.stage = "informing"]
      BY <1>7 DEF WriteDeployment
    <2>2. envPull'.stage = "informing" /\ envPull'.head = envPull.head /\ envPull'.copy = envPull.copy
      BY <2>1, <1>1, PullFields
    <2>3. Behinds' = Behinds
      BY <1>4, <1>5, <1>7, DeploymentWrite
    <2>4. Distance' = Distance
      BY <2>2 DEF Distance
    <2> QED
      BY <2>1, <2>2, <2>3, <2>4, <1>3 DEF BehindInv, BehindExact, Near
  <1>8. CASE WriteInformation
    <2>1. envPull.stage = "informing" /\ envPull'.stage = "idle"
      BY <1>8 DEF WriteInformation, NoEnvPull
    <2>2. Behinds' = Behinds
      BY <1>4, <1>5, <1>8, InformationWrite
    <2>3. BehindExact'
      <3> SUFFICES ASSUME NEW info \in OfEnvironment("EnvironmentInformation")', NEW exact,
                          exact = info.labels.latest_commit_short_id - info.labels.current_commit_short_id
                   PROVE  Behinds' = {exact} \/ ((robbed' \/ replaced') /\ Behinds' \subseteq {exact, 0})
        BY DEF BehindExact, Behinds
      <3>1. info = InformationMetric /\ "EnvironmentInformation" \in Kept
        BY <1>8, InformationWrite DEF OfEnvironment
      <3>2. exact = Distance
        BY <3>1, WrittenMetrics, EnvironmentLabelDomains DEF Distance
      <3>3. Near(Behinds, Distance)
        BY <2>1, <3>1 DEF BehindInv
      <3> QED
        BY <2>2, <3>2, <3>3, <1>3 DEF Near, MayMiss
    <2> QED
      BY <2>1, <2>3 DEF BehindInv
  <1>9. CASE metrics' = metrics /\ ~WriteBehind /\ ~WriteDeployment /\ ~WriteInformation
    <2>1. Behinds' = Behinds
      BY <1>9, <1>5
    <2>2. \/ envPull' = envPull
          \/ /\ envPull.stage \notin {"deploying", "informing"}
             /\ CompareCommits \/ ReuseBehind \/ GetCommitCountBetweenRefs
                  \/ envPull'.stage \in {"idle", "queued", "updating", "reading", "comparing"}
      BY <1>9, PullSteps DEF CompareCommits, ReuseBehind, GetCommitCountBetweenRefs
    <2>3. BehindExact'
      <3>1. CASE envPull' = envPull
        BY <1>3, <1>9, <3>1 DEF BehindInv, BehindExact, OfEnvironment, MayMiss
      <3>2. CASE envPull.stage \notin {"deploying", "informing"}
        BY <1>3, <1>9, <3>2 DEF BehindInv, BehindExact, OfEnvironment, MayMiss
      <3> QED
        BY <2>2, <3>1, <3>2
    <2>4. ASSUME "EnvironmentInformation" \in Kept
          PROVE  /\ envPull'.stage \in {"reusing", "deploying", "informing"} => Near(Behinds, Distance)'
                 /\ envPull'.stage = "writing" => envPull'.behind = Distance' \/ (MayMiss' /\ envPull'.behind = 0)
      <3>1. CASE envPull' = envPull
        <4>1. Distance' = Distance
          BY <3>1 DEF Distance
        <4> QED
          BY <1>3, <2>1, <2>4, <3>1, <4>1 DEF BehindInv, Near
      <3>2. CASE CompareCommits
        <4>1. PICK info, stage :
                 /\ info = GetMetric(metrics, Metric("EnvironmentInformation", EnvironmentLabelsValues, 0))
                 /\ stage = IF envPull.head = envPull.copy.latest.commit THEN "writing"
                            ELSE IF Compared(info) THEN "reusing" ELSE "counting"
                 /\ envPull' = [envPull EXCEPT !.stage = stage, !.behind = 0]
                 /\ envPull.stage = "comparing"
          BY <3>2 DEF CompareCommits
        <4>2. /\ envPull'.stage = stage /\ envPull'.behind = 0
              /\ envPull'.head = envPull.head /\ envPull'.copy = envPull.copy
          BY <4>1, <1>1, PullFields
        <4>3. Distance' = Distance
          BY <4>2 DEF Distance
        <4>4. stage = "writing" => Distance = 0
          BY <4>1, <1>2 DEF Distance
        <4>5. stage = "reusing" => Near(Behinds, Distance)
          BY <4>1, ComparedBefore
        <4>6. stage \in {"writing", "reusing", "counting"}
          BY <4>1
        <4> QED
          BY <1>3, <2>1, <4>2, <4>3, <4>4, <4>5, <4>6 DEF Near
      <3>3. CASE ReuseBehind
        <4>1. PICK stored :
                 /\ stored = GetMetric(metrics, Metric("EnvironmentBehindCommitsCount", EnvironmentLabelsValues, 0))
                 /\ envPull' = [envPull EXCEPT !.stage = "writing", !.behind = stored.value]
                 /\ envPull.stage = "reusing"
          BY <3>3 DEF ReuseBehind
        <4>2. /\ envPull'.stage = "writing" /\ envPull'.behind = stored.value
              /\ envPull'.head = envPull.head /\ envPull'.copy = envPull.copy
          BY <4>1, <1>1, PullFields
        <4>3. Distance' = Distance
          BY <4>2 DEF Distance
        <4>4. Near(Behinds, Distance)
          BY <2>4, <4>1 DEF BehindInv
        <4>5. stored.value \in Behinds \/ (Behinds = {} /\ stored.value = 0)
          BY <4>1, <1>4, StoredSingle DEF Behinds
        <4> QED
          BY <1>3, <4>2, <4>3, <4>4, <4>5 DEF Near
      <3>4. CASE GetCommitCountBetweenRefs
        <4>1. envPull' = NoEnvPull \/ envPull' = [envPull EXCEPT !.stage = "writing", !.behind = Distance]
          BY <3>4 DEF GetCommitCountBetweenRefs, PullFails, Distance
        <4>2. NoEnvPull.stage = "idle"
          BY DEF NoEnvPull
        <4>3. CASE envPull' = [envPull EXCEPT !.stage = "writing", !.behind = Distance]
          <5>1. /\ envPull'.stage = "writing" /\ envPull'.behind = Distance
                /\ envPull'.head = envPull.head /\ envPull'.copy = envPull.copy
            BY <4>3, <1>1, PullFields
          <5> QED
            BY <5>1 DEF Distance
        <4> QED
          BY <4>1, <4>2, <4>3
      <3>5. CASE envPull'.stage \in {"idle", "queued", "updating", "reading", "comparing"}
        BY <3>5
      <3> QED
        BY <2>2, <3>1, <3>2, <3>3, <3>4, <3>5
    <2> QED
      BY <2>3, <2>4 DEF BehindInv
  <1> QED
    BY <1>6, <1>7, <1>8, <1>9, EnvironmentWrites

-----------------------------------------------------------------------------
\* The deployments that are counted.

\* The pull has stored the environment; its deployment is yet to be counted.
Updated(pull) == pull.stage \in {"reading", "comparing", "reusing", "counting", "writing", "deploying"}
Pending(pull) == IF Updated(pull) /\ pull.copy.latest.job > pull.former THEN 1 ELSE 0

\* The deployments that are counted by now.
Due == Cardinality(deployments) - 1 - uncounted - Pending(envPull)

Deployed ==
    /\ environment.stored =>
          environment.latest.job \in deployments /\ \A d \in deployments : d <= environment.latest.job
    /\ ~environment.stored =>
          deployments = {} /\ uncounted = 0 /\ envPull.stage = "idle" /\ ~envSweep.copy.stored
    /\ discovery.stage \in {"updating", "storing"} => ~environment.stored
    /\ envSweep.copy.latest.job <= environment.latest.job
    /\ envPull.stage = "updating" => envPull.former = environment.latest.job
    /\ Updated(envPull) => envPull.copy.latest.job = environment.latest.job

DeploymentCounts == OfEnvironment("EnvironmentDeploymentCount")

Counted ==
    /\ ~environment.stored => OfKinds(metrics, SingleKinds) = {}
    /\ environment.stored /\ ~robbed /\ "EnvironmentDeploymentCount" \in Kept =>
          /\ \A m \in DeploymentCounts : m.value = Due
          /\ DeploymentCounts = {} => Due = 0
          /\ envPull.stage = "deploying" => envPull.count = Due

DeploymentsInv == ~replaced => Deployed /\ Counted

\* The deployments seen are finitely many.
LEMMA FewDeployments ==
    ASSUME NEW jobs, NEW last \in Nat, jobs \subseteq 0..last
    PROVE  IsFiniteSet(jobs) /\ Cardinality(jobs) \in Nat
  <1>1. IsFiniteSet(0..last)
    BY FS_Interval
  <1> QED
    BY <1>1, FS_Subset, FS_CardinalityType

\* At first no deployment is counted, or the one that Redis has is known.
LEMMA DeployedInit ==
    ASSUME EnvInit, metrics = {}, envSettings \in EnvSettings
    PROVE  DeploymentsInv
  <1>1. /\ NoEnvPull.stage = "idle" /\ NoSweep.copy = NoEnvironment /\ ~NoEnvironment.stored
        /\ NoEnvironment.latest.job = 0
    BY DEF NoEnvPull, NoSweep, NoEnvironment, NoDeployment
  <1>2. LET env == [NoEnvironment EXCEPT !.stored = TRUE, !.id = 1, !.sparse = ~envSettings.sparse]
        IN env.stored /\ env.latest.job = 0
    BY DEF NoEnvironment, NoDeployment
  <1>3. envPull.stage = "idle" /\ discovery.stage = "idle" /\ ~Updated(envPull) /\ Pending(envPull) = 0
    BY <1>1 DEF EnvInit, Updated, Pending
  <1>4. Cardinality({0}) = 1
    BY FS_Singleton
  <1>5. CASE envSettings.leftover
    <2>1. environment.stored /\ environment.latest.job = 0 /\ deployments = {0} /\ envSweep.copy.latest.job = 0
           /\ uncounted = 0
      BY <1>1, <1>2, <1>5 DEF EnvInit
    <2> QED
      BY <2>1, <1>3, <1>4 DEF DeploymentsInv, Deployed, Counted, Due, DeploymentCounts, OfEnvironment
  <1>6. CASE ~envSettings.leftover
    <2>1. ~environment.stored /\ environment.latest.job = 0 /\ deployments = {} /\ envSweep.copy = NoEnvironment
           /\ uncounted = 0
      BY <1>1, <1>6 DEF EnvInit
    <2> QED
      BY <2>1, <1>1, <1>3 DEF DeploymentsInv, Deployed, Counted, OfKinds
  <1> QED
    BY <1>5, <1>6

\* As long as the environment is not replaced, what is due changes by what a pull writes.
DueChange ==
    /\ environment.stored => environment'.stored
    /\ environment.stored => Due' = IF WriteDeployment THEN Due + Pending(envPull) ELSE Due
    /\ ~environment.stored /\ environment'.stored => Due' = 0

\* A step of the environment stores newer deployments only, unless it replaces it; what has to be
\* counted changes as it is written.
LEMMA DeployedStep ==
    ASSUME EnvTyped, EnvRelated, EnvTyped', EnvRelated', EnvStep, ~replaced', Deployed
    PROVE  Deployed' /\ DueChange
  <1>1. /\ IsFiniteSet(deployments) /\ Cardinality(deployments) \in Nat /\ uncounted \in Nat
        /\ Cardinality(deployments') \in Nat /\ uncounted' \in Nat
        /\ Pending(envPull) \in {0, 1} /\ Pending(envPull') \in {0, 1}
    <2>1. /\ deployments \subseteq 0..envSettings.deployments /\ deployments' \subseteq 0..envSettings'.deployments
          /\ envSettings.deployments \in Nat /\ envSettings'.deployments \in Nat
      BY DEF EnvTyped, EnvRelated, EnvSettings
    <2>2. IsFiniteSet(deployments) /\ Cardinality(deployments) \in Nat /\ Cardinality(deployments') \in Nat
      BY <2>1, FewDeployments
    <2> QED
      BY <2>2 DEF Pending, EnvTyped
  <1>2. /\ environment \in Environment /\ envPull \in EnvironmentPull /\ envSweep \in EnvironmentSweep
        /\ environment.latest.job \in Nat /\ gitlabEnv.latest \in Deployment /\ gitlabEnv.latest.job \in Nat
        /\ envPull.copy.latest.job \in Nat /\ envPull.former \in Nat
    BY EnvironmentRecords, DeploymentRecords, PullFields DEF EnvTyped
  <1>3. /\ NoEnvPull.stage = "idle" /\ NoSweep.copy = NoEnvironment /\ ~NoEnvironment.stored
        /\ NoEnvironment.latest.job = 0 /\ ~Updated(NoEnvPull) /\ Pending(NoEnvPull) = 0
    BY DEF NoEnvPull, NoSweep, NoEnvironment, NoDeployment, Updated, Pending
  <1>w. WriteDeployment => envPull.stage = "deploying" /\ envPull'.stage = "informing"
    <2>1. SUFFICES ASSUME WriteDeployment
                   PROVE  envPull.stage = "deploying" /\ envPull'.stage = "informing"
      OBVIOUS
    <2>2. envPull.stage = "deploying" /\ envPull' = [envPull EXCEPT !.stage = "informing"]
      BY <2>1 DEF WriteDeployment
    <2> QED
      BY <2>2, <1>2, PullFields
  \* The environment and its pull are left alone.
  <1>4. ASSUME UNCHANGED <<environment, deployments, uncounted, envPull>>,
               envSweep'.copy.latest.job <= environment.latest.job,
               ~environment.stored => ~envSweep'.copy.stored,
               discovery'.stage \in {"updating", "storing"} => ~environment.stored,
               ~WriteDeployment
        PROVE  Deployed' /\ DueChange
    <2>1. Deployed'
      BY <1>4 DEF Deployed
    <2>2. Due' = Due
      BY <1>4 DEF Due
    <2> QED
      BY <2>1, <2>2, <1>4 DEF DueChange
  \* Only the pull goes on.
  <1>5. ASSUME UNCHANGED <<environment, deployments, discovery, envSweep>>,
               ~environment.stored => envPull'.stage = "idle" /\ uncounted' = uncounted,
               envPull'.stage = "updating" => envPull'.former = environment.latest.job,
               Updated(envPull') => envPull'.copy.latest.job = environment.latest.job,
               uncounted' + Pending(envPull')
                 = uncounted + IF WriteDeployment THEN 0 ELSE Pending(envPull)
        PROVE  Deployed' /\ DueChange
    <2>1. Deployed'
      BY <1>5 DEF Deployed
    <2>2. Due' = IF WriteDeployment THEN Due + Pending(envPull) ELSE Due
      BY <1>1, <1>5 DEF Due
    <2> QED
      BY <2>1, <2>2, <1>5 DEF DueChange
  <1>6. CASE EnvOthers
    <2>1. UNCHANGED <<environment, deployments, uncounted, envPull, discovery>>
      BY <1>6 DEF EnvOthers, ChangeState, Commit, Deploy, EndDeployment, Unconfigure, historyOfEnv, otherTasks
    <2>2. envSweep'.copy = envSweep.copy
      BY <1>6, <1>2 DEF EnvOthers, ChangeState, Commit, Deploy, EndDeployment, Unconfigure, StillWanted, otherTasks,
                        EnvironmentSweep
    <2>3. ~WriteDeployment
      BY <2>1, <1>w
    <2> QED
      BY <2>1, <2>2, <2>3, <1>4 DEF Deployed
  <1>7. CASE PullEnvironmentsFromProject \/ LookUpEnvironment \/ UpdateDiscovered
    <2>1. UNCHANGED <<environment, deployments, uncounted, envPull, envSweep>>
      BY <1>7 DEF PullEnvironmentsFromProject, LookUpEnvironment, UpdateDiscovered, historyOfEnv
    <2>2. discovery'.stage \in {"updating", "storing"} => ~environment.stored
      <3>1. CASE PullEnvironmentsFromProject
        BY <3>1 DEF PullEnvironmentsFromProject, EnvTyped, Discovery
      <3>2. CASE LookUpEnvironment
        BY <3>2, <1>3 DEF LookUpEnvironment
      <3>3. CASE UpdateDiscovered
        BY <3>3, <1>3 DEF UpdateDiscovered, Deployed
      <3> QED
        BY <1>7, <3>1, <3>2, <3>3
    <2>3. ~WriteDeployment
      BY <2>1, <1>w
    <2> QED
      BY <2>1, <2>2, <2>3, <1>4 DEF Deployed
  <1>8. CASE CollectEnvironments \/ ListEnvironments
    <2>1. UNCHANGED <<environment, deployments, uncounted, envPull, discovery>>
      BY <1>8 DEF CollectEnvironments, ListEnvironments, EnvUnchanged, sweepVars
    <2>2. envSweep'.copy \in {environment, envSweep.copy, NoEnvironment}
      <3>1. CASE CollectEnvironments
        BY <3>1 DEF CollectEnvironments
      <3>2. CASE ListEnvironments
        <4>1. CASE envSweep' = NoSweep
          BY <4>1, <1>3
        <4>2. CASE envSweep' # NoSweep
          <5>1. envSweep' = [envSweep EXCEPT !.stage = "sweeping", !.listed = EnvListed]
            BY <3>2, <4>2 DEF ListEnvironments
          <5> QED
            BY <5>1, <1>2 DEF EnvironmentSweep
        <4> QED
          BY <4>1, <4>2
      <3> QED
        BY <1>8, <3>1, <3>2
    <2>3. ~WriteDeployment
      BY <2>1, <1>w
    <2> QED
      BY <2>1, <2>2, <2>3, <1>2, <1>3, <1>4 DEF Deployed
  <1>9. CASE SweepEnvironments
    <2>1. UNCHANGED <<deployments, uncounted, envPull, discovery>> /\ envSweep' = NoSweep
      BY <1>9 DEF SweepEnvironments, DelEnvironment, EnvUnchanged, sweepVars
    <2>2. environment' = environment
      BY <1>9 DEF SweepEnvironments, DelEnvironment, EnvUnchanged
    <2>3. ~WriteDeployment
      BY <2>1, <1>w
    <2> QED
      BY <2>1, <2>2, <2>3, <1>2, <1>3, <1>4 DEF Deployed
  <1>10. CASE CheckEnvironment
    <2>1. UNCHANGED <<uncounted, envPull, discovery>> /\ envSweep'.copy = envSweep.copy
      BY <1>10, <1>2 DEF CheckEnvironment, sweepVars, EnvironmentSweep
    <2>2. ~WriteDeployment
      BY <2>1, <1>w
    <2>3. environment.stored
      BY <1>10 DEF CheckEnvironment, EnvRelated, Deployed
    <2>4. CASE UNCHANGED <<environment, deployments>>
      BY <2>1, <2>2, <2>4, <1>4 DEF Deployed
    <2>5. CASE SetEnvironment([envSweep.copy EXCEPT !.sparse = envSettings.sparse])
      <3>1. envSweep.copy \in Environment /\ envSweep.copy.latest.job \in Nat
        BY <1>2, EnvironmentRecords, DeploymentRecords DEF EnvironmentSweep
      <3>2. PICK env : env = [envSweep.copy EXCEPT !.sparse = envSettings.sparse]
        OBVIOUS
      <3>3. env \in Environment /\ env.latest = envSweep.copy.latest
        BY <3>1, <3>2 DEF EnvTyped, EnvSettings, Environment
      <3>4. /\ environment' = [env EXCEPT !.stored = TRUE]
            /\ deployments' = deployments \cup {env.latest.job}
            /\ ~(env.latest.job < environment.latest.job)
        BY <2>5, <3>2 DEF SetEnvironment
      <3>5. environment'.stored /\ environment'.latest = env.latest
        BY <3>3, <3>4 DEF Environment
      <3>6. env.latest.job = environment.latest.job
        BY <3>1, <3>3, <3>4, <1>2 DEF Deployed
      <3>7. deployments' = deployments
        BY <3>4, <3>6, <2>3 DEF Deployed
      <3>8. Deployed'
        BY <2>1, <2>3, <3>3, <3>5, <3>6, <3>7 DEF Deployed
      <3> QED
        BY <3>5, <3>7, <3>8, <2>1, <2>2, <2>3 DEF DueChange, Due
    <2> QED
      BY <1>10, <2>3, <2>4, <2>5 DEF CheckEnvironment, DelEnvironment, EnvUnchanged
  <1>11. CASE StoreDiscovered
    <2>1. /\ ~environment.stored /\ deployments = {} /\ uncounted = 0 /\ envPull.stage = "idle"
          /\ ~envSweep.copy.stored
      BY <1>11 DEF StoreDiscovered, Deployed
    <2>2. /\ environment' = [discovery.copy EXCEPT !.stored = TRUE] /\ deployments' = {discovery.copy.latest.job}
          /\ UNCHANGED <<uncounted, envSweep>> /\ discovery' = NoEnvPull
          /\ ~(discovery.copy.latest.job < environment.latest.job)
      BY <1>11, <2>1 DEF StoreDiscovered, SetEnvironment
    <2>3. discovery.copy \in Environment /\ discovery.copy.latest.job \in Nat
      BY EnvironmentRecords, DeploymentRecords DEF EnvTyped, Discovery
    <2>4. environment'.stored /\ environment'.latest = discovery.copy.latest
      BY <2>2, <2>3 DEF Environment
    <2>5. envPull'.stage = "queued" /\ ~Updated(envPull') /\ Pending(envPull') = 0
      <3>1. envPull' = [NoEnvPull EXCEPT !.stage = "queued", !.copy = discovery.copy]
        BY <1>11, <2>1 DEF StoreDiscovered, Schedule
      <3>2. envPull'.stage = "queued"
        BY <3>1 DEF NoEnvPull
      <3> QED
        BY <3>2 DEF Updated, Pending
    <2>6. envSweep'.copy.latest.job <= environment'.latest.job
      <3>1. envSweep.copy.latest.job \in Nat
        BY <1>2, EnvironmentRecords, DeploymentRecords DEF EnvironmentSweep
      <3> QED
        BY <3>1, <2>2, <2>3, <2>4, <1>2 DEF Deployed
    <2>7. Deployed'
      BY <2>2, <2>3, <2>4, <2>5, <2>6, <1>3 DEF Deployed
    <2>8. Due' = 0
      <3>1. PICK job : job = discovery.copy.latest.job
        OBVIOUS
      <3>2. deployments' = {job} /\ Cardinality({job}) = 1
        BY <3>1, <2>2, FS_Singleton
      <3>3. uncounted' = 0
        BY <2>1, <2>2
      <3> QED
        BY <3>2, <3>3, <2>5 DEF Due
    <2> QED
      BY <2>1, <2>7, <2>8 DEF DueChange
  <1>12. CASE ScheduleEnvironmentMetrics \/ ProcessDeploymentEvent
    <2>1. UNCHANGED <<environment, deployments, discovery, envSweep, uncounted>>
      BY <1>12 DEF ScheduleEnvironmentMetrics, ProcessDeploymentEvent, EnvUnchanged, envPullVars, otherTasks
    <2>2. \/ envPull' = envPull
          \/ /\ environment.stored /\ envPull.stage = "idle"
             /\ envPull' = [NoEnvPull EXCEPT !.stage = "queued", !.copy = environment]
      BY <1>12 DEF ScheduleEnvironmentMetrics, ProcessDeploymentEvent, Schedule
    <2>3. ~WriteDeployment
      BY <2>2, <1>w DEF NoEnvPull
    <2>4. CASE envPull' = envPull
      BY <2>1, <2>3, <2>4, <1>4 DEF Deployed
    <2>5. CASE envPull' # envPull
      <3>1. envPull'.stage = "queued"
        BY <2>2, <2>5 DEF NoEnvPull
      <3>2. Pending(envPull) = 0 /\ Pending(envPull') = 0 /\ ~Updated(envPull')
        BY <2>2, <2>5, <3>1 DEF Pending, Updated
      <3> QED
        BY <2>1, <2>2, <2>3, <2>5, <3>1, <3>2, <1>1, <1>5
    <2> QED
      BY <2>4, <2>5
  <1>13. CASE RefreshEnvironment
    <2>1. UNCHANGED <<environment, deployments, discovery, envSweep, uncounted>> /\ envPull.stage = "queued"
      BY <1>13 DEF RefreshEnvironment, EnvUnchanged, envPullVars, otherTasks
    <2>2. environment.stored
      BY <2>1 DEF Deployed
    <2>3. envPull' = [envPull EXCEPT !.stage = "updating", !.copy = environment, !.former = environment.latest.job]
      BY <1>13, <2>2 DEF RefreshEnvironment
    <2>4. envPull'.stage = "updating" /\ envPull'.former = environment.latest.job
      BY <2>3, <1>2, PullFields
    <2>5. Pending(envPull) = 0 /\ Pending(envPull') = 0 /\ ~Updated(envPull')
      BY <2>1, <2>4 DEF Pending, Updated
    <2>6. ~WriteDeployment
      BY <2>1 DEF WriteDeployment
    <2> QED
      BY <2>1, <2>2, <2>4, <2>5, <2>6, <1>1, <1>5
  <1>14. CASE UpdateEnvironment
    <2>1. UNCHANGED <<discovery, envSweep, uncounted>> /\ envPull.stage = "updating"
      BY <1>14 DEF UpdateEnvironment, envPullVars, otherTasks
    <2>2. environment.stored /\ envPull.former = environment.latest.job
      BY <2>1 DEF Deployed
    <2>3. Pending(envPull) = 0 /\ ~WriteDeployment
      BY <2>1 DEF Pending, Updated, WriteDeployment
    <2>4. CASE envPull' = NoEnvPull /\ EnvUnchanged
      BY <2>1, <2>2, <2>3, <2>4, <1>1, <1>3, <1>5 DEF EnvUnchanged
    <2>5. CASE /\ envPull' = [envPull EXCEPT !.stage = "reading", !.copy = GetEnvironment(envPull.copy)]
               /\ SetEnvironment(GetEnvironment(envPull.copy))
      <3>1. PICK env : env = GetEnvironment(envPull.copy)
        OBVIOUS
      <3>2. env \in Environment /\ env.latest = gitlabEnv.latest
        <4>1. envPull.copy \in Environment
          BY <1>2, PullFields
        <4> QED
          BY <3>1, <4>1, <1>2 DEF GetEnvironment, Environment
      <3>3. /\ environment' = [env EXCEPT !.stored = TRUE] /\ deployments' = deployments \cup {env.latest.job}
            /\ ~(env.latest.job < environment.latest.job)
        BY <2>5, <3>1 DEF SetEnvironment
      <3>4. environment'.stored /\ environment'.latest = gitlabEnv.latest
        BY <3>2, <3>3 DEF Environment
      <3>5. envPull'.stage = "reading" /\ envPull'.copy = env /\ envPull'.former = envPull.former
        BY <2>5, <3>1, <1>2, PullFields
      <3>6. Updated(envPull') /\ Pending(envPull') = IF gitlabEnv.latest.job > environment.latest.job THEN 1 ELSE 0
        BY <3>2, <3>5, <2>2 DEF Updated, Pending
      <3>7. \A d \in deployments : d \in Nat /\ d <= environment.latest.job
        BY <2>2 DEF Deployed, EnvRelated
      <3>8. Deployed'
        <4>1. \A d \in deployments' : d <= environment'.latest.job
          BY <3>2, <3>3, <3>4, <3>7, <1>2
        <4>2. envSweep.copy.latest.job \in Nat
          BY <1>2, EnvironmentRecords, DeploymentRecords DEF EnvironmentSweep
        <4>3. envSweep'.copy.latest.job <= environment'.latest.job
          BY <4>2, <2>1, <3>2, <3>3, <3>4, <1>2 DEF Deployed
        <4>4. environment'.latest.job \in deployments' /\ envPull'.copy.latest.job = environment'.latest.job
          BY <3>2, <3>3, <3>4, <3>5
        <4>5. ~(discovery'.stage \in {"updating", "storing"})
          BY <2>1, <2>2 DEF Deployed
        <4> QED
          BY <4>1, <4>3, <4>4, <4>5, <3>4, <3>5 DEF Deployed
      <3>9. Cardinality(deployments') = Cardinality(deployments) + Pending(envPull')
        <4>1. CASE gitlabEnv.latest.job > environment.latest.job
          <5>1. gitlabEnv.latest.job \notin deployments
            BY <4>1, <3>7, <1>2
          <5> QED
            BY <5>1, <4>1, <3>2, <3>3, <3>6, <1>1, FS_AddElement
        <4>2. CASE ~(gitlabEnv.latest.job > environment.latest.job)
          <5>1. gitlabEnv.latest.job = environment.latest.job
            BY <4>2, <3>2, <3>3, <1>2
          <5>2. deployments' = deployments
            BY <5>1, <3>2, <3>3, <2>2 DEF Deployed
          <5> QED
            BY <4>2, <5>2, <3>6, <1>1
        <4> QED
          BY <4>1, <4>2
      <3>10. Due' = Due
        BY <3>9, <2>1, <2>3, <1>1 DEF Due
      <3> QED
        BY <3>4, <3>8, <3>10, <2>2, <2>3 DEF DueChange
    <2> QED
      BY <1>14, <2>4, <2>5 DEF UpdateEnvironment
  <1>15. CASE ReadHead \/ GetCommitCountBetweenRefs \/ CompareCommits \/ ReuseBehind \/ WriteBehind
    <2>1. UNCHANGED <<environment, deployments, discovery, envSweep>> /\ Updated(envPull) /\ environment.stored
          /\ envPull.stage # "idle"
      BY <1>15 DEF ReadHead, GetCommitCountBetweenRefs, CompareCommits, ReuseBehind, WriteBehind, EnvUnchanged,
                   envPullVars, otherTasks, Updated, Deployed
    <2>2. ~WriteDeployment
      BY <1>15 DEF ReadHead, GetCommitCountBetweenRefs, CompareCommits, ReuseBehind, WriteBehind, WriteDeployment
    <2>3. CASE PullFails
      <3>1. envPull' = NoEnvPull /\ uncounted' = uncounted + Pending(envPull)
        BY <2>1, <2>3, <1>1 DEF PullFails, Pending
      <3> QED
        BY <3>1, <2>1, <2>2, <1>1, <1>3, <1>5
    <2>4. CASE ~PullFails
      <3>1. uncounted' = uncounted
        BY <1>15, <2>4 DEF ReadHead, GetCommitCountBetweenRefs, CompareCommits, ReuseBehind, WriteBehind
      <3>2. \/ \E head : envPull' = [envPull EXCEPT !.stage = "comparing", !.head = head]
            \/ \E stage \in {"counting", "reusing", "writing"} :
                  \E behind : envPull' = [envPull EXCEPT !.stage = stage, !.behind = behind]
            \/ \E count : envPull' = [envPull EXCEPT !.stage = "deploying", !.count = count]
        <4>1. CASE ReadHead
          BY <2>4, <4>1 DEF ReadHead
        <4>2. CASE GetCommitCountBetweenRefs
          BY <2>4, <4>2 DEF GetCommitCountBetweenRefs
        <4>3. CASE CompareCommits
          BY <4>3 DEF CompareCommits
        <4>4. CASE ReuseBehind
          BY <4>4 DEF ReuseBehind
        <4>5. CASE WriteBehind
          BY <4>5 DEF WriteBehind
        <4> QED
          BY <1>15, <4>1, <4>2, <4>3, <4>4, <4>5
      <3> DEFINE Stays == /\ envPull'.stage \in {"comparing", "counting", "reusing", "writing", "deploying"}
                          /\ envPull'.copy = envPull.copy /\ envPull'.former = envPull.former
      <3>3. Stays
        <4>1. ASSUME NEW head, envPull' = [envPull EXCEPT !.stage = "comparing", !.head = head]
              PROVE  Stays
          BY <4>1, <1>2, PullFields
        <4>2. ASSUME NEW stage \in {"counting", "reusing", "writing"}, NEW behind,
                     envPull' = [envPull EXCEPT !.stage = stage, !.behind = behind]
              PROVE  Stays
          BY <4>2, <1>2, PullFields
        <4>3. ASSUME NEW count, envPull' = [envPull EXCEPT !.stage = "deploying", !.count = count]
              PROVE  Stays
          BY <4>3, <1>2, PullFields
        <4> QED
          BY <3>2, <4>1, <4>2, <4>3
      <3>4. Updated(envPull') /\ Pending(envPull') = Pending(envPull)
        BY <3>3, <2>1 DEF Updated, Pending
      <3> QED
        BY <3>1, <3>3, <3>4, <2>1, <2>2, <1>1, <1>5 DEF Deployed
    <2> QED
      BY <2>3, <2>4
  <1>16. CASE WriteDeployment \/ WriteInformation
    <2>1. UNCHANGED <<environment, deployments, discovery, envSweep, uncounted>>
          /\ envPull.stage \in {"deploying", "informing"} /\ environment.stored
      BY <1>16 DEF WriteDeployment, WriteInformation, EnvUnchanged, envPullVars, otherTasks, Deployed
    <2>2. envPull'.stage \in {"idle", "informing"}
      BY <1>16, <1>3, <1>w DEF WriteInformation
    <2>3. ~Updated(envPull') /\ Pending(envPull') = 0
      BY <2>2 DEF Updated, Pending
    <2>4. ~WriteDeployment => Pending(envPull) = 0
      BY <1>16 DEF WriteInformation, Updated, Pending
    <2> QED
      BY <2>1, <2>2, <2>3, <2>4, <1>1, <1>5
  <1> QED
    BY <1>6, <1>7, <1>8, <1>9, <1>10, <1>11, <1>12, <1>13, <1>14, <1>15, <1>16
       DEF EnvStep, EnvDiscoveryStep, EnvPullStep, EnvSweepStep

\* A step of the environment counts no deployment twice and misses none but those that are
\* uncounted (environments.go:192).
LEMMA DeploymentsStep ==
    ASSUME EnvTyped, EnvRelated, EnvTyped', EnvRelated', Right(metrics), EnvLabelled(metrics), DeploymentsInv,
           EnvStep, robbed' = robbed
    PROVE  DeploymentsInv'
  <1> SUFFICES ASSUME ~replaced'
               PROVE  Deployed' /\ Counted'
    BY DEF DeploymentsInv
  <1>1. Deployed /\ Counted
    BY ReplacedForGood DEF DeploymentsInv
  <1>2. Deployed' /\ DueChange
    BY <1>1, DeployedStep
  <1>3. /\ "EnvironmentDeploymentCount" \in SingleKinds \ {"EnvironmentInformation"}
        /\ {"EnvironmentDeploymentCount"} \cap EnvironmentKinds = {"EnvironmentDeploymentCount"}
    BY DEF SingleKinds, EnvironmentKinds
  <1>4. envPull \in EnvironmentPull /\ envPull.count \in Nat
    BY PullFields DEF EnvTyped
  <1>5. ASSUME OfKinds(metrics', {"EnvironmentDeploymentCount"}) = OfKinds(metrics, {"EnvironmentDeploymentCount"})
        PROVE  DeploymentCounts' = DeploymentCounts
    BY <1>5 DEF OfKinds, DeploymentCounts, OfEnvironment
  <1>6. ASSUME envPull.stage # "idle", envPull.stage # "updating", EnvUnchanged
        PROVE  environment.stored /\ environment' = environment
    BY <1>1, <1>6 DEF EnvUnchanged, Deployed
  <1>7. CASE WriteBehind
    <2>1. environment.stored /\ environment' = environment
      BY <1>6, <1>7 DEF WriteBehind
    <2>2. DeploymentCounts' = DeploymentCounts
      BY <1>3, <1>5, <1>7, BehindWrite
    <2>3. Due' = Due
      BY <1>2, <1>7, <2>1 DEF DueChange, WriteBehind, WriteDeployment
    <2>4. PICK count :
             /\ count = GetMetric(metrics, Metric("EnvironmentDeploymentCount", EnvironmentLabelsValues, 0))
             /\ envPull' = [envPull EXCEPT !.stage = "deploying", !.count = count.value]
      BY <1>7 DEF WriteBehind
    <2>5. envPull'.count = count.value
      BY <2>4, <1>4, PullFields
    <2>6. count \in DeploymentCounts \/ (DeploymentCounts = {} /\ count.value = 0)
      BY <2>4, <1>3, StoredSingle DEF DeploymentCounts
    <2> QED
      BY <1>1, <1>2, <2>1, <2>2, <2>3, <2>5, <2>6 DEF Counted
  <1>8. CASE WriteDeployment
    <2>1. environment.stored /\ environment' = environment /\ envPull.stage = "deploying"
      BY <1>6, <1>8 DEF WriteDeployment
    <2>2. ASSUME ~robbed, "EnvironmentDeploymentCount" \in Kept
          PROVE  (\A m \in DeploymentCounts' : m.value = Due') /\ DeploymentCounts' # {}
      <3>1. envPull.count = Due
        BY <1>1, <2>1, <2>2 DEF Counted
      <3>2. CountWritten = Due + Pending(envPull)
        BY <1>4, <2>1, <3>1 DEF CountWritten, CountDeployment, Pending, Updated
      <3>3. Due' = CountWritten
        BY <3>2, <1>2, <1>8, <2>1 DEF DueChange
      <3>4. CountMetric.kind = "EnvironmentDeploymentCount" /\ CountMetric.value = CountWritten
        BY WrittenMetrics
      <3>5. \A m : m \in DeploymentCounts' <=> m = CountMetric
        BY <3>4, <1>8, <2>2, DeploymentWrite DEF DeploymentCounts, OfEnvironment
      <3> QED
        BY <3>3, <3>4, <3>5
    <2>3. envPull'.stage = "informing"
      BY <1>8, <1>4, PullFields DEF WriteDeployment
    <2> QED
      BY <2>1, <2>2, <2>3, <1>2 DEF Counted
  <1>9. CASE WriteInformation
    <2>1. environment.stored /\ environment' = environment
      BY <1>6, <1>9 DEF WriteInformation
    <2>2. DeploymentCounts' = DeploymentCounts
      BY <1>3, <1>5, <1>9, InformationWrite
    <2>3. Due' = Due
      BY <1>2, <1>9, <2>1 DEF DueChange, WriteInformation, WriteDeployment
    <2>4. envPull'.stage = "idle"
      BY <1>9 DEF WriteInformation, NoEnvPull
    <2> QED
      BY <1>1, <1>2, <2>1, <2>2, <2>3, <2>4 DEF Counted
  <1>10. CASE metrics' = metrics /\ ~WriteBehind /\ ~WriteDeployment /\ ~WriteInformation
    <2>1. DeploymentCounts' = DeploymentCounts /\ OfKinds(metrics', SingleKinds) = OfKinds(metrics, SingleKinds)
      BY <1>10 DEF DeploymentCounts, OfEnvironment
    <2>2. envPull'.stage = "deploying" => envPull' = envPull
      <3>1. ASSUME CompareCommits \/ ReuseBehind \/ GetCommitCountBetweenRefs
            PROVE  envPull'.stage # "deploying"
        <4>1. \/ envPull' = NoEnvPull
              \/ \E stage \in {"counting", "reusing", "writing"} :
                    \E n : envPull' = [envPull EXCEPT !.stage = stage, !.behind = n]
          <5>1. CASE CompareCommits
            BY <5>1 DEF CompareCommits
          <5>2. CASE ReuseBehind
            BY <5>2 DEF ReuseBehind
          <5>3. CASE GetCommitCountBetweenRefs
            BY <5>3 DEF GetCommitCountBetweenRefs, PullFails
          <5> QED
            BY <3>1, <5>1, <5>2, <5>3
        <4>2. NoEnvPull.stage = "idle"
          BY DEF NoEnvPull
        <4>3. CASE envPull' = NoEnvPull
          BY <4>2, <4>3
        <4>4. CASE envPull' # NoEnvPull
          <5>1. PICK stage \in {"counting", "reusing", "writing"} :
                   \E n : envPull' = [envPull EXCEPT !.stage = stage, !.behind = n]
            BY <4>1, <4>4
          <5>2. PICK n : envPull' = [envPull EXCEPT !.stage = stage, !.behind = n]
            BY <5>1
          <5> QED
            BY <5>2, <1>4, PullFields
        <4> QED
          BY <4>3, <4>4
      <3> QED
        BY <3>1, <1>10, PullSteps
    <2>3. CASE environment.stored
      BY <2>1, <2>2, <2>3, <1>1, <1>2, <1>10 DEF DueChange, Counted
    <2>4. CASE ~environment.stored
      <3>1. DeploymentCounts = {}
        BY <2>4, <1>1, <1>3 DEF Counted, OfKinds, DeploymentCounts, OfEnvironment
      <3>2. envPull.stage = "idle"
        BY <2>4, <1>1 DEF Deployed
      <3> QED
        BY <2>1, <2>2, <2>4, <3>1, <3>2, <1>1, <1>2 DEF DueChange, Counted
    <2> QED
      BY <2>3, <2>4
  <1> QED
    BY <1>2, <1>7, <1>8, <1>9, <1>10, EnvironmentWrites

\* So between pulls the deployments are counted.
LEMMA DeploymentsAreCounted ==
    ASSUME EnvTyped, EnvRelated, Right(metrics), DeploymentsInv
    PROVE  DeploymentsCounted
  <1> SUFFICES ASSUME NEW m \in DeploymentCounts, envPull.stage \in {"idle", "queued", "updating"}, ~replaced, ~robbed
               PROVE  m.value + uncounted = Cardinality(deployments) - 1
    BY DEF DeploymentsCounted, DeploymentCounts
  <1>1. "EnvironmentDeploymentCount" \in Kept
    BY DEF DeploymentCounts, OfEnvironment, Right, Table
  <1>2. environment.stored /\ m.value = Due
    <2>1. m \in OfKinds(metrics, SingleKinds)
      BY DEF DeploymentCounts, OfEnvironment, OfKinds, SingleKinds, EnvironmentKinds
    <2> QED
      BY <1>1, <2>1 DEF DeploymentsInv, Counted
  <1>3. Pending(envPull) = 0
    BY DEF Pending, Updated
  <1>4. Cardinality(deployments) \in Nat
    <2>1. deployments \subseteq 0..envSettings.deployments /\ envSettings.deployments \in Nat
      BY DEF EnvTyped, EnvRelated, EnvSettings
    <2> QED
      BY <2>1, FewDeployments
  <1> QED
    BY <1>2, <1>3, <1>4 DEF Due, EnvTyped

-----------------------------------------------------------------------------
\* The collection of environments.

\* What is wanted still is listed when its project has been listed.
EnvSweepInv ==
    /\ envSweep.wanted => EnvWanted
    /\ envSweep.wanted /\ envSweep.stage = "sweeping" /\ envSweep.copy.stored => envSweep.listed

\* No collection at first.
LEMMA EnvSweepInit ==
    ASSUME EnvInit
    PROVE  EnvSweepInv
  BY DEF EnvInit, EnvSweepInv, NoSweep

\* A step of the environment keeps this: what is wanted still is not deleted
\* (garbage_collector.go:165).
LEMMA EnvSweepInvStep ==
    ASSUME EnvTyped, EnvSweepInv, EnvStep
    PROVE  EnvSweepInv' /\ EnvSpared
  <1>1. envSweep \in EnvironmentSweep /\ ~NoSweep.wanted
    BY DEF EnvTyped, NoSweep
  <1>2. CASE ChangeState \/ Unconfigure
    <2>1. environment' = environment
      BY <1>2 DEF ChangeState, Unconfigure, historyOfEnv
    <2>2. PICK stays \in BOOLEAN : StillWanted(stays) /\ (stays => configured' = configured /\ gitlabEnv'.state = "available")
      BY <1>2 DEF ChangeState, Unconfigure
    <2>3. /\ envSweep'.stage = envSweep.stage /\ envSweep'.copy = envSweep.copy /\ envSweep'.listed = envSweep.listed
          /\ envSweep'.wanted => envSweep.wanted /\ stays
      <3>1. envSweep' = [envSweep EXCEPT !.wanted = envSweep.wanted /\ stays]
        BY <2>2 DEF StillWanted
      <3>2. CASE envSweep.wanted /\ stays
        <4>1. envSweep' = [envSweep EXCEPT !.wanted = TRUE]
          BY <3>1, <3>2, Zenon
        <4> QED
          BY <4>1, <3>2, <1>1 DEF EnvironmentSweep
      <3>3. CASE ~(envSweep.wanted /\ stays)
        <4>1. envSweep' = [envSweep EXCEPT !.wanted = FALSE]
          BY <3>1, <3>3, Zenon
        <4> QED
          BY <4>1, <3>3, <1>1 DEF EnvironmentSweep
      <3> QED
        BY <3>2, <3>3
    <2> QED
      BY <2>1, <2>2, <2>3 DEF EnvSweepInv, EnvSpared, EnvWanted, EnvListed
  <1>3. CASE Commit \/ Deploy \/ EndDeployment
    <2>1. UNCHANGED <<environment, envSweep, configured>> /\ gitlabEnv'.state = gitlabEnv.state
      BY <1>3 DEF Commit, Deploy, EndDeployment, historyOfEnv, otherTasks, EnvTyped
    <2> QED
      BY <2>1 DEF EnvSweepInv, EnvSpared, EnvWanted, EnvListed
  <1>4. CASE EnvDiscoveryStep \/ EnvPullStep \/ ProcessDeploymentEvent
    <2>1. UNCHANGED <<envSweep, configured, gitlabEnv>>
      BY <1>4 DEF EnvDiscoveryStep, EnvPullStep, ProcessDeploymentEvent, PullEnvironmentsFromProject,
                  LookUpEnvironment, UpdateDiscovered, StoreDiscovered, ScheduleEnvironmentMetrics,
                  RefreshEnvironment, UpdateEnvironment, ReadHead, CompareCommits, ReuseBehind,
                  GetCommitCountBetweenRefs, WriteBehind, WriteDeployment, WriteInformation, gitlabEnvVars, envPullVars, otherTasks
    <2>2. environment' = environment \/ \E env \in Environment : environment' = [env EXCEPT !.stored = TRUE]
      <3>1. CASE StoreDiscovered
        BY <3>1 DEF StoreDiscovered, SetEnvironment, EnvTyped, Discovery
      <3>2. CASE UpdateEnvironment
        <4>1. envPull.copy \in Environment /\ gitlabEnv.latest \in Deployment
          BY PullFields DEF EnvTyped
        <4>2. GetEnvironment(envPull.copy) \in Environment
          BY <4>1, EnvironmentRecords DEF GetEnvironment
        <4> QED
          BY <3>2, <4>2 DEF UpdateEnvironment, EnvUnchanged, SetEnvironment
      <3> QED
        BY <1>4, <3>1, <3>2
           DEF EnvDiscoveryStep, EnvPullStep, ProcessDeploymentEvent, PullEnvironmentsFromProject,
               LookUpEnvironment, UpdateDiscovered, ScheduleEnvironmentMetrics, RefreshEnvironment, ReadHead,
               CompareCommits, ReuseBehind, GetCommitCountBetweenRefs, WriteBehind, WriteDeployment,
               WriteInformation, historyOfEnv, EnvUnchanged
    <2>3. environment.stored => environment'.stored
      BY <2>2 DEF Environment
    <2> QED
      BY <2>1, <2>3 DEF EnvSweepInv, EnvSpared, EnvWanted, EnvListed
  <1>5. CASE CollectEnvironments
    <2>1. /\ UNCHANGED <<environment, configured, gitlabEnv>>
          /\ envSweep' = [stage |-> IF environment.stored THEN "checking" ELSE "sweeping",
                          copy |-> environment, listed |-> FALSE, wanted |-> EnvWanted]
      BY <1>5 DEF CollectEnvironments, EnvUnchanged, sweepVars, gitlabEnvVars
    <2> QED
      BY <2>1 DEF EnvSweepInv, EnvSpared, EnvWanted, EnvListed
  <1>6. CASE CheckEnvironment
    <2>1. UNCHANGED <<configured, gitlabEnv>>
      BY <1>6 DEF CheckEnvironment, sweepVars, gitlabEnvVars
    <2>2. /\ envSweep'.stage = IF configured THEN "listing" ELSE "sweeping"
          /\ envSweep'.copy = envSweep.copy /\ envSweep'.wanted = envSweep.wanted
      BY <1>6, <1>1 DEF CheckEnvironment, EnvironmentSweep
    <2>3. EnvSweepInv'
      BY <2>1, <2>2 DEF EnvSweepInv, EnvWanted, EnvListed
    <2>4. CASE configured
      <3>1. environment' = environment
            \/ environment' = [[envSweep.copy EXCEPT !.sparse = envSettings.sparse] EXCEPT !.stored = TRUE]
        BY <1>6, <2>4 DEF CheckEnvironment, EnvUnchanged, SetEnvironment
      <3>2. envSweep.copy \in Environment
        BY <1>1 DEF EnvironmentSweep
      <3>3. environment.stored => environment'.stored
        BY <3>1, <3>2 DEF Environment
      <3> QED
        BY <2>3, <3>3 DEF EnvSpared
    <2>5. CASE ~configured
      BY <2>3, <2>5 DEF EnvSpared, EnvSweepInv, EnvWanted
    <2> QED
      BY <2>4, <2>5
  <1>7. CASE ListEnvironments
    <2>1. UNCHANGED <<environment, configured, gitlabEnv>>
      BY <1>7 DEF ListEnvironments, EnvUnchanged, sweepVars, gitlabEnvVars
    <2>2. CASE envSweep' = NoSweep
      BY <2>1, <2>2, <1>1 DEF EnvSweepInv, EnvSpared
    <2>3. CASE envSweep' # NoSweep
      <3>1. envSweep' = [envSweep EXCEPT !.stage = "sweeping", !.listed = EnvListed]
        BY <1>7, <2>3 DEF ListEnvironments
      <3>2. envSweep'.wanted = envSweep.wanted /\ envSweep'.listed = EnvListed
        BY <3>1, <1>1 DEF EnvironmentSweep
      <3> QED
        BY <2>1, <3>2 DEF EnvSweepInv, EnvSpared, EnvWanted, EnvListed
    <2> QED
      BY <2>2, <2>3
  <1>8. CASE SweepEnvironments
    <2>1. /\ envSweep' = NoSweep /\ envSweep.stage = "sweeping"
          /\ envSweep.listed => environment' = environment
      BY <1>8 DEF SweepEnvironments, EnvUnchanged
    <2> QED
      BY <2>1, <1>1 DEF EnvSweepInv, EnvSpared
  <1> QED
    BY <1>2, <1>3, <1>4, <1>5, <1>6, <1>7, <1>8 DEF EnvStep, EnvSweepStep, EnvOthers

-----------------------------------------------------------------------------
\* Runners: types.

RunnerRecord == [stored : BOOLEAN, sparse : BOOLEAN, revision : Nat]
RunnerStages == {"idle", "queued", "listing", "deleting", "informing", "contacting", "tagging"}
RunnerTask(pull) ==
    pull \in [stage : RunnerStages, copy : RunnerRecord, todo : {pull.todo}, tags : {pull.tags}]
RunnerDiscoveryTask == [stage : {"idle", "exists", "updating", "storing"}, copy : RunnerRecord]
RunnerSweepTask == [stage : {"idle", "checking", "listing", "sweeping"}, copy : RunnerRecord,
                    listed : BOOLEAN, wanted : BOOLEAN]

RunnerTyped ==
    /\ runnerSettings \in RunnerSettings
    /\ runnersPulled \in BOOLEAN
    /\ gitlabRunner \in [exists : BOOLEAN, revision : 1..Len(Tags)]
    /\ runner \in RunnerRecord
    /\ RunnerTask(runnerPull)
    /\ runnerDiscovery \in RunnerDiscoveryTask
    /\ runnerSweep \in RunnerSweepTask
    /\ runnerChanges \in 0..MaxRunnerChanges
    /\ runnerDeleted \in BOOLEAN

\* The pull has got the runner.
Got(pull) == pull.stage \in {"listing", "deleting", "informing", "contacting", "tagging"}

\* What a copy of the runner says has been in GitLab.
RunnerRelated ==
    /\ runner.revision <= gitlabRunner.revision
    /\ runnerPull.copy.revision <= gitlabRunner.revision
    /\ runnerDiscovery.copy.revision <= gitlabRunner.revision
    /\ runnerSweep.copy.revision <= gitlabRunner.revision
    /\ Got(runnerPull) => runnerPull.copy.revision > 0

\* The records runners begin with.
LEMMA RunnerRecords ==
    /\ NoRunner \in RunnerRecord /\ ~NoRunner.stored /\ NoRunner.revision = 0
    /\ NoRunnerTask \in RunnerDiscoveryTask
    /\ NoRunnerTask.stage = "idle" /\ NoRunnerTask.copy = NoRunner
    /\ RunnerTask(NoRunnerPull)
    /\ NoRunnerPull.stage = "idle" /\ NoRunnerPull.copy = NoRunner /\ NoRunnerPull.todo = {}
    /\ NoRunnerSweep \in RunnerSweepTask /\ NoRunnerSweep.stage = "idle" /\ NoRunnerSweep.copy = NoRunner
    /\ ~NoRunnerSweep.wanted
  <1>1. NoRunner \in RunnerRecord /\ ~NoRunner.stored /\ NoRunner.revision = 0
    BY DEF NoRunner, RunnerRecord
  <1>2. /\ RunnerTask(NoRunnerPull)
        /\ NoRunnerPull.stage = "idle" /\ NoRunnerPull.copy = NoRunner /\ NoRunnerPull.todo = {}
    BY <1>1 DEF NoRunnerPull, RunnerTask, RunnerStages
  <1> QED
    BY <1>1, <1>2 DEF NoRunnerTask, NoRunnerSweep, RunnerDiscoveryTask, RunnerSweepTask

\* The fields of a runner.
LEMMA RunnerFields ==
    \A r \in RunnerRecord : r.stored \in BOOLEAN /\ r.sparse \in BOOLEAN /\ r.revision \in Nat
  BY DEF RunnerRecord

\* A runner that is stored ...
LEMMA StoredRunner ==
    ASSUME NEW r \in RunnerRecord, NEW s, s = [r EXCEPT !.stored = TRUE]
    PROVE  s \in RunnerRecord /\ s.stored /\ s.revision = r.revision
  BY DEF RunnerRecord

\* ... one with other settings ...
LEMMA ReconfiguredRunner ==
    ASSUME NEW r \in RunnerRecord, NEW sparse \in BOOLEAN, NEW s, s = [r EXCEPT !.sparse = sparse]
    PROVE  s \in RunnerRecord /\ s.revision = r.revision
  BY DEF RunnerRecord

\* ... and one that GitLab has changed.
LEMMA RevisedRunner ==
    ASSUME NEW r \in RunnerRecord, NEW revision \in Nat, NEW s, s = [r EXCEPT !.revision = revision]
    PROVE  s \in RunnerRecord /\ s.revision = revision
  BY DEF RunnerRecord

\* The copies that tasks have of a runner.
LEMMA RunnerTaskFields ==
    /\ \A task : RunnerTask(task) => task.copy \in RunnerRecord /\ task.copy.revision \in Nat
    /\ \A task \in RunnerDiscoveryTask : task.copy \in RunnerRecord /\ task.copy.revision \in Nat
    /\ \A sweep \in RunnerSweepTask : sweep.copy \in RunnerRecord /\ sweep.copy.revision \in Nat
  BY DEF RunnerTask, RunnerDiscoveryTask, RunnerSweepTask, RunnerRecord

\* What the steps of a pull leave of it: it goes on ...
LEMMA PullStaged ==
    ASSUME NEW pull, RunnerTask(pull), NEW stage \in RunnerStages, NEW result, result = [pull EXCEPT !.stage = stage]
    PROVE  RunnerTask(result) /\ result.stage = stage /\ result.copy = pull.copy /\ result.todo = pull.todo
  BY DEF RunnerTask

\* ... or writes one tag of several.
LEMMA PullTagged ==
    ASSUME NEW pull, RunnerTask(pull), NEW tags, NEW result, result = [pull EXCEPT !.tags = tags]
    PROVE  /\ RunnerTask(result) /\ result.stage = pull.stage /\ result.copy = pull.copy
           /\ result.todo = pull.todo /\ result.tags = tags
  BY DEF RunnerTask

\* The types hold when the exporter starts.
LEMMA RunnerTypedInit ==
    ASSUME RunnerInit, runnerSettings \in RunnerSettings
    PROVE  RunnerTyped /\ RunnerRelated
  <1>1. [NoRunner EXCEPT !.stored = TRUE, !.revision = 1, !.sparse = ~runnerSettings.sparse] \in RunnerRecord
         /\ [NoRunner EXCEPT !.stored = TRUE, !.revision = 1, !.sparse = ~runnerSettings.sparse].revision = 1
    BY DEF NoRunner, RunnerRecord, RunnerSettings
  <1>2. runner \in RunnerRecord /\ runner.revision <= 1
    BY <1>1, RunnerRecords DEF RunnerInit
  <1>3. gitlabRunner \in [exists : BOOLEAN, revision : 1..Len(Tags)] /\ gitlabRunner.revision = 1
    BY TagsAssumption DEF RunnerInit
  <1>4. /\ runnerPull = NoRunnerPull /\ runnerDiscovery = NoRunnerTask /\ runnerSweep = NoRunnerSweep
        /\ runnersPulled \in BOOLEAN /\ runnerDeleted \in BOOLEAN /\ runnerChanges \in 0..MaxRunnerChanges
    <2>1. runnerChanges = 0 /\ runnersPulled = TRUE /\ runnerDeleted = FALSE
      BY DEF RunnerInit
    <2>2. runnerChanges \in 0..MaxRunnerChanges
      BY <2>1, RunnerChangesAssumption
    <2> QED
      BY <2>1, <2>2 DEF RunnerInit
  <1>5. RunnerTyped
    BY <1>2, <1>3, <1>4, RunnerRecords DEF RunnerTyped
  <1>6. RunnerRelated
    BY <1>2, <1>3, <1>4, RunnerRecords DEF RunnerRelated, Got
  <1> QED
    BY <1>5, <1>6

\* What a pull or a discovery gets of the runner.
LEMMA GotRunner ==
    ASSUME NEW r \in RunnerRecord, gitlabRunner \in [exists : BOOLEAN, revision : 1..Len(Tags)],
           NEW copy, copy = [r EXCEPT !.revision = gitlabRunner.revision]
    PROVE  copy \in RunnerRecord /\ copy.revision = gitlabRunner.revision /\ copy.revision > 0
  <1>1. gitlabRunner.revision \in Nat /\ gitlabRunner.revision > 0
    <2>1. PICK last \in Nat : last = Len(Tags)
      BY TagsAssumption
    <2>2. gitlabRunner.revision \in 1..last
      BY <2>1
    <2> QED
      BY <2>2
  <1> QED
    BY <1>1, RevisedRunner

\* A step of the runner keeps them, and no copy of it is ahead of GitLab.
LEMMA RunnerTypedStep ==
    ASSUME RunnerTyped, RunnerRelated, RunnerStep
    PROVE  RunnerTyped' /\ RunnerRelated'
  <1>0. /\ gitlabRunner.revision \in 1..Len(Tags) /\ runner.revision \in Nat
        /\ runnerPull.copy \in RunnerRecord /\ runnerPull.copy.revision \in Nat
        /\ runnerDiscovery.copy \in RunnerRecord /\ runnerDiscovery.copy.revision \in Nat
        /\ runnerSweep.copy \in RunnerRecord /\ runnerSweep.copy.revision \in Nat
        /\ Len(Tags) \in Nat /\ gitlabRunner.revision \in Nat
    BY TagsAssumption, RunnerFields, RunnerTaskFields DEF RunnerTyped
  <1>r. RunnerTask(runnerPull)
    BY DEF RunnerTyped
  <1>s. gitlabRunner \in [exists : BOOLEAN, revision : 1..Len(Tags)]
    BY DEF RunnerTyped
  <1>c. runnerDiscovery.copy \in RunnerRecord
    BY <1>0
  <1>d. runnerPull.copy \in RunnerRecord
    BY <1>0
  <1>n. gitlabRunner.revision \in Nat /\ NoRunner \in RunnerRecord /\ NoRunner.revision <= gitlabRunner.revision
    BY <1>0, RunnerRecords
  <1>1. CASE ReviseRunner
    <2>1. gitlabRunner' = [gitlabRunner EXCEPT !.revision = @ + 1] /\ gitlabRunner.revision < Len(Tags)
      BY <1>1 DEF ReviseRunner
    <2>2. gitlabRunner' \in [exists : BOOLEAN, revision : 1..Len(Tags)]
          /\ gitlabRunner'.revision = gitlabRunner.revision + 1
      BY <2>1, <1>0 DEF RunnerTyped
    <2> QED
      BY <1>0, <1>1, <2>2 DEF ReviseRunner, RunnerTyped, RunnerRelated, Got
  <1>2. CASE ChangeRunner
    <2>1. gitlabRunner' \in [exists : BOOLEAN, revision : 1..Len(Tags)] /\ gitlabRunner'.revision = gitlabRunner.revision
           /\ runnersPulled' \in BOOLEAN
      BY <1>2 DEF ChangeRunner, RunnerTyped
    <2>2. runnerChanges' \in 0..MaxRunnerChanges
      BY <1>2, RunnerChangesAssumption DEF ChangeRunner, RunnerTyped
    <2>3. runnerSweep' \in RunnerSweepTask /\ runnerSweep'.copy = runnerSweep.copy
      BY <1>2, <2>1 DEF ChangeRunner, RunnerStays, RunnerTyped, RunnerSweepTask
    <2> QED
      BY <1>2, <2>1, <2>2, <2>3 DEF ChangeRunner, RunnerTyped, RunnerRelated, Got
  <1>3. CASE PullRunnersFromProject
    <2>1. runnerDiscovery' \in RunnerDiscoveryTask /\ runnerDiscovery'.copy = runnerDiscovery.copy
      BY <1>3 DEF PullRunnersFromProject, RunnerTyped, RunnerDiscoveryTask
    <2> QED
      BY <1>3, <2>1 DEF PullRunnersFromProject, RunnerUnchanged, gitlabRunnerVars, RunnerTyped, RunnerRelated, Got
  <1>4. CASE LookUpRunner
    <2>1. PICK copy : copy = [NoRunner EXCEPT !.sparse = runnerSettings.sparse]
      OBVIOUS
    <2>2. copy \in RunnerRecord /\ copy.revision = 0
      BY <2>1, RunnerRecords, ReconfiguredRunner DEF RunnerTyped, RunnerSettings
    <2>3. runnerDiscovery' = NoRunnerTask \/ runnerDiscovery' = [stage |-> "updating", copy |-> copy]
      BY <1>4, <2>1 DEF LookUpRunner
    <2>4. runnerDiscovery' \in RunnerDiscoveryTask /\ runnerDiscovery'.copy.revision = 0
      BY <2>2, <2>3, RunnerRecords DEF RunnerDiscoveryTask
    <2> QED
      BY <1>0, <1>4, <2>4 DEF LookUpRunner, RunnerUnchanged, gitlabRunnerVars, RunnerTyped, RunnerRelated, Got
  <1>5. CASE UpdateDiscoveredRunner
    <2>1. PICK copy : copy = [runnerDiscovery.copy EXCEPT !.revision = gitlabRunner.revision]
      OBVIOUS
    <2>2. copy \in RunnerRecord /\ copy.revision = gitlabRunner.revision
      BY <1>c, <1>s, <2>1, GotRunner
    <2>3. \/ runnerDiscovery' = [runnerDiscovery EXCEPT !.stage = "idle", !.copy = NoRunner]
          \/ runnerDiscovery' = [runnerDiscovery EXCEPT !.stage = "storing", !.copy = copy]
      BY <1>5, <2>1 DEF UpdateDiscoveredRunner, GetRunner
    <2>4. runnerDiscovery \in RunnerDiscoveryTask
      BY DEF RunnerTyped
    <2>5. /\ runnerDiscovery' \in RunnerDiscoveryTask
          /\ runnerDiscovery'.copy = NoRunner \/ runnerDiscovery'.copy = copy
      BY <1>n, <2>2, <2>3, <2>4 DEF RunnerDiscoveryTask
    <2>6. runnerDiscovery'.copy.revision <= gitlabRunner.revision
      BY <1>n, <2>2, <2>5
    <2> QED
      BY <1>5, <2>5, <2>6
         DEF UpdateDiscoveredRunner, RunnerUnchanged, gitlabRunnerVars, RunnerTyped, RunnerRelated, Got
  <1>6. CASE StoreDiscoveredRunner
    <2>1. runner' \in RunnerRecord /\ runner'.revision = runnerDiscovery.copy.revision
      BY <1>6, <1>0, StoredRunner DEF StoreDiscoveredRunner, SetRunner
    <2>2. runnerPull' = [runnerPull EXCEPT !.stage = "queued", !.copy = runnerDiscovery.copy] \/ runnerPull' = runnerPull
      BY <1>6 DEF StoreDiscoveredRunner
    <2>3. /\ RunnerTask(runnerPull') /\ runnerPull'.copy.revision <= gitlabRunner.revision
          /\ Got(runnerPull') => runnerPull'.copy.revision > 0
      <3>1. CASE runnerPull' = runnerPull
        BY <3>1 DEF RunnerTyped, RunnerRelated, Got
      <3>2. CASE runnerPull' # runnerPull
        <4>1. /\ RunnerTask(runnerPull') /\ runnerPull'.copy = runnerDiscovery.copy
              /\ runnerPull'.stage = "queued"
          BY <2>2, <3>2, <1>c, <1>r DEF RunnerTask, RunnerStages
        <4> QED
          BY <4>1 DEF RunnerRelated, Got
      <3> QED
        BY <3>1, <3>2
    <2> QED
      BY <1>0, <1>6, <2>1, <2>3, RunnerRecords
         DEF StoreDiscoveredRunner, SetRunner, gitlabRunnerVars, RunnerTyped, RunnerRelated, Got
  <1>7. CASE ScheduleRunnerMetrics
    <2>1. RunnerTask(runnerPull') /\ runnerPull'.copy = runner /\ runnerPull'.stage = "queued"
      <3>1. runnerPull' = [runnerPull EXCEPT !.stage = "queued", !.copy = runner] /\ runner \in RunnerRecord
        BY <1>7 DEF ScheduleRunnerMetrics, RunnerTyped
      <3> QED
        BY <3>1, <1>r DEF RunnerTask, RunnerStages
    <2> QED
      BY <1>7, <2>1 DEF ScheduleRunnerMetrics, RunnerUnchanged, gitlabRunnerVars, RunnerTyped, RunnerRelated, Got
  <1>8. CASE UpdateRunner
    <2>1. PICK copy : copy = [runnerPull.copy EXCEPT !.revision = gitlabRunner.revision]
      OBVIOUS
    <2>2. copy \in RunnerRecord /\ copy.revision = gitlabRunner.revision /\ copy.revision > 0
      BY <1>d, <1>s, <2>1, GotRunner
    <2>a. \/ runnerPull' = [runnerPull EXCEPT !.stage = "idle", !.copy = NoRunner]
          \/ runnerPull' = [runnerPull EXCEPT !.stage = "listing", !.copy = copy]
      BY <1>8, <2>1 DEF UpdateRunner, GetRunner
    <2>3. /\ RunnerTask(runnerPull')
          /\ \/ runnerPull'.stage = "idle" /\ runnerPull'.copy = NoRunner
             \/ runnerPull'.stage = "listing" /\ runnerPull'.copy = copy
      BY <1>n, <1>r, <2>2, <2>a DEF RunnerTask, RunnerStages
    <2>b. /\ runnerPull'.copy.revision <= gitlabRunner.revision
          /\ Got(runnerPull') => runnerPull'.copy.revision > 0
      BY <1>n, <2>2, <2>3 DEF Got
    <2>4. runner' \in RunnerRecord /\ runner'.revision <= gitlabRunner.revision /\ runnerDeleted' = runnerDeleted
      <3>1. CASE runnerPull'.stage = "idle"
        BY <3>1, <1>8 DEF UpdateRunner, RunnerUnchanged, RunnerTyped, RunnerRelated
      <3>2. CASE runnerPull'.stage = "listing"
        <4>1. runner' = [copy EXCEPT !.stored = TRUE] /\ runnerDeleted' = runnerDeleted
          BY <3>2, <2>3, <1>8 DEF UpdateRunner, SetRunner
        <4>2. runner' \in RunnerRecord /\ runner'.revision = copy.revision
          BY <4>1, <2>2, StoredRunner
        <4> QED
          BY <4>1, <4>2, <2>2, <1>n
      <3> QED
        BY <2>3, <3>1, <3>2
    <2> QED
      BY <1>8, <2>3, <2>b, <2>4 DEF UpdateRunner, gitlabRunnerVars, RunnerTyped, RunnerRelated, Got
  \* Of a pull that has got the runner only the stage, and what is left to do, change.
  <1>9. ASSUME UNCHANGED <<runner, runnerDeleted, gitlabRunnerVars, runnerDiscovery, runnerSweep>>,
               Got(runnerPull), RunnerTask(runnerPull'), runnerPull'.copy = runnerPull.copy
        PROVE  RunnerTyped' /\ RunnerRelated'
    BY <1>9 DEF RunnerTyped, RunnerRelated, gitlabRunnerVars
  <1>a. \A todo : /\ RunnerTask(Deleting(todo)) /\ Deleting(todo).copy = runnerPull.copy
    <2> SUFFICES ASSUME NEW todo
                 PROVE  RunnerTask(Deleting(todo)) /\ Deleting(todo).copy = runnerPull.copy
      OBVIOUS
    <2>1. PICK stage \in RunnerStages : stage = IF todo = {} THEN "informing" ELSE "deleting"
      BY DEF RunnerStages
    <2>2. Deleting(todo) = [runnerPull EXCEPT !.stage = stage, !.todo = todo]
      BY <2>1 DEF Deleting
    <2> QED
      BY <2>1, <2>2, <1>r DEF RunnerTask
  <1>10. CASE ListRunnerMetrics
    BY <1>9, <1>10, <1>a DEF ListRunnerMetrics, RunnerUnchanged, runnerPullVars, Got
  <1>15. ASSUME NEW m, DeleteRunnerMetric(m)
         PROVE  RunnerTyped' /\ RunnerRelated'
    BY <1>9, <1>15, <1>a DEF DeleteRunnerMetric, RunnerUnchanged, runnerPullVars, Got
  <1>16. CASE WriteRunner
    <2>1. RunnerTask(runnerPull') /\ runnerPull'.copy = runnerPull.copy
      <3>1. runnerPull' = [runnerPull EXCEPT !.stage = "contacting"]
        BY <1>16 DEF WriteRunner
      <3> QED
        BY <3>1, <1>r, PullStaged DEF RunnerStages
    <2> QED
      BY <1>9, <1>16, <2>1 DEF WriteRunner, RunnerUnchanged, runnerPullVars, Got
  <1>17. CASE WriteContact
    <2>1. RunnerTask(runnerPull') /\ runnerPull'.copy = runnerPull.copy
      <3>1. PICK tags : runnerPull' = [runnerPull EXCEPT !.stage = "tagging", !.tags = tags]
        BY <1>17 DEF WriteContact
      <3> QED
        BY <3>1, <1>r DEF RunnerTask, RunnerStages
    <2> QED
      BY <1>9, <1>17, <2>1 DEF WriteContact, RunnerUnchanged, runnerPullVars, Got
  <1>18. ASSUME NEW t, WriteTag(t)
         PROVE  RunnerTyped' /\ RunnerRelated'
    <2>1. RunnerTask(runnerPull') /\ runnerPull'.copy = runnerPull.copy
      <3>1. runnerPull' = [runnerPull EXCEPT !.tags = runnerPull.tags \ {t}]
        BY <1>18 DEF WriteTag
      <3> QED
        BY <3>1, <1>r, PullTagged
    <2> QED
      BY <1>9, <1>18, <2>1 DEF WriteTag, RunnerUnchanged, runnerPullVars, Got
  <1>19. CASE WriteGroups
    <2>1. runnerPull' = NoRunnerPull /\ UNCHANGED <<runner, runnerDeleted, gitlabRunnerVars, runnerDiscovery, runnerSweep>>
      BY <1>19 DEF WriteGroups, RunnerUnchanged, runnerPullVars
    <2> QED
      BY <1>0, <2>1, RunnerRecords DEF gitlabRunnerVars, RunnerTyped, RunnerRelated, Got
  <1>11. CASE CollectRunners
    <2>1. runnerSweep' \in RunnerSweepTask /\ runnerSweep'.copy = runner
      BY <1>11 DEF CollectRunners, RunnerWanted, RunnerTyped, RunnerSweepTask, RunnerSettings
    <2> QED
      BY <1>11, <2>1 DEF CollectRunners, RunnerUnchanged, runnerSweepVars, gitlabRunnerVars, RunnerTyped, RunnerRelated, Got
  <1>12. CASE CheckRunner
    <2>1. runnerSweep' \in RunnerSweepTask /\ runnerSweep'.copy = runnerSweep.copy
      BY <1>12 DEF CheckRunner, RunnerTyped, RunnerSweepTask
    <2>2. runner' \in RunnerRecord /\ runner'.revision <= gitlabRunner.revision /\ runnerDeleted' \in BOOLEAN
      <3>1. PICK r : r = [runnerSweep.copy EXCEPT !.sparse = runnerSettings.sparse]
        OBVIOUS
      <3>2. r \in RunnerRecord /\ r.revision = runnerSweep.copy.revision
        BY <3>1, <1>0, ReconfiguredRunner DEF RunnerTyped, RunnerSettings
      <3>3. CASE DelRunner
        BY <3>3, <1>0, RunnerRecords, RunnerFields DEF DelRunner, RunnerTyped
      <3>4. CASE SetRunner(r)
        BY <3>2, <3>4, StoredRunner DEF SetRunner, RunnerTyped, RunnerRelated, Got
      <3>5. CASE RunnerUnchanged
        BY <3>5 DEF RunnerUnchanged, RunnerTyped, RunnerRelated, Got
      <3> QED
        BY <1>12, <3>1, <3>3, <3>4, <3>5 DEF CheckRunner
    <2> QED
      BY <1>12, <2>1, <2>2 DEF CheckRunner, runnerSweepVars, gitlabRunnerVars, RunnerTyped, RunnerRelated, Got
  <1>13. CASE ListRunners
    <2>1. runnerSweep' \in RunnerSweepTask /\ runnerSweep'.copy.revision <= gitlabRunner.revision
      <3>1. CASE runnerSweep' = NoRunnerSweep
        BY <3>1, <1>0, RunnerRecords
      <3>2. CASE runnerSweep' = [runnerSweep EXCEPT !.stage = "sweeping", !.listed = gitlabRunner.exists]
        BY <3>2 DEF RunnerTyped, RunnerRelated, RunnerSweepTask
      <3> QED
        BY <1>13, <3>1, <3>2 DEF ListRunners
    <2> QED
      BY <1>13, <2>1 DEF ListRunners, RunnerUnchanged, runnerSweepVars, gitlabRunnerVars, RunnerTyped, RunnerRelated, Got
  <1>14. CASE SweepRunners
    <2>1. runner' \in RunnerRecord /\ runner'.revision <= gitlabRunner.revision /\ runnerDeleted' \in BOOLEAN
      BY <1>14, <1>0, RunnerRecords, RunnerFields
         DEF SweepRunners, DelRunner, RunnerUnchanged, RunnerTyped, RunnerRelated, Got
    <2>2. runnerSweep' \in RunnerSweepTask /\ runnerSweep'.copy.revision <= gitlabRunner.revision
      BY <1>14, <1>0, RunnerRecords DEF SweepRunners
    <2> QED
      BY <1>14, <2>1, <2>2 DEF SweepRunners, runnerSweepVars, gitlabRunnerVars, RunnerTyped, RunnerRelated, Got
  <1> QED
    BY <1>1, <1>2, <1>3, <1>4, <1>5, <1>6, <1>7, <1>8, <1>10, <1>11, <1>12, <1>13, <1>14, <1>15,
       <1>16, <1>17, <1>18, <1>19
       DEF RunnerStep, RunnerDiscoveryStep, RunnerPullStep, RunnerSweepStep

-----------------------------------------------------------------------------
\* Runners: their metrics.

RunnerLabelled(table) == \A m \in table : m.kind \in RunnerKinds => m.labels.runner_id = "1"

\* What the metrics say is of one revision.
OfRevision(n) ==
    StatusesSaid \subseteq {n} /\ TagsSaid \subseteq Tags[n] /\ ContactsSaid \subseteq {n} \ {1}

\* The pull is not among the metrics.
Quiet(pull) == pull.stage \in {"idle", "queued", "listing"}

\* While a pull deletes, what is left is listed; while it writes, all is of the revision it
\* has, and nothing of it is missing that has been written.  The runner is stored still, or
\* has been deleted.
RunnerInv ==
    /\ RunnerLabelled(metrics)
    /\ \A m \in OfRunner("Runner") : m.value = 1
    /\ \A m \in runnerPull.todo : m.kind \in Kept /\ m.kind \in RunnerKinds
    /\ runnerPull.stage = "deleting" => OfKinds(metrics, RunnerKinds) \subseteq runnerPull.todo
    /\ runnerPull.stage = "informing" => OfKinds(metrics, RunnerKinds) = {}
    /\ runnerPull.stage \in {"contacting", "tagging"} => OfRevision(runnerPull.copy.revision)
    /\ runnerPull.stage = "tagging" /\ "Runner" \in Kept /\ ~runnerDeleted /\ ~robbed =>
          /\ ContactsSaid = {runnerPull.copy.revision} \ {1}
          /\ Tags[runnerPull.copy.revision] \ runnerPull.tags \subseteq TagsSaid
    /\ runnerPull.stage = "tagging" => runnerPull.tags \subseteq Tags[runnerPull.copy.revision]
    /\ ~runnerDeleted /\ (Got(runnerPull) \/ OfKinds(metrics, RunnerKinds) # {}) => runner.stored
    /\ RunnerOfOneSnapshot

\* The labels of the collectors of a runner's metrics (collectors.go).
LEMMA RunnerCollectors ==
    /\ NewRegistry["Runner"] = {"runner_id", "runner_name", "runner_description", "is_shared", "runner_type",
                                 "online", "active", "status", "runner_maintenance_note", "paused"}
    /\ NewRegistry["RunnerContactedAtSeconds"] = {"runner_id"}
    /\ NewRegistry["RunnerProjectInfo"] = {"runner_id", "project"}
    /\ NewRegistry["RunnerTagInfo"] = {"runner_id", "tag"}
    /\ NewRegistry["RunnerGroupInfo"] = {"runner_id", "group"}
    /\ \A kind \in RunnerKinds : "runner_id" \in NewRegistry[kind] /\ "environment" \notin NewRegistry[kind]
                                                                /\ "ref" \notin NewRegistry[kind]
    /\ RunnerKinds \cap StatusKinds = {} /\ RunnerKinds \cap EnvironmentKinds = {}
  <1>1. ASSUME NEW kind \in RunnerKinds
        PROVE  NewRegistry[kind] = RunnerGauges[kind]
    <2>1. /\ kind \notin PipelineGaugeKinds /\ kind # "ID" /\ kind \notin RunKinds /\ kind \notin JobKinds
          /\ kind \notin EnvironmentKinds /\ kind \notin TestReportKinds /\ kind \notin TestSuiteKinds
          /\ kind \notin TestCaseKinds
      BY DEF EnvironmentKinds, PipelineGaugeKinds, RunKinds, JobKinds, RunnerKinds, TestReportKinds, TestSuiteKinds,
             TestCaseKinds
    <2> QED
      BY <2>1 DEF NewRegistry
  <1>2. /\ "Runner" \in RunnerKinds /\ "RunnerContactedAtSeconds" \in RunnerKinds
        /\ "RunnerProjectInfo" \in RunnerKinds /\ "RunnerTagInfo" \in RunnerKinds /\ "RunnerGroupInfo" \in RunnerKinds
    BY DEF RunnerKinds
  <1>3. /\ NewRegistry["Runner"] = RunnerLabels
        /\ NewRegistry["RunnerContactedAtSeconds"] = {"runner_id"}
        /\ NewRegistry["RunnerProjectInfo"] = {"runner_id", "project"}
        /\ NewRegistry["RunnerTagInfo"] = {"runner_id", "tag"}
        /\ NewRegistry["RunnerGroupInfo"] = {"runner_id", "group"}
    BY <1>1, <1>2 DEF RunnerGauges
  <1>4. \A kind \in RunnerKinds : "runner_id" \in NewRegistry[kind] /\ "environment" \notin NewRegistry[kind]
                                                                /\ "ref" \notin NewRegistry[kind]
    BY <1>3 DEF RunnerKinds, RunnerLabels
  <1>5. RunnerKinds \cap StatusKinds = {} /\ RunnerKinds \cap EnvironmentKinds = {}
    BY DEF RunnerKinds, StatusKinds, EnvironmentKinds
  <1> QED
    BY <1>3, <1>4, <1>5 DEF RunnerLabels

\* No other step of the runner writes or deletes metrics.
LEMMA RunnerWrites ==
    ASSUME RunnerStep
    PROVE  \/ \E m \in runnerPull.todo : DeleteRunnerMetric(m)
           \/ WriteRunner \/ WriteContact
           \/ \E t \in runnerPull.tags : WriteTag(t)
           \/ WriteGroups \/ metrics' = metrics
  BY DEF RunnerStep, RunnerDiscoveryStep, RunnerPullStep, RunnerSweepStep, PullRunnersFromProject, LookUpRunner,
         UpdateDiscoveredRunner, StoreDiscoveredRunner, ScheduleRunnerMetrics, UpdateRunner, ListRunnerMetrics,
         CollectRunners, CheckRunner, ListRunners, SweepRunners, runnerSweepVars

\* The metrics that a pull writes.
RunnerInfo ==
    [runner_id |-> "1", runner_name |-> "n", runner_description |-> "d", is_shared |-> FALSE,
     runner_type |-> "t", online |-> TRUE, active |-> TRUE, paused |-> FALSE,
     status |-> runnerPull.copy.revision, runner_maintenance_note |-> ""]
InfoMetric == Metric("Runner", RunnerInfo, 1)
Contacts == {Metric("RunnerContactedAtSeconds", [runner_id |-> "1"], n) : n \in {runnerPull.copy.revision} \ {1}}
ProjectMetric == Metric("RunnerProjectInfo", [runner_id |-> "1", project |-> "p"], 1)
TagMetric(tag) == Metric("RunnerTagInfo", [runner_id |-> "1", tag |-> tag], 1)
GroupMetric == Metric("RunnerGroupInfo", [runner_id |-> "1", group |-> "g"], 1)

\* A metric of the runner.
OfTheRunner(m) == Sound(m) /\ m.kind \in RunnerKinds /\ m.labels.runner_id = "1"

\* The labels its metrics are written with are those of their collectors.
LEMMA RunnerLabelDomains ==
    /\ DOMAIN RunnerInfo = {"runner_id", "runner_name", "runner_description", "is_shared", "runner_type",
                            "online", "active", "status", "runner_maintenance_note", "paused"}
    /\ RunnerInfo.runner_id = "1" /\ RunnerInfo.status = runnerPull.copy.revision
    /\ DOMAIN [runner_id |-> "1"] = {"runner_id"} /\ [runner_id |-> "1"].runner_id = "1"
    /\ DOMAIN [runner_id |-> "1", project |-> "p"] = {"runner_id", "project"}
    /\ [runner_id |-> "1", project |-> "p"].runner_id = "1"
    /\ DOMAIN [runner_id |-> "1", group |-> "g"] = {"runner_id", "group"}
    /\ [runner_id |-> "1", group |-> "g"].runner_id = "1"
  BY DEF RunnerInfo

\* The metric of a tag.
LEMMA TagLabels ==
    ASSUME NEW tag
    PROVE  /\ Sound(TagMetric(tag)) /\ TagMetric(tag).kind = "RunnerTagInfo"
           /\ TagMetric(tag).labels.runner_id = "1" /\ TagMetric(tag).labels.tag = tag
           /\ LabelOf(TagMetric(tag), "tag") = tag
  <1>1. PICK labels : labels = [runner_id |-> "1", tag |-> tag]
    OBVIOUS
  <1>2. DOMAIN labels = {"runner_id", "tag"} /\ labels.runner_id = "1" /\ labels.tag = tag
    BY <1>1
  <1>3. PICK m : m = Metric("RunnerTagInfo", labels, 1)
    OBVIOUS
  <1>4. Sound(m) /\ m.kind = "RunnerTagInfo" /\ m.labels = labels
    <2>1. DOMAIN labels = NewRegistry["RunnerTagInfo"]
      BY <1>2, RunnerCollectors
    <2> QED
      BY <1>3, <2>1, MetricSound
  <1>5. LabelOf(m, "tag") = tag
    BY <1>2, <1>4 DEF LabelOf
  <1>6. TagMetric(tag) = m
    BY <1>1, <1>3 DEF TagMetric
  <1> QED
    BY <1>2, <1>4, <1>5, <1>6

\* What is written is of the runner.
LEMMA RunnerWrittenMetrics ==
    ASSUME RunnerTyped
    PROVE  /\ OfTheRunner(InfoMetric) /\ InfoMetric.kind = "Runner" /\ InfoMetric.value = 1
           /\ InfoMetric.labels.status = runnerPull.copy.revision
           /\ OfTheRunner(ProjectMetric) /\ ProjectMetric.kind = "RunnerProjectInfo"
           /\ OfTheRunner(GroupMetric) /\ GroupMetric.kind = "RunnerGroupInfo"
           /\ \A m \in Contacts :
                 /\ OfTheRunner(m) /\ m.kind = "RunnerContactedAtSeconds" /\ m.value = runnerPull.copy.revision
                 /\ \A n \in Contacts : n = m
           /\ runnerPull.copy.revision # 1 => Contacts # {}
           /\ runnerPull.copy.revision = 1 => Contacts = {}
  <1>1. runnerPull.copy.revision \in Nat
    BY RunnerTaskFields DEF RunnerTyped
  <1>k. {"Runner", "RunnerProjectInfo", "RunnerGroupInfo", "RunnerContactedAtSeconds"} \subseteq RunnerKinds
    BY DEF RunnerKinds
  <1>2. /\ OfTheRunner(InfoMetric) /\ InfoMetric.kind = "Runner" /\ InfoMetric.value = 1
        /\ InfoMetric.labels.status = runnerPull.copy.revision
    <2>1. DOMAIN RunnerInfo = NewRegistry["Runner"]
      BY RunnerLabelDomains, RunnerCollectors
    <2>2. Sound(InfoMetric) /\ InfoMetric.kind = "Runner" /\ InfoMetric.labels = RunnerInfo /\ InfoMetric.value = 1
      BY <2>1, MetricSound DEF InfoMetric
    <2> QED
      BY <1>k, <2>2, RunnerLabelDomains DEF OfTheRunner
  <1>3. OfTheRunner(ProjectMetric) /\ ProjectMetric.kind = "RunnerProjectInfo"
    <2>1. PICK labels : labels = [runner_id |-> "1", project |-> "p"]
      OBVIOUS
    <2>2. DOMAIN labels = NewRegistry["RunnerProjectInfo"] /\ labels.runner_id = "1"
      BY <2>1, RunnerCollectors
    <2>3. /\ Sound(ProjectMetric) /\ ProjectMetric.kind = "RunnerProjectInfo"
          /\ ProjectMetric.labels = labels
      BY <2>1, <2>2, MetricSound DEF ProjectMetric
    <2> QED
      BY <1>k, <2>2, <2>3 DEF OfTheRunner
  <1>4. OfTheRunner(GroupMetric) /\ GroupMetric.kind = "RunnerGroupInfo"
    <2>1. PICK labels : labels = [runner_id |-> "1", group |-> "g"]
      OBVIOUS
    <2>2. DOMAIN labels = NewRegistry["RunnerGroupInfo"] /\ labels.runner_id = "1"
      BY <2>1, RunnerCollectors
    <2>3. /\ Sound(GroupMetric) /\ GroupMetric.kind = "RunnerGroupInfo" /\ GroupMetric.labels = labels
      BY <2>1, <2>2, MetricSound DEF GroupMetric
    <2> QED
      BY <1>k, <2>2, <2>3 DEF OfTheRunner
  <1>5. ASSUME NEW m \in Contacts
        PROVE  /\ OfTheRunner(m) /\ m.kind = "RunnerContactedAtSeconds" /\ m.value = runnerPull.copy.revision
               /\ \A n \in Contacts : n = m
    <2>1. PICK labels : labels = [runner_id |-> "1"]
      OBVIOUS
    <2>2. DOMAIN labels = NewRegistry["RunnerContactedAtSeconds"] /\ labels.runner_id = "1"
      BY <2>1, RunnerCollectors
    <2>3. \A n \in Contacts : n = Metric("RunnerContactedAtSeconds", labels, runnerPull.copy.revision)
      BY <2>1 DEF Contacts
    <2>4. Sound(m) /\ m.kind = "RunnerContactedAtSeconds" /\ m.labels = labels /\ m.value = runnerPull.copy.revision
      BY <1>1, <2>2, <2>3, MetricSound
    <2> QED
      BY <1>k, <2>2, <2>3, <2>4 DEF OfTheRunner
  <1>6. /\ runnerPull.copy.revision # 1 => Contacts # {}
        /\ runnerPull.copy.revision = 1 => Contacts = {}
    BY DEF Contacts
  <1> QED
    BY <1>2, <1>3, <1>4, <1>5, <1>6

\* After a write of metrics of the runner those written are in the table, and no others are new.
LEMMA RunnerWrite ==
    ASSUME NEW table, Right(table), RunnerLabelled(table), NEW new, \A m \in new : OfTheRunner(m),
           \A m, n \in new : m.kind = n.kind => m = n, NEW result, result = SetMetrics(table, new)
    PROVE  /\ Right(result) /\ RunnerLabelled(result)
           /\ \A m \in result : m \in table \/ m \in new
           /\ \A m \in new : m.kind \in Kept => m \in result
           /\ \A kinds : (\A m \in new : m.kind \notin kinds) => OfKinds(result, kinds) = OfKinds(table, kinds)
  <1>1. KeysDiffer(new)
    BY DEF KeysDiffer
  <1>2. Right(result)
    BY <1>1, WrittenRight, RunnerCollectors DEF OfTheRunner
  <1>3. /\ \A m \in result : m \in table \/ m \in new
        /\ \A m \in new : m.kind \in Kept => m \in result
    BY InSetMetrics
  <1>4. RunnerLabelled(result)
    BY <1>3 DEF RunnerLabelled, OfTheRunner
  <1>5. \A kinds : (\A m \in new : m.kind \notin kinds) => OfKinds(result, kinds) = OfKinds(table, kinds)
    BY SetMetricsFrame
  <1> QED
    BY <1>2, <1>3, <1>4, <1>5

\* What each step writes: the information ...
LEMMA InfoWrite ==
    ASSUME RunnerTyped, Right(metrics), RunnerLabelled(metrics), WriteRunner
    PROVE  /\ Right(metrics') /\ RunnerLabelled(metrics')
           /\ \A m \in metrics' : m \in metrics \/ m = InfoMetric
           /\ \A kinds : "Runner" \notin kinds => OfKinds(metrics', kinds) = OfKinds(metrics, kinds)
  <1>1. PICK new : new = {InfoMetric}
    OBVIOUS
  <1>2. metrics' = SetMetrics(metrics, new)
    BY <1>1 DEF WriteRunner, InfoMetric, RunnerInfo
  <1>3. \A m \in new : OfTheRunner(m) /\ m.kind = "Runner"
    BY <1>1, RunnerWrittenMetrics
  <1>4. \A m, n \in new : m.kind = n.kind => m = n
    BY <1>1
  <1> QED
    BY <1>1, <1>2, <1>3, <1>4, RunnerWrite

\* ... the contact ...
LEMMA ContactWrite ==
    ASSUME RunnerTyped, Right(metrics), RunnerLabelled(metrics), WriteContact
    PROVE  /\ Right(metrics') /\ RunnerLabelled(metrics')
           /\ \A m \in metrics' : m \in metrics \/ m = ProjectMetric \/ m \in Contacts
           /\ \A m \in Contacts : m.kind \in Kept => m \in metrics'
           /\ \A kinds : kinds \cap {"RunnerContactedAtSeconds", "RunnerProjectInfo"} = {} =>
                            OfKinds(metrics', kinds) = OfKinds(metrics, kinds)
  <1>1. PICK new : new = Contacts \cup {ProjectMetric}
    OBVIOUS
  <1>2. metrics' = SetMetrics(metrics, new)
    BY <1>1 DEF WriteContact, Contacts, ProjectMetric
  <1>3. \A m \in new : OfTheRunner(m) /\ m.kind \in {"RunnerContactedAtSeconds", "RunnerProjectInfo"}
    BY <1>1, RunnerWrittenMetrics
  <1>4. \A m, n \in new : m.kind = n.kind => m = n
    BY <1>1, RunnerWrittenMetrics
  <1> QED
    BY <1>1, <1>2, <1>3, <1>4, RunnerWrite

\* ... one tag ...
LEMMA TagWrite ==
    ASSUME RunnerTyped, Right(metrics), RunnerLabelled(metrics), NEW t, WriteTag(t)
    PROVE  /\ Right(metrics') /\ RunnerLabelled(metrics')
           /\ \A m \in metrics' : m \in metrics \/ m = TagMetric(t)
           /\ "RunnerTagInfo" \in Kept => TagsSaid' = TagsSaid \cup {t}
           /\ TagsSaid' \subseteq TagsSaid \cup {t}
           /\ \A kinds : "RunnerTagInfo" \notin kinds => OfKinds(metrics', kinds) = OfKinds(metrics, kinds)
  <1>1. PICK new : new = {TagMetric(t)}
    OBVIOUS
  <1>2. metrics' = SetMetrics(metrics, new)
    BY <1>1 DEF WriteTag, TagMetric
  <1>t. /\ Sound(TagMetric(t)) /\ TagMetric(t).kind = "RunnerTagInfo"
        /\ TagMetric(t).labels.runner_id = "1" /\ TagMetric(t).labels.tag = t
        /\ LabelOf(TagMetric(t), "tag") = t
    BY TagLabels
  <1>3. \A m \in new : OfTheRunner(m) /\ m.kind = "RunnerTagInfo"
    BY <1>1, <1>t DEF OfTheRunner, RunnerKinds
  <1>4. \A m, n \in new : m.kind = n.kind => m = n
    BY <1>1
  <1>5. /\ Right(metrics') /\ RunnerLabelled(metrics')
        /\ \A m \in metrics' : m \in metrics \/ m = TagMetric(t)
        /\ TagMetric(t).kind \in Kept => TagMetric(t) \in metrics'
        /\ \A kinds : "RunnerTagInfo" \notin kinds => OfKinds(metrics', kinds) = OfKinds(metrics, kinds)
    BY <1>1, <1>2, <1>3, <1>4, RunnerWrite
  <1>6. TagsSaid' \subseteq TagsSaid \cup {t}
    BY <1>5, <1>t DEF TagsSaid, OfRunner
  <1>7. ASSUME "RunnerTagInfo" \in Kept
        PROVE  TagsSaid \cup {t} \subseteq TagsSaid'
    <2>1. TagMetric(t) \in metrics'
      BY <1>5, <1>7, <1>t
    <2>2. t \in TagsSaid'
      BY <2>1, <1>t DEF TagsSaid, OfRunner
    <2>3. ASSUME NEW m \in OfRunner("RunnerTagInfo"), m.labels.tag # t
          PROVE  m \in metrics'
      <3>1. m \in metrics /\ m.kind = "RunnerTagInfo" /\ Sound(m)
        BY <2>3 DEF OfRunner, Right, Table
      <3>2. LabelOf(m, "tag") = m.labels.tag
        BY <3>1, RunnerCollectors DEF Sound, Exported, LabelOf
      <3>3. "tag" \in KeyLabels("RunnerTagInfo")
        BY DEF KeyLabels, PipelineKinds, PipelineGaugeKinds, RunKinds, JobKinds, EnvironmentKinds, TestReportKinds,
               TestSuiteKinds, TestCaseKinds
      <3>4. Key(TagMetric(t)) # Key(m)
        BY <2>3, <3>1, <3>2, <3>3, <1>t, KeyLabel
      <3> QED
        BY <1>1, <1>2, <3>1, <3>4, InSetMetrics
    <2> QED
      BY <2>2, <2>3 DEF TagsSaid, OfRunner
  <1> QED
    BY <1>5, <1>6, <1>7

\* ... and the groups.
LEMMA GroupWrite ==
    ASSUME RunnerTyped, Right(metrics), RunnerLabelled(metrics), WriteGroups
    PROVE  /\ Right(metrics') /\ RunnerLabelled(metrics')
           /\ \A m \in metrics' : m \in metrics \/ m = GroupMetric
           /\ \A kinds : "RunnerGroupInfo" \notin kinds => OfKinds(metrics', kinds) = OfKinds(metrics, kinds)
  <1>1. PICK new : new = {GroupMetric}
    OBVIOUS
  <1>2. metrics' = SetMetrics(metrics, new)
    BY <1>1 DEF WriteGroups, GroupMetric
  <1>3. \A m \in new : OfTheRunner(m) /\ m.kind = "RunnerGroupInfo"
    BY <1>1, RunnerWrittenMetrics
  <1>4. \A m, n \in new : m.kind = n.kind => m = n
    BY <1>1
  <1> QED
    BY <1>1, <1>2, <1>3, <1>4, RunnerWrite

\* A step of the runner keeps the table right and changes only metrics of runners.
LEMMA RunnerTableStep ==
    ASSUME RunnerTyped, Right(metrics), RunnerInv, RunnerStep
    PROVE  /\ Right(metrics') /\ RunnerLabelled(metrics')
           /\ \A kinds : kinds \cap RunnerKinds = {} => OfKinds(metrics', kinds) = OfKinds(metrics, kinds)
  <1>1. RunnerLabelled(metrics)
    BY DEF RunnerInv
  <1>k. {"Runner", "RunnerContactedAtSeconds", "RunnerProjectInfo", "RunnerTagInfo", "RunnerGroupInfo"} = RunnerKinds
    BY DEF RunnerKinds
  <1>2. ASSUME NEW m \in runnerPull.todo, DeleteRunnerMetric(m)
        PROVE  /\ Right(metrics') /\ RunnerLabelled(metrics')
               /\ \A kinds : kinds \cap RunnerKinds = {} => OfKinds(metrics', kinds) = OfKinds(metrics, kinds)
    <2>1. metrics' = DelMetrics(metrics, {m}) /\ m.kind \in RunnerKinds
      BY <1>2 DEF DeleteRunnerMetric, RunnerInv
    <2>2. metrics' \subseteq metrics
      BY <2>1, InDelMetrics
    <2>3. Right(metrics') /\ RunnerLabelled(metrics')
      BY <1>1, <2>2, DeletedRight DEF RunnerLabelled
    <2>4. ASSUME NEW kinds, kinds \cap RunnerKinds = {}
          PROVE  OfKinds(metrics', kinds) = OfKinds(metrics, kinds)
      <3>1. \A x \in {m} : x.kind \notin kinds
        BY <2>1, <2>4
      <3> QED
        BY <2>1, <3>1, DelMetricsFrame
    <2> QED
      BY <2>3, <2>4
  <1>3. CASE WriteRunner
    BY <1>1, <1>3, <1>k, InfoWrite
  <1>4. CASE WriteContact
    BY <1>1, <1>4, <1>k, ContactWrite
  <1>5. ASSUME NEW t, WriteTag(t)
        PROVE  /\ Right(metrics') /\ RunnerLabelled(metrics')
               /\ \A kinds : kinds \cap RunnerKinds = {} => OfKinds(metrics', kinds) = OfKinds(metrics, kinds)
    BY <1>1, <1>5, <1>k, TagWrite
  <1>6. CASE WriteGroups
    BY <1>1, <1>6, <1>k, GroupWrite
  <1>7. CASE metrics' = metrics
    BY <1>1, <1>7
  <1> QED
    BY <1>2, <1>3, <1>4, <1>5, <1>6, <1>7, RunnerWrites

\* At first there are no metrics.
LEMMA RunnerInvInit ==
    ASSUME RunnerInit, metrics = {}
    PROVE  RunnerInv
  <1>1. runnerPull.stage = "idle" /\ runnerPull.todo = {}
    BY RunnerRecords DEF RunnerInit
  <1>2. StatusesSaid = {} /\ TagsSaid = {} /\ ContactsSaid = {} /\ OfKinds(metrics, RunnerKinds) = {}
        /\ OfRunner("Runner") = {}
    BY DEF StatusesSaid, TagsSaid, ContactsSaid, OfRunner, OfKinds
  <1>3. RunnerOfOneSnapshot
    <2>1. PICK last \in Nat \ {0} : last = Len(Tags)
      BY TagsAssumption
    <2> QED
      BY <1>2, <2>1 DEF RunnerOfOneSnapshot
  <1> QED
    BY <1>1, <1>2, <1>3 DEF RunnerInv, RunnerLabelled, Got

\* What is said of kinds of which no metric is new.
LEMMA SaidLess ==
    /\ OfKinds(metrics', {"Runner"}) \subseteq OfKinds(metrics, {"Runner"}) =>
          StatusesSaid' \subseteq StatusesSaid /\ OfRunner("Runner")' \subseteq OfRunner("Runner")
    /\ OfKinds(metrics', {"RunnerTagInfo"}) \subseteq OfKinds(metrics, {"RunnerTagInfo"}) => TagsSaid' \subseteq TagsSaid
    /\ OfKinds(metrics', {"RunnerContactedAtSeconds"}) \subseteq OfKinds(metrics, {"RunnerContactedAtSeconds"}) =>
          ContactsSaid' \subseteq ContactsSaid
  BY DEF OfKinds, OfRunner, StatusesSaid, TagsSaid, ContactsSaid

\* What is said of kinds whose metrics stay.
LEMMA SaidStays ==
    /\ OfKinds(metrics', {"Runner"}) = OfKinds(metrics, {"Runner"}) =>
          StatusesSaid' = StatusesSaid /\ OfRunner("Runner")' = OfRunner("Runner")
    /\ OfKinds(metrics', {"RunnerTagInfo"}) = OfKinds(metrics, {"RunnerTagInfo"}) => TagsSaid' = TagsSaid
    /\ OfKinds(metrics', {"RunnerContactedAtSeconds"}) = OfKinds(metrics, {"RunnerContactedAtSeconds"}) =>
          ContactsSaid' = ContactsSaid
  BY DEF OfKinds, OfRunner, StatusesSaid, TagsSaid, ContactsSaid

\* A runner of which there is no metric is not said to be anything.
LEMMA NothingSaid ==
    ASSUME OfKinds(metrics, RunnerKinds) = {}
    PROVE  StatusesSaid = {} /\ TagsSaid = {} /\ ContactsSaid = {} /\ OfRunner("Runner") = {}
  BY DEF OfKinds, OfRunner, StatusesSaid, TagsSaid, ContactsSaid, RunnerKinds

\* A revision the pull has got is one of the runner.
LEMMA GotRevision ==
    ASSUME RunnerTyped, RunnerRelated, Got(runnerPull)
    PROVE  runnerPull.copy.revision \in 1..Len(Tags)
  <1>1. PICK last \in Nat : last = Len(Tags)
    BY TagsAssumption
  <1>2. gitlabRunner.revision \in 1..last
    BY <1>1 DEF RunnerTyped
  <1>3. runnerPull.copy.revision \in Nat /\ runnerPull.copy.revision > 0
        /\ runnerPull.copy.revision <= gitlabRunner.revision
    BY RunnerTaskFields DEF RunnerTyped, RunnerRelated
  <1> QED
    BY <1>1, <1>2, <1>3

\* Whatever is not a write keeps the invariant, as long as a runner that is not stored
\* any more counts as deleted.
LEMMA RunnerInvKept ==
    ASSUME RunnerInv, metrics' = metrics, robbed' = robbed,
           \/ runnerPull' = runnerPull
           \/ Quiet(runnerPull) /\ Quiet(runnerPull') /\ runnerPull'.todo = runnerPull.todo,
           ~runnerDeleted' => ~runnerDeleted,
           ~runnerDeleted' /\ runner.stored => runner'.stored,
           ~runnerDeleted' /\ Got(runnerPull') => runner'.stored
    PROVE  RunnerInv'
  <1>1. /\ StatusesSaid' = StatusesSaid /\ TagsSaid' = TagsSaid /\ ContactsSaid' = ContactsSaid
        /\ OfRunner("Runner")' = OfRunner("Runner") /\ OfKinds(metrics', RunnerKinds) = OfKinds(metrics, RunnerKinds)
    BY DEF StatusesSaid, TagsSaid, ContactsSaid, OfRunner
  <1>2. RunnerOfOneSnapshot'
    BY <1>1 DEF RunnerInv, RunnerOfOneSnapshot, Quiet
  <1>3. RunnerLabelled(metrics')
    BY DEF RunnerInv
  <1>4. /\ \A m \in OfRunner("Runner")' : m.value = 1
        /\ \A m \in runnerPull'.todo : m.kind \in Kept /\ m.kind \in RunnerKinds
        /\ ~runnerDeleted' /\ (Got(runnerPull') \/ OfKinds(metrics', RunnerKinds) # {}) => runner'.stored
    BY <1>1 DEF RunnerInv
  <1>5. CASE runnerPull' = runnerPull
    BY <1>1, <1>2, <1>3, <1>4, <1>5 DEF RunnerInv, OfRevision
  <1>6. CASE Quiet(runnerPull')
    BY <1>2, <1>3, <1>4, <1>6 DEF RunnerInv, Quiet
  <1> QED
    BY <1>5, <1>6

\* What the runner's metrics say when they are deleted one by one ...
LEMMA RunnerDeletes ==
    ASSUME RunnerTyped, RunnerRelated, Right(metrics), RunnerInv, RunnerStep, robbed' = robbed,
           ListRunnerMetrics \/ \E m \in runnerPull.todo : DeleteRunnerMetric(m)
    PROVE  RunnerInv'
  <1>1. PICK todo : /\ runnerPull' = Deleting(todo) /\ metrics' \subseteq metrics
                    /\ \A m \in todo : m.kind \in Kept /\ m.kind \in RunnerKinds
                    /\ OfKinds(metrics', RunnerKinds) \subseteq todo
    <2>1. CASE ListRunnerMetrics
      <3>1. PICK todo : todo = {m \in metrics : LabelOf(m, "runner_id") = "1" /\ m.kind \in RunnerKinds}
        OBVIOUS
      <3>2. runnerPull' = Deleting(todo) /\ metrics' = metrics
        BY <2>1, <3>1 DEF ListRunnerMetrics
      <3>3. ASSUME NEW m \in metrics, m.kind \in RunnerKinds
            PROVE  LabelOf(m, "runner_id") = "1"
        <4>1. m.labels.runner_id = "1"
          BY <3>3 DEF RunnerInv, RunnerLabelled
        <4>2. "runner_id" \in DOMAIN m.labels
          BY <3>3, RunnerCollectors DEF Right, Table, Sound, Exported
        <4> QED
          BY <4>1, <4>2 DEF LabelOf
      <3>4. \A m \in todo : m.kind \in Kept /\ m.kind \in RunnerKinds
        BY <3>1 DEF Right, Table
      <3>5. OfKinds(metrics', RunnerKinds) \subseteq todo
        BY <3>1, <3>2, <3>3 DEF OfKinds
      <3> QED
        BY <3>2, <3>4, <3>5
    <2>2. ASSUME NEW m \in runnerPull.todo, DeleteRunnerMetric(m)
          PROVE  \E todo : /\ runnerPull' = Deleting(todo) /\ metrics' \subseteq metrics
                           /\ \A x \in todo : x.kind \in Kept /\ x.kind \in RunnerKinds
                           /\ OfKinds(metrics', RunnerKinds) \subseteq todo
      <3>1. PICK todo : todo = runnerPull.todo \ {m}
        OBVIOUS
      <3>2. runnerPull' = Deleting(todo) /\ metrics' = DelMetrics(metrics, {m}) /\ runnerPull.stage = "deleting"
        BY <2>2, <3>1 DEF DeleteRunnerMetric
      <3>3. \A x \in metrics' : x \in metrics /\ x # m
        BY <3>2, InDelMetrics
      <3>4. OfKinds(metrics, RunnerKinds) \subseteq runnerPull.todo
        BY <3>2 DEF RunnerInv
      <3>5. OfKinds(metrics', RunnerKinds) \subseteq todo
        BY <3>1, <3>3, <3>4 DEF OfKinds
      <3>6. \A x \in todo : x.kind \in Kept /\ x.kind \in RunnerKinds
        BY <3>1 DEF RunnerInv
      <3> QED
        BY <3>2, <3>3, <3>5, <3>6
    <2> QED
      BY <2>1, <2>2
  <1>2. /\ UNCHANGED <<runner, runnerDeleted>> /\ Got(runnerPull)
    BY DEF ListRunnerMetrics, DeleteRunnerMetric, RunnerUnchanged, Got
  <1>3. RunnerTask(runnerPull)
    BY DEF RunnerTyped
  <1>4. /\ runnerPull'.todo = todo
        /\ runnerPull'.stage = IF todo = {} THEN "informing" ELSE "deleting"
    <2>1. PICK stage \in RunnerStages : stage = IF todo = {} THEN "informing" ELSE "deleting"
      BY DEF RunnerStages
    <2>2. runnerPull' = [runnerPull EXCEPT !.stage = stage, !.todo = todo]
      BY <1>1, <2>1 DEF Deleting
    <2> QED
      BY <1>3, <2>1, <2>2 DEF RunnerTask
  <1>5. /\ StatusesSaid' \subseteq StatusesSaid /\ TagsSaid' \subseteq TagsSaid /\ ContactsSaid' \subseteq ContactsSaid
        /\ OfRunner("Runner")' \subseteq OfRunner("Runner")
        /\ OfKinds(metrics', RunnerKinds) \subseteq OfKinds(metrics, RunnerKinds)
    <2>1. \A kinds : OfKinds(metrics', kinds) \subseteq OfKinds(metrics, kinds)
      BY <1>1 DEF OfKinds
    <2> QED
      BY <2>1, SaidLess
  <1>6. RunnerOfOneSnapshot'
    BY <1>4, <1>5 DEF RunnerInv, RunnerOfOneSnapshot
  <1>7. RunnerLabelled(metrics') /\ \A m \in OfRunner("Runner")' : m.value = 1
    BY <1>1, <1>5 DEF RunnerInv, RunnerLabelled
  <1>8. ~runnerDeleted' => runner'.stored
    BY <1>2 DEF RunnerInv
  <1>9. runnerPull'.stage = "informing" => OfKinds(metrics', RunnerKinds) = {}
    BY <1>1, <1>4
  <1>10. /\ runnerPull'.stage \in {"informing", "deleting"}
         /\ \A m \in runnerPull'.todo : m.kind \in Kept /\ m.kind \in RunnerKinds
         /\ OfKinds(metrics', RunnerKinds) \subseteq runnerPull'.todo
    BY <1>1, <1>4
  <1> QED
    BY <1>6, <1>7, <1>8, <1>9, <1>10 DEF RunnerInv

\* ... and written: what was exported of the last pull is gone before anything of the next is
\* (runners.go:187).
LEMMA RunnerWritesKeep ==
    ASSUME RunnerTyped, RunnerRelated, Right(metrics), RunnerInv, robbed' = robbed,
           \/ WriteRunner \/ WriteContact
           \/ \E t \in runnerPull.tags : WriteTag(t)
           \/ WriteGroups
    PROVE  RunnerInv'
  <1>1. UNCHANGED <<runner, runnerDeleted>> /\ Got(runnerPull)
    BY DEF WriteRunner, WriteContact, WriteTag, WriteGroups, RunnerUnchanged, Got
  <1>n. PICK n \in 1..Len(Tags) : n = runnerPull.copy.revision
    BY <1>1, GotRevision
  <1>2. /\ RunnerTask(runnerPull) /\ RunnerLabelled(metrics)
        /\ \A m \in runnerPull.todo : m.kind \in Kept /\ m.kind \in RunnerKinds
        /\ ~runnerDeleted' => runner'.stored
    BY <1>1 DEF RunnerTyped, RunnerInv
  <1>3. \A m \in metrics' : m.kind \in Kept
    <2>1. Right(metrics')
      BY <1>2, InfoWrite, ContactWrite, TagWrite, GroupWrite
    <2> QED
      BY <2>1 DEF Right, Table
  <1>4. \A m \in OfRunner("Runner") : m.value = 1
    BY DEF RunnerInv
  <1>o. OfRevision(n)' /\ runnerPull'.stage \in {"contacting", "tagging"} => RunnerOfOneSnapshot'
    BY DEF RunnerOfOneSnapshot, OfRevision
  <1>5. CASE WriteRunner
    <2>1. /\ RunnerLabelled(metrics') /\ \A m \in metrics' : m \in metrics \/ m = InfoMetric
          /\ \A kinds : "Runner" \notin kinds => OfKinds(metrics', kinds) = OfKinds(metrics, kinds)
      BY <1>2, <1>5, InfoWrite
    <2>2. runnerPull'.stage = "contacting" /\ runnerPull'.copy = runnerPull.copy /\ runnerPull'.todo = runnerPull.todo
      <3>1. runnerPull' = [runnerPull EXCEPT !.stage = "contacting"]
        BY <1>5 DEF WriteRunner
      <3> QED
        BY <3>1, <1>2, PullStaged DEF RunnerStages
    <2>3. StatusesSaid = {} /\ TagsSaid = {} /\ ContactsSaid = {} /\ OfRunner("Runner") = {}
      BY <1>5, NothingSaid DEF WriteRunner, RunnerInv
    <2>4. TagsSaid' = {} /\ ContactsSaid' = {}
      BY <2>1, <2>3, SaidStays
    <2>5. \A m \in OfRunner("Runner")' : m = InfoMetric
      BY <2>1, <2>3 DEF OfRunner
    <2>6. InfoMetric.value = 1 /\ InfoMetric.labels.status = n
      BY <1>n, RunnerWrittenMetrics
    <2>7. OfRevision(n)' /\ \A m \in OfRunner("Runner")' : m.value = 1
      <3>1. StatusesSaid' \subseteq {n}
        BY <2>5, <2>6 DEF StatusesSaid
      <3> QED
        BY <1>n, <2>4, <2>5, <2>6, <3>1, <2>2 DEF OfRevision
    <2>8. RunnerOfOneSnapshot'
      BY <1>o, <2>2, <2>7
    <2>9. OfRevision(runnerPull.copy.revision)'
      BY <1>n, <2>2, <2>7
    <2> QED
      BY <1>2, <2>1, <2>2, <2>7, <2>8, <2>9 DEF RunnerInv
  <1>6. CASE WriteContact
    <2>1. /\ RunnerLabelled(metrics') /\ \A m \in metrics' : m \in metrics \/ m = ProjectMetric \/ m \in Contacts
          /\ \A m \in Contacts : m.kind \in Kept => m \in metrics'
          /\ \A kinds : kinds \cap {"RunnerContactedAtSeconds", "RunnerProjectInfo"} = {} =>
                           OfKinds(metrics', kinds) = OfKinds(metrics, kinds)
      BY <1>2, <1>6, ContactWrite
    <2>2. /\ runnerPull'.stage = "tagging" /\ runnerPull'.copy = runnerPull.copy /\ runnerPull'.todo = runnerPull.todo
          /\ runnerPull'.tags = Tags[n]
      <3>1. runnerPull' = [runnerPull EXCEPT !.stage = "tagging", !.tags = Tags[n]]
        BY <1>n, <1>6 DEF WriteContact
      <3> QED
        BY <3>1, <1>2 DEF RunnerTask, RunnerStages
    <2>3. OfRevision(n)
      BY <1>n, <1>6 DEF WriteContact, RunnerInv
    <2>4. /\ StatusesSaid' = StatusesSaid /\ TagsSaid' = TagsSaid /\ OfRunner("Runner")' = OfRunner("Runner")
      BY <2>1, SaidStays
    <2>5. /\ ProjectMetric.kind = "RunnerProjectInfo"
          /\ \A m \in Contacts : m.kind = "RunnerContactedAtSeconds" /\ m.value = n
          /\ n # 1 => Contacts # {}
          /\ n = 1 => Contacts = {}
      BY <1>n, RunnerWrittenMetrics
    <2>6. ContactsSaid' \subseteq {n} \ {1}
      BY <2>1, <2>3, <2>5 DEF OfRevision, ContactsSaid, OfRunner
    <2>7. "Runner" \in Kept => {n} \ {1} \subseteq ContactsSaid'
      BY <2>1, <2>5, RunnerKindsAssumption DEF ContactsSaid, OfRunner
    <2>8. OfRevision(n)'
      BY <1>n, <2>2, <2>3, <2>4, <2>6 DEF OfRevision
    <2>9. RunnerOfOneSnapshot'
      BY <1>o, <2>2, <2>8
    <2>10. /\ OfRevision(runnerPull.copy.revision)' /\ runnerPull'.tags \subseteq Tags[runnerPull'.copy.revision]
           /\ Tags[runnerPull'.copy.revision] \ runnerPull'.tags \subseteq TagsSaid'
           /\ "Runner" \in Kept => ContactsSaid' = {runnerPull'.copy.revision} \ {1}
      BY <1>n, <2>2, <2>6, <2>7, <2>8
    <2> QED
      BY <1>2, <1>4, <2>1, <2>2, <2>4, <2>9, <2>10 DEF RunnerInv
  <1>7. ASSUME NEW t \in runnerPull.tags, WriteTag(t)
        PROVE  RunnerInv'
    <2>1. /\ RunnerLabelled(metrics')
          /\ "RunnerTagInfo" \in Kept => TagsSaid' = TagsSaid \cup {t}
          /\ TagsSaid' \subseteq TagsSaid \cup {t}
          /\ \A kinds : "RunnerTagInfo" \notin kinds => OfKinds(metrics', kinds) = OfKinds(metrics, kinds)
      BY <1>2, <1>7, TagWrite
    <2>2. /\ runnerPull'.stage = "tagging" /\ runnerPull'.copy = runnerPull.copy /\ runnerPull'.todo = runnerPull.todo
          /\ runnerPull'.tags = runnerPull.tags \ {t}
      <3>1. runnerPull' = [runnerPull EXCEPT !.tags = runnerPull.tags \ {t}] /\ runnerPull.stage = "tagging"
        BY <1>7 DEF WriteTag
      <3> QED
        BY <3>1, <1>2, PullTagged
    <2>3. OfRevision(n) /\ runnerPull.tags \subseteq Tags[n]
      BY <1>n, <1>7 DEF WriteTag, RunnerInv
    <2>4. StatusesSaid' = StatusesSaid /\ ContactsSaid' = ContactsSaid /\ OfRunner("Runner")' = OfRunner("Runner")
      BY <2>1, SaidStays
    <2>5. TagsSaid' \subseteq Tags[n]
      BY <2>1, <2>3 DEF OfRevision
    <2>6. OfRevision(n)'
      BY <1>n, <2>2, <2>3, <2>4, <2>5 DEF OfRevision
    <2>7. RunnerOfOneSnapshot'
      BY <1>o, <2>2, <2>6
    <2>8. ASSUME "Runner" \in Kept, ~runnerDeleted', ~robbed'
          PROVE  ContactsSaid' = {n} \ {1} /\ Tags[n] \ runnerPull'.tags \subseteq TagsSaid'
      <3>1. ContactsSaid = {n} \ {1} /\ Tags[n] \ runnerPull.tags \subseteq TagsSaid
        BY <1>n, <1>1, <1>7, <2>8 DEF WriteTag, RunnerInv
      <3> QED
        BY <2>1, <2>2, <2>4, <2>8, <3>1, RunnerKindsAssumption
    <2>9. OfRevision(runnerPull.copy.revision)' /\ runnerPull'.tags \subseteq Tags[runnerPull'.copy.revision]
      BY <1>n, <2>2, <2>3, <2>6
    <2> QED
      BY <1>n, <1>2, <1>4, <2>1, <2>2, <2>4, <2>7, <2>8, <2>9 DEF RunnerInv
  <1>8. CASE WriteGroups
    <2>1. /\ RunnerLabelled(metrics')
          /\ \A kinds : "RunnerGroupInfo" \notin kinds => OfKinds(metrics', kinds) = OfKinds(metrics, kinds)
      BY <1>2, <1>8, GroupWrite
    <2>2. runnerPull' = NoRunnerPull /\ runnerPull.stage = "tagging" /\ runnerPull.tags = {}
      BY <1>8 DEF WriteGroups
    <2>3. OfRevision(n)
      BY <1>n, <2>2 DEF RunnerInv
    <2>4. /\ StatusesSaid' = StatusesSaid /\ ContactsSaid' = ContactsSaid /\ TagsSaid' = TagsSaid
          /\ OfRunner("Runner")' = OfRunner("Runner")
      BY <2>1, SaidStays
    <2>5. ASSUME ~runnerDeleted', ~robbed', NEW m \in OfRunner("Runner")'
          PROVE  m.labels.status = n /\ TagsSaid' = Tags[n] /\ ContactsSaid' = {n} \ {1}
      <3>1. "Runner" \in Kept
        BY <1>3, <2>5 DEF OfRunner
      <3>2. m.labels.status \in StatusesSaid'
        BY <2>5 DEF StatusesSaid
      <3>3. ContactsSaid = {n} \ {1} /\ Tags[n] \subseteq TagsSaid
        BY <1>n, <1>1, <2>2, <2>5, <3>1 DEF RunnerInv
      <3> QED
        BY <2>3, <2>4, <3>2, <3>3 DEF OfRevision
    <2>6. RunnerOfOneSnapshot'
      <3>1. \E k \in 1..Len(Tags) :
               StatusesSaid' \subseteq {k} /\ TagsSaid' \subseteq Tags[k] /\ ContactsSaid' \subseteq {k} \ {1}
        BY <1>2, <2>3, <2>4 DEF OfRevision
      <3>2. ASSUME ~runnerDeleted', ~robbed', NEW k \in StatusesSaid'
            PROVE  TagsSaid' = Tags[k] /\ ContactsSaid' = {k} \ {1}
        <4>1. PICK m \in OfRunner("Runner")' : k = m.labels.status
          BY <3>2 DEF StatusesSaid
        <4> QED
          BY <3>2, <4>1, <2>5
      <3> QED
        BY <3>1, <3>2 DEF RunnerOfOneSnapshot
    <2>7. runnerPull'.stage = "idle" /\ runnerPull'.todo = {}
      BY <2>2, RunnerRecords
    <2> QED
      BY <1>2, <1>4, <2>1, <2>4, <2>6, <2>7 DEF RunnerInv
  <1> QED
    BY <1>5, <1>6, <1>7, <1>8

\* What the steps do to the runner in the store.
LEMMA RunnerStored ==
    ASSUME RunnerTyped, RunnerStep
    PROVE  /\ ~runnerDeleted' => ~runnerDeleted
           /\ ~runnerDeleted' /\ runner.stored => runner'.stored
           /\ UpdateRunner /\ Got(runnerPull') => runner'.stored
  <1>0. runner.stored \in BOOLEAN /\ runnerDeleted \in BOOLEAN
    BY RunnerFields DEF RunnerTyped
  <1>1. CASE StoreDiscoveredRunner /\ ~UpdateRunner
    BY <1>1, RunnerTaskFields, StoredRunner DEF StoreDiscoveredRunner, SetRunner, RunnerTyped
  <1>2. CASE CheckRunner /\ ~UpdateRunner
    <2>1. PICK r : r = [runnerSweep.copy EXCEPT !.sparse = runnerSettings.sparse]
      OBVIOUS
    <2>2. r \in RunnerRecord
      BY <2>1, RunnerTaskFields, ReconfiguredRunner DEF RunnerTyped, RunnerSettings
    <2>3. DelRunner \/ SetRunner(r) \/ RunnerUnchanged
      BY <1>2, <2>1 DEF CheckRunner
    <2>4. CASE DelRunner
      BY <1>0, <1>2, <2>4 DEF DelRunner
    <2>5. CASE SetRunner(r)
      <3>1. runner' = [r EXCEPT !.stored = TRUE] /\ runnerDeleted' = runnerDeleted
        BY <2>5 DEF SetRunner
      <3> QED
        BY <1>2, <2>2, <3>1, StoredRunner
    <2>6. CASE RunnerUnchanged
      BY <1>2, <2>6 DEF RunnerUnchanged
    <2> QED
      BY <2>3, <2>4, <2>5, <2>6
  <1>3. CASE SweepRunners /\ ~UpdateRunner
    BY <1>0, <1>3 DEF SweepRunners, DelRunner, RunnerUnchanged
  <1>4. CASE UpdateRunner
    <2>1. PICK copy : copy = [runnerPull.copy EXCEPT !.revision = gitlabRunner.revision]
      OBVIOUS
    <2>2. copy \in RunnerRecord
      BY <2>1, RunnerTaskFields, GotRunner DEF RunnerTyped
    <2>3. \/ runnerPull' = [runnerPull EXCEPT !.stage = "idle", !.copy = NoRunner]
          \/ runnerPull' = [runnerPull EXCEPT !.stage = "listing", !.copy = copy]
      BY <1>4, <2>1 DEF UpdateRunner, GetRunner
    <2>4. RunnerTask(runnerPull)
      BY DEF RunnerTyped
    <2>5. runnerPull'.stage = "idle" \/ (runnerPull'.stage = "listing" /\ runnerPull'.copy = copy)
      BY <2>3, <2>4 DEF RunnerTask
    <2>6. CASE runnerPull'.stage = "idle"
      BY <1>4, <2>6 DEF UpdateRunner, RunnerUnchanged, Got
    <2>7. CASE runnerPull'.stage = "listing"
      <3>1. runner' = [copy EXCEPT !.stored = TRUE] /\ runnerDeleted' = runnerDeleted
        BY <1>4, <2>5, <2>7 DEF UpdateRunner, SetRunner
      <3> QED
        BY <2>2, <3>1, StoredRunner
    <2> QED
      BY <2>5, <2>6, <2>7
  <1>5. CASE UNCHANGED <<runner, runnerDeleted>> /\ ~UpdateRunner
    BY <1>5
  <1> QED
    BY <1>1, <1>2, <1>3, <1>4, <1>5
       DEF RunnerStep, RunnerDiscoveryStep, RunnerPullStep, RunnerSweepStep, ReviseRunner, ChangeRunner,
           PullRunnersFromProject, LookUpRunner, UpdateDiscoveredRunner, ScheduleRunnerMetrics, ListRunnerMetrics,
           DeleteRunnerMetric, WriteRunner, WriteContact, WriteTag, WriteGroups, CollectRunners, ListRunners,
           RunnerUnchanged

\* A step of the runner keeps the invariant.
LEMMA RunnerInvStep ==
    ASSUME RunnerTyped, RunnerRelated, Right(metrics), RunnerInv, RunnerStep, robbed' = robbed
    PROVE  RunnerInv'
  <1>1. CASE ListRunnerMetrics \/ \E m \in runnerPull.todo : DeleteRunnerMetric(m)
    BY <1>1, RunnerDeletes
  <1>2. CASE WriteRunner \/ WriteContact \/ (\E t \in runnerPull.tags : WriteTag(t)) \/ WriteGroups
    BY <1>2, RunnerWritesKeep
  <1>3. CASE UpdateRunner
    <2>1. RunnerTask(runnerPull) /\ metrics' = metrics /\ runnerPull.stage = "queued"
      BY <1>3 DEF UpdateRunner, RunnerTyped
    <2>2. \E stage \in {"idle", "listing"} :
             \E copy : runnerPull' = [runnerPull EXCEPT !.stage = stage, !.copy = copy]
      <3>1. PICK copy : copy = [runnerPull.copy EXCEPT !.revision = gitlabRunner.revision]
        OBVIOUS
      <3> QED
        BY <1>3, <3>1 DEF UpdateRunner, GetRunner
    <2>3. Quiet(runnerPull) /\ Quiet(runnerPull') /\ runnerPull'.todo = runnerPull.todo
      BY <2>1, <2>2 DEF Quiet, RunnerTask
    <2>4. /\ ~runnerDeleted' => ~runnerDeleted
          /\ ~runnerDeleted' /\ runner.stored => runner'.stored
          /\ Got(runnerPull') => runner'.stored
      BY <1>3, RunnerStored
    <2> QED
      BY <2>1, <2>3, <2>4, RunnerInvKept
  <1>4. CASE \/ (ReviseRunner \/ ChangeRunner) /\ UNCHANGED <<metrics, failures>>
             \/ RunnerDiscoveryStep \/ ScheduleRunnerMetrics \/ RunnerSweepStep
    <2>1. metrics' = metrics
      BY <1>4 DEF RunnerDiscoveryStep, RunnerSweepStep, PullRunnersFromProject, LookUpRunner,
                  UpdateDiscoveredRunner, StoreDiscoveredRunner, ScheduleRunnerMetrics, CollectRunners,
                  CheckRunner, ListRunners, SweepRunners, runnerSweepVars
    <2>2. \/ runnerPull' = runnerPull
          \/ /\ Quiet(runnerPull) /\ Quiet(runnerPull') /\ ~Got(runnerPull')
             /\ runnerPull'.todo = runnerPull.todo
      <3>1. RunnerTask(runnerPull)
        BY DEF RunnerTyped
      <3>2. \/ runnerPull' = runnerPull
            \/ /\ runnerPull.stage = "idle"
               /\ \E copy : runnerPull' = [runnerPull EXCEPT !.stage = "queued", !.copy = copy]
        BY <1>4 DEF ReviseRunner, ChangeRunner, RunnerDiscoveryStep, RunnerSweepStep, PullRunnersFromProject,
                    LookUpRunner, UpdateDiscoveredRunner, StoreDiscoveredRunner, ScheduleRunnerMetrics,
                    CollectRunners, CheckRunner, ListRunners, SweepRunners, runnerSweepVars
      <3> QED
        BY <3>1, <3>2 DEF RunnerTask, Quiet, Got
    <2>3. /\ ~runnerDeleted' => ~runnerDeleted
          /\ ~runnerDeleted' /\ runner.stored => runner'.stored
      BY RunnerStored
    <2>4. ~runnerDeleted' /\ Got(runnerPull') => runner'.stored
      BY <2>2, <2>3 DEF RunnerInv
    <2> QED
      BY <2>1, <2>2, <2>3, <2>4, RunnerInvKept
  <1> QED
    BY <1>1, <1>2, <1>3, <1>4 DEF RunnerStep, RunnerPullStep

-----------------------------------------------------------------------------
\* The collection of runners.

\* What is wanted still is listed when its project has been listed.
RunnerSweepInv ==
    /\ runnerSweep.wanted => RunnerWanted
    /\ runnerSweep.wanted /\ runnerSweep.stage = "sweeping" /\ runnerSweep.copy.stored => runnerSweep.listed

\* No collection at first.
LEMMA RunnerSweepInit ==
    ASSUME RunnerInit
    PROVE  RunnerSweepInv
  BY RunnerRecords DEF RunnerInit, RunnerSweepInv

\* A step of the runner keeps this: what is wanted still is not deleted (garbage_collector.go:390).
LEMMA RunnerSweepInvStep ==
    ASSUME RunnerTyped, RunnerSweepInv, RunnerStep
    PROVE  RunnerSweepInv' /\ RunnerSpared
  <1>1. runnerSweep \in RunnerSweepTask
    BY DEF RunnerTyped
  <1>2. CASE ChangeRunner
    <2>1. PICK stays \in BOOLEAN : RunnerStays(stays) /\ (stays => gitlabRunner'.exists /\ runnersPulled')
      BY <1>2 DEF ChangeRunner, RunnerTyped
    <2>2. /\ runnerSweep'.stage = runnerSweep.stage /\ runnerSweep'.copy = runnerSweep.copy
          /\ runnerSweep'.listed = runnerSweep.listed
          /\ runnerSweep'.wanted => runnerSweep.wanted /\ stays
      <3>1. runnerSweep' = [runnerSweep EXCEPT !.wanted = runnerSweep.wanted /\ stays]
        BY <2>1 DEF RunnerStays
      <3>2. CASE runnerSweep.wanted /\ stays
        <4>1. runnerSweep' = [runnerSweep EXCEPT !.wanted = TRUE]
          BY <3>1, <3>2, Zenon
        <4> QED
          BY <4>1, <3>2, <1>1 DEF RunnerSweepTask
      <3>3. CASE ~(runnerSweep.wanted /\ stays)
        <4>1. runnerSweep' = [runnerSweep EXCEPT !.wanted = FALSE]
          BY <3>1, <3>3, Zenon
        <4> QED
          BY <4>1, <3>3, <1>1 DEF RunnerSweepTask
      <3> QED
        BY <3>2, <3>3
    <2>3. UNCHANGED <<runner, runnerSettings>>
      BY <1>2 DEF ChangeRunner
    <2> QED
      BY <2>1, <2>2, <2>3 DEF RunnerSweepInv, RunnerSpared, RunnerWanted
  <1>3. CASE ReviseRunner
    <2>1. UNCHANGED <<runner, runnerSweep, runnersPulled, runnerSettings>> /\ gitlabRunner'.exists = gitlabRunner.exists
      BY <1>3 DEF ReviseRunner, RunnerTyped
    <2> QED
      BY <2>1 DEF RunnerSweepInv, RunnerSpared, RunnerWanted
  <1>4. CASE RunnerDiscoveryStep \/ RunnerPullStep
    <2>1. UNCHANGED <<runnerSweep, gitlabRunnerVars>>
      BY <1>4 DEF RunnerDiscoveryStep, RunnerPullStep, PullRunnersFromProject, LookUpRunner, UpdateDiscoveredRunner,
                  StoreDiscoveredRunner, ScheduleRunnerMetrics, UpdateRunner, ListRunnerMetrics, DeleteRunnerMetric,
                  WriteRunner, WriteContact, WriteTag, WriteGroups, runnerPullVars
    <2>2. runner' = runner \/ runner'.stored
      <3>1. CASE StoreDiscoveredRunner
        BY <3>1, StoredRunner, RunnerTaskFields DEF StoreDiscoveredRunner, SetRunner, RunnerTyped
      <3>2. CASE UpdateRunner
        BY <3>2, RunnerStored DEF UpdateRunner, RunnerUnchanged, Got
      <3> QED
        BY <1>4, <3>1, <3>2
           DEF RunnerDiscoveryStep, RunnerPullStep, PullRunnersFromProject, LookUpRunner, UpdateDiscoveredRunner,
               ScheduleRunnerMetrics, ListRunnerMetrics, DeleteRunnerMetric, WriteRunner, WriteContact, WriteTag,
               WriteGroups, RunnerUnchanged
    <2> QED
      BY <2>1, <2>2 DEF RunnerSweepInv, RunnerSpared, RunnerWanted, gitlabRunnerVars
  <1>5. CASE CollectRunners
    <2>1. /\ UNCHANGED <<runner, gitlabRunnerVars>>
          /\ runnerSweep' = [stage |-> IF runner.stored THEN "checking" ELSE "sweeping",
                             copy |-> runner, listed |-> FALSE, wanted |-> RunnerWanted]
      BY <1>5 DEF CollectRunners, RunnerUnchanged, runnerSweepVars
    <2> QED
      BY <2>1 DEF RunnerSweepInv, RunnerSpared, RunnerWanted, gitlabRunnerVars
  <1>6. CASE CheckRunner
    <2>1. UNCHANGED gitlabRunnerVars
      BY <1>6 DEF CheckRunner, runnerSweepVars
    <2>2. /\ runnerSweep'.stage = IF runnersPulled THEN "listing" ELSE "sweeping"
          /\ runnerSweep'.copy = runnerSweep.copy /\ runnerSweep'.wanted = runnerSweep.wanted
      BY <1>6, <1>1 DEF CheckRunner, RunnerSweepTask
    <2>3. RunnerSweepInv'
      BY <2>1, <2>2 DEF RunnerSweepInv, RunnerWanted, gitlabRunnerVars
    <2>4. CASE runnersPulled /\ runnerSettings.described
      <3>1. PICK r : r = [runnerSweep.copy EXCEPT !.sparse = runnerSettings.sparse]
        OBVIOUS
      <3>2. r \in RunnerRecord
        BY <3>1, RunnerTaskFields, ReconfiguredRunner DEF RunnerTyped, RunnerSettings
      <3>3. runner' = runner \/ runner' = [r EXCEPT !.stored = TRUE]
        BY <1>6, <2>4, <3>1 DEF CheckRunner, RunnerUnchanged, SetRunner
      <3> QED
        BY <2>3, <3>2, <3>3, StoredRunner DEF RunnerSpared
    <2>5. CASE ~(runnersPulled /\ runnerSettings.described)
      BY <2>3, <2>5 DEF RunnerSpared, RunnerSweepInv, RunnerWanted
    <2> QED
      BY <2>4, <2>5
  <1>7. CASE ListRunners
    <2>1. UNCHANGED <<runner, gitlabRunnerVars>>
      BY <1>7 DEF ListRunners, RunnerUnchanged, runnerSweepVars
    <2>2. CASE runnerSweep' = NoRunnerSweep
      BY <2>1, <2>2, RunnerRecords DEF RunnerSweepInv, RunnerSpared
    <2>3. CASE runnerSweep' = [runnerSweep EXCEPT !.stage = "sweeping", !.listed = gitlabRunner.exists]
      <3>1. runnerSweep'.wanted = runnerSweep.wanted /\ runnerSweep'.listed = gitlabRunner.exists
        BY <2>3, <1>1 DEF RunnerSweepTask
      <3> QED
        BY <2>1, <3>1 DEF RunnerSweepInv, RunnerSpared, RunnerWanted, gitlabRunnerVars
    <2> QED
      BY <1>7, <2>2, <2>3 DEF ListRunners
  <1>8. CASE SweepRunners
    <2>1. /\ runnerSweep' = NoRunnerSweep /\ runnerSweep.stage = "sweeping"
          /\ runnerSweep.listed => runner' = runner
      BY <1>8 DEF SweepRunners, RunnerUnchanged
    <2> QED
      BY <2>1, RunnerRecords DEF RunnerSweepInv, RunnerSpared
  <1> QED
    BY <1>2, <1>3, <1>4, <1>5, <1>6, <1>7, <1>8 DEF RunnerStep, RunnerSweepStep

-----------------------------------------------------------------------------
\* What others leave as it is.

\* A step of others keeps the types of the environment ...
LEMMA EnvTypesStay ==
    ASSUME EnvTyped, EnvRelated, EnvSweepInv, UNCHANGED envVars
    PROVE  EnvTyped' /\ EnvRelated' /\ EnvSweepInv'
  <1>1. EnvTyped'
    BY DEF envVars, EnvTyped
  <1>2. EnvRelated'
    BY DEF envVars, EnvRelated
  <1>3. EnvSweepInv'
    BY DEF envVars, EnvSweepInv, EnvWanted, EnvListed
  <1> QED
    BY <1>1, <1>2, <1>3

\* ... and of the runner.
LEMMA RunnerTypesStay ==
    ASSUME RunnerTyped, RunnerRelated, RunnerSweepInv, UNCHANGED runnerVars
    PROVE  RunnerTyped' /\ RunnerRelated' /\ RunnerSweepInv'
  <1>1. RunnerTyped'
    BY DEF runnerVars, gitlabRunnerVars, RunnerTyped
  <1>2. RunnerRelated'
    BY DEF runnerVars, gitlabRunnerVars, RunnerRelated
  <1>3. RunnerSweepInv'
    BY DEF runnerVars, gitlabRunnerVars, RunnerSweepInv, RunnerWanted
  <1> QED
    BY <1>1, <1>2, <1>3

\* What deletes the number of commits behind deletes that of an environment that is not stored,
\* or robs it; the commits may go alone.
LEMMA BehindInvLess ==
    ASSUME BehindInv, UNCHANGED envVars, robbed => robbed',
           OfKinds(metrics', {"EnvironmentInformation"}) \subseteq OfKinds(metrics, {"EnvironmentInformation"}),
           OfKinds(metrics', {"EnvironmentBehindCommitsCount"})
             \subseteq OfKinds(metrics, {"EnvironmentBehindCommitsCount"}),
           \/ OfKinds(metrics', {"EnvironmentBehindCommitsCount"}) = OfKinds(metrics, {"EnvironmentBehindCommitsCount"})
           \/ MayMiss'
    PROVE  BehindInv'
  <1>1. /\ OfEnvironment("EnvironmentInformation")' \subseteq OfEnvironment("EnvironmentInformation")
        /\ Behinds' \subseteq Behinds
        /\ Behinds' = Behinds \/ MayMiss'
    BY DEF OfEnvironment, OfKinds, Behinds
  <1>2. /\ envPull' = envPull
        /\ MayMiss => MayMiss'
    BY DEF envVars, MayMiss
  <1>3. ASSUME NEW n, Near(Behinds, n)
        PROVE  Behinds' = {n} \/ (MayMiss' /\ Behinds' \subseteq {n, 0})
    BY <1>1, <1>2, <1>3 DEF Near
  <1>4. BehindExact'
    <2> SUFFICES ASSUME envPull.stage \notin {"deploying", "informing"}, NEW info \in OfEnvironment("EnvironmentInformation")'
                 PROVE  LET exact == info.labels.latest_commit_short_id - info.labels.current_commit_short_id
                        IN Behinds' = {exact} \/ (MayMiss' /\ Behinds' \subseteq {exact, 0})
      BY <1>2 DEF BehindExact, Behinds, MayMiss
    <2>1. PICK exact : exact = info.labels.latest_commit_short_id - info.labels.current_commit_short_id
      OBVIOUS
    <2>2. Near(Behinds, exact)
      BY <1>1, <2>1 DEF BehindInv, BehindExact, Behinds, MayMiss, Near
    <2> QED
      BY <2>1, <2>2, <1>3
  <1>5. ASSUME Near(Behinds, Distance)
        PROVE  Near(Behinds, Distance)'
    <2>1. PICK n : n = Distance
      OBVIOUS
    <2>2. Behinds' = {n} \/ (MayMiss' /\ Behinds' \subseteq {n, 0})
      BY <1>3, <1>5, <2>1
    <2>3. Distance' = n
      BY <1>2, <2>1 DEF Distance
    <2> QED
      BY <2>2, <2>3 DEF Near
  <1>6. Distance' = Distance
    BY <1>2 DEF Distance
  <1> QED
    BY <1>2, <1>4, <1>5, <1>6 DEF BehindInv

\* What deletes the count of deployments deletes that of an environment that is not stored, or
\* robs it.
LEMMA DeploymentsInvLess ==
    ASSUME DeploymentsInv, UNCHANGED envVars,
           OfKinds(metrics', SingleKinds) \subseteq OfKinds(metrics, SingleKinds),
           ~robbed' => ~robbed /\ (~environment.stored \/ DeploymentCounts' = DeploymentCounts)
    PROVE  DeploymentsInv'
  <1> SUFFICES ASSUME ~replaced
               PROVE  Deployed' /\ Counted'
    BY DEF DeploymentsInv, envVars
  <1>1. Deployed'
    BY DEF DeploymentsInv, Deployed, Updated, envVars
  <1>2. Due' = Due
    BY DEF Due, Pending, Updated, envVars
  <1>3. Counted'
    BY <1>2 DEF DeploymentsInv, Counted, envVars
  <1> QED
    BY <1>1, <1>3

\* What deletes metrics of runners deletes those of a runner that is not stored, or robs it.
LEMMA RunnerInvLess ==
    ASSUME RunnerInv, UNCHANGED runnerVars,
           OfKinds(metrics', RunnerKinds) \subseteq OfKinds(metrics, RunnerKinds),
           ~robbed' => ~robbed /\ (~runner.stored \/ OfKinds(metrics', RunnerKinds) = OfKinds(metrics, RunnerKinds))
    PROVE  RunnerInv'
  <1>1. runnerPull' = runnerPull /\ runner' = runner /\ runnerDeleted' = runnerDeleted
    BY DEF runnerVars
  <1>2. /\ StatusesSaid' \subseteq StatusesSaid /\ TagsSaid' \subseteq TagsSaid /\ ContactsSaid' \subseteq ContactsSaid
        /\ OfRunner("Runner")' \subseteq OfRunner("Runner")
    <2>1. \A kind \in RunnerKinds : OfKinds(metrics', {kind}) \subseteq OfKinds(metrics, {kind})
      BY DEF OfKinds
    <2> QED
      BY <2>1, SaidLess DEF RunnerKinds
  <1>3. ASSUME OfKinds(metrics', RunnerKinds) = OfKinds(metrics, RunnerKinds)
        PROVE  StatusesSaid' = StatusesSaid /\ TagsSaid' = TagsSaid /\ ContactsSaid' = ContactsSaid
    <2>1. \A kind \in RunnerKinds : OfKinds(metrics', {kind}) = OfKinds(metrics, {kind})
      BY <1>3 DEF OfKinds
    <2> QED
      BY <2>1, SaidStays DEF RunnerKinds
  <1>4. ASSUME ~robbed', ~runnerDeleted, Got(runnerPull) \/ OfKinds(metrics, RunnerKinds) # {}
        PROVE  /\ ~robbed
               /\ StatusesSaid' = StatusesSaid /\ TagsSaid' = TagsSaid /\ ContactsSaid' = ContactsSaid
    BY <1>3, <1>4 DEF RunnerInv
  <1>5. RunnerOfOneSnapshot'
    <2>1. \E n \in 1..Len(Tags) :
             StatusesSaid' \subseteq {n} /\ TagsSaid' \subseteq Tags[n] /\ ContactsSaid' \subseteq {n} \ {1}
      BY <1>2 DEF RunnerInv, RunnerOfOneSnapshot
    <2>2. ASSUME Quiet(runnerPull), ~runnerDeleted, ~robbed', NEW n \in StatusesSaid'
          PROVE  TagsSaid' = Tags[n] /\ ContactsSaid' = {n} \ {1}
      <3>1. n \in StatusesSaid
        BY <1>2, <2>2
      <3>2. OfKinds(metrics, RunnerKinds) # {}
        BY <3>1, NothingSaid
      <3> QED
        BY <1>4, <2>2, <3>1, <3>2 DEF RunnerInv, RunnerOfOneSnapshot, Quiet
    <2> QED
      BY <1>1, <2>1, <2>2 DEF RunnerOfOneSnapshot, Quiet
  <1>6. ASSUME NEW n, OfRevision(n)
        PROVE  OfRevision(n)'
    BY <1>2, <1>6 DEF OfRevision
  <1>7. runnerPull.stage \in {"contacting", "tagging"} => OfRevision(runnerPull.copy.revision)'
    <2>1. PICK n : n = runnerPull.copy.revision
      OBVIOUS
    <2> QED
      BY <1>1, <1>2, <2>1 DEF RunnerInv, OfRevision
  <1>8. runnerPull.stage = "tagging" /\ "Runner" \in Kept /\ ~runnerDeleted /\ ~robbed' =>
           /\ ContactsSaid' = {runnerPull.copy.revision} \ {1}
           /\ Tags[runnerPull.copy.revision] \ runnerPull.tags \subseteq TagsSaid'
    BY <1>4 DEF RunnerInv, Got
  <1>9. RunnerLabelled(metrics') /\ \A m \in OfRunner("Runner")' : m.value = 1
    BY <1>2 DEF RunnerInv, RunnerLabelled, OfKinds
  <1>10. /\ runnerPull.stage = "deleting" => OfKinds(metrics', RunnerKinds) \subseteq runnerPull.todo
         /\ runnerPull.stage = "informing" => OfKinds(metrics', RunnerKinds) = {}
         /\ ~runnerDeleted /\ (Got(runnerPull) \/ OfKinds(metrics', RunnerKinds) # {}) => runner.stored
    BY DEF RunnerInv
  <1> QED
    BY <1>1, <1>5, <1>7, <1>8, <1>9, <1>10 DEF RunnerInv

-----------------------------------------------------------------------------
\* What a collection judges.

\* What the labels of a metric say of its owner.
LEMMA OwnerLabels ==
    ASSUME NEW m, Sound(m)
    PROVE  /\ m.kind \in EnvironmentKinds =>
                 HasLabel(m, "project") /\ HasLabel(m, "environment") /\ ~HasLabel(m, "runner_id")
           /\ m.kind \in RunnerKinds =>
                 HasLabel(m, "runner_id") /\ ~HasLabel(m, "environment") /\ ~HasLabel(m, "ref")
           /\ m.kind = "RunCount" =>
                 /\ HasLabel(m, "project") /\ HasLabel(m, "ref")
                 /\ ~HasLabel(m, "environment") /\ ~HasLabel(m, "runner_id")
  <1>1. DOMAIN m.labels = NewRegistry[m.kind]
    BY DEF Sound, Exported
  <1>2. CASE m.kind \in EnvironmentKinds
    <2>1. /\ "project" \in NewRegistry[m.kind] /\ "environment" \in NewRegistry[m.kind]
          /\ "runner_id" \notin NewRegistry[m.kind]
      <3>1. CASE m.kind = "EnvironmentInformation"
        BY <3>1, EnvironmentCollectors
      <3>2. CASE m.kind = "EnvironmentDeploymentStatus"
        BY <3>2, EnvironmentCollectors
      <3>3. CASE m.kind \in SingleKinds \ {"EnvironmentInformation"}
        BY <3>3, EnvironmentCollectors
      <3> QED
        BY <1>2, <3>1, <3>2, <3>3 DEF SingleKinds
    <2>2. m.kind \notin RunnerKinds /\ m.kind # "RunCount"
      BY <1>2 DEF EnvironmentKinds, RunnerKinds
    <2> QED
      BY <1>1, <2>1, <2>2 DEF HasLabel
  <1>3. CASE m.kind \in RunnerKinds
    <2>1. /\ "runner_id" \in NewRegistry[m.kind] /\ "environment" \notin NewRegistry[m.kind]
          /\ "ref" \notin NewRegistry[m.kind]
      BY <1>3, RunnerCollectors DEF RunnerKinds
    <2>2. m.kind \notin EnvironmentKinds /\ m.kind # "RunCount"
      BY <1>3 DEF EnvironmentKinds, RunnerKinds
    <2> QED
      BY <1>1, <2>1, <2>2 DEF HasLabel
  <1>4. CASE m.kind = "RunCount"
    <2>1. NewRegistry["RunCount"] = {"project", "topics", "kind", "ref", "source", "variables", "pipeline_id", "status"}
      <3>1. "RunCount" \in PipelineKinds
        BY DEF PipelineKinds, RunKinds
      <3> QED
        BY <3>1, RefCollectors
    <2>2. m.kind \notin EnvironmentKinds /\ m.kind \notin RunnerKinds
      BY <1>4 DEF EnvironmentKinds, RunnerKinds
    <2> QED
      BY <1>1, <1>4, <2>1, <2>2 DEF HasLabel
  <1> QED
    BY <1>2, <1>3, <1>4

\* Of these kinds metrics are collected with their owner.
LEMMA CollectedWithOwner ==
    ASSUME NEW m, Sound(m)
    PROVE  /\ m.kind \in SingleKinds => (Collected(m) <=> ~metricsSweep.environment.stored)
           /\ m.kind \in RunnerKinds /\ Collected(m) =>
                 ~metricsSweep.runner.stored \/ (m.kind = "Runner" /\ m.value # 1)
           /\ m.kind = "RunCount" /\ Collected(m) => ~metricsSweep.ref.stored
  <1>1. CASE m.kind \in SingleKinds
    <2>1. m.kind \in EnvironmentKinds /\ m.kind # "EnvironmentDeploymentStatus"
      BY <1>1 DEF SingleKinds
    <2>2. HasLabel(m, "project") /\ HasLabel(m, "environment") /\ ~HasLabel(m, "runner_id")
      BY <2>1, OwnerLabels
    <2>3. ~Orphan(m) /\ ~RefMetricCollected(m) /\ ~RunnerMetricCollected(m)
      BY <2>2 DEF Orphan, RefMetricCollected, RunnerMetricCollected
    <2>4. EnvironmentMetricCollected(m) <=> ~metricsSweep.environment.stored
      BY <2>1, <2>2 DEF EnvironmentMetricCollected
    <2>5. m.kind \notin RunnerKinds /\ m.kind # "RunCount"
      BY <2>1 DEF EnvironmentKinds, RunnerKinds
    <2> QED
      BY <2>3, <2>4, <2>5 DEF Collected
  <1>2. CASE m.kind \in RunnerKinds
    <2>1. HasLabel(m, "runner_id") /\ ~HasLabel(m, "environment") /\ ~HasLabel(m, "ref")
      BY <1>2, OwnerLabels
    <2>2. ~Orphan(m) /\ ~RefMetricCollected(m) /\ ~EnvironmentMetricCollected(m)
      BY <2>1 DEF Orphan, RefMetricCollected, EnvironmentMetricCollected
    <2>3. RunnerMetricCollected(m) => ~metricsSweep.runner.stored \/ (m.kind = "Runner" /\ m.value # 1)
      BY DEF RunnerMetricCollected
    <2>4. m.kind \notin SingleKinds /\ m.kind # "RunCount"
      BY <1>2 DEF SingleKinds, EnvironmentKinds, RunnerKinds
    <2> QED
      BY <2>2, <2>3, <2>4 DEF Collected
  <1>3. CASE m.kind = "RunCount"
    <2>1. /\ HasLabel(m, "project") /\ HasLabel(m, "ref")
          /\ ~HasLabel(m, "environment") /\ ~HasLabel(m, "runner_id")
      BY <1>3, OwnerLabels
    <2>2. ~Orphan(m) /\ ~RunnerMetricCollected(m) /\ ~EnvironmentMetricCollected(m)
      BY <2>1 DEF Orphan, RunnerMetricCollected, EnvironmentMetricCollected
    <2>3. RefMetricCollected(m) => ~metricsSweep.ref.stored
      BY <1>3 DEF RefMetricCollected, JobKinds
    <2>4. m.kind \notin SingleKinds /\ m.kind \notin RunnerKinds
      BY <1>3 DEF SingleKinds, EnvironmentKinds, RunnerKinds
    <2> QED
      BY <2>2, <2>3, <2>4 DEF Collected
  <1> QED
    BY <1>1, <1>2, <1>3

-----------------------------------------------------------------------------
\* The invariant.

RefInv == RefTyped /\ RefRelated /\ VariablesInv /\ StatusesInv /\ PullInv /\ RunsInv
EnvInv == EnvTyped /\ EnvRelated /\ EnvSweepInv /\ EnvLabelled(metrics) /\ BehindInv /\ DeploymentsInv
RunnersInv == RunnerTyped /\ RunnerRelated /\ RunnerSweepInv /\ RunnerInv

OwnerRecord == [stored : BOOLEAN, sparse : BOOLEAN]

\* What a collection has judged: the metrics of the kinds that are deleted with their
\* owner had none.
Judged ==
    /\ metricsSweep \in [stage : {"idle", "reading", "deleting"}, ref : OwnerRecord, environment : OwnerRecord,
                         runner : OwnerRecord, todo : {metricsSweep.todo}]
    /\ \A m \in metricsSweep.todo :
          /\ m.kind \in Kept /\ Sound(m)
          /\ m.kind \in SingleKinds => ~metricsSweep.environment.stored
          /\ m.kind \in RunnerKinds => ~metricsSweep.runner.stored
          /\ m.kind = "RunCount" => ~metricsSweep.ref.stored

CollectionInv ==
    /\ Right(metrics) /\ failures \in Nat /\ robbed \in BOOLEAN
    /\ RefInv /\ EnvInv /\ RunnersInv /\ Judged

\* No collection has judged anything.
LEMMA NothingJudged ==
    ASSUME NEW sweep, sweep = NoMetricsSweep
    PROVE  /\ sweep.todo = {}
           /\ sweep \in [stage : {"idle", "reading", "deleting"}, ref : OwnerRecord, environment : OwnerRecord,
                         runner : OwnerRecord, todo : {sweep.todo}]
  <1>1. /\ NoRef.stored \in BOOLEAN /\ NoRef.sparse \in BOOLEAN
        /\ NoEnvironment.stored \in BOOLEAN /\ NoEnvironment.sparse \in BOOLEAN
        /\ NoRunner.stored \in BOOLEAN /\ NoRunner.sparse \in BOOLEAN
    BY DEF NoRef, NoEnvironment, NoRunner
  <1> QED
    BY <1>1 DEF NoMetricsSweep, Owner, OwnerRecord

\* Nothing judged is nothing judged wrongly.
LEMMA JudgedNothing ==
    ASSUME metricsSweep = NoMetricsSweep
    PROVE  Judged
  BY NothingJudged DEF Judged

\* The invariant holds when the exporter starts.
LEMMA CollectionInit ==
    ASSUME Init
    PROVE  CollectionInv
  <1>1. /\ metrics = {} /\ robbed = FALSE /\ RefInit /\ EnvInit /\ RunnerInit
        /\ metricsSweep = NoMetricsSweep
    BY DEF Init, StoreInit
  <1>2. /\ settings \in RefSettings /\ envSettings \in EnvSettings
        /\ runnerSettings \in RunnerSettings /\ failures \in Nat
    BY ScenariosAssumption DEF Init
  <1>3. RefInv
    BY <1>1, <1>2, RefTypedInit, VariablesInit, StatusesInit, PullInvInit, RunsInvInit DEF RefInv
  <1>4. EnvInv
    <2>1. EnvLabelled(metrics)
      BY <1>1 DEF EnvLabelled
    <2> QED
      BY <1>1, <1>2, <2>1, EnvTypedInit, EnvRelatedInit, EnvSweepInit, BehindInit, DeployedInit DEF EnvInv
  <1>5. RunnersInv
    BY <1>1, <1>2, RunnerTypedInit, RunnerSweepInit, RunnerInvInit DEF RunnersInv
  <1>6. Judged
    BY <1>1, JudgedNothing
  <1>7. Right(metrics)
    BY <1>1, RightInit
  <1> QED
    BY <1>1, <1>2, <1>3, <1>4, <1>5, <1>6, <1>7 DEF CollectionInv

-----------------------------------------------------------------------------
\* What others' steps leave as it is.

\* Steps that leave the ref and its runs alone keep what holds of them ...
LEMMA RefInvStays ==
    ASSUME RefInv, UNCHANGED refVars, robbed' = robbed, OfKinds(metrics', RefKinds) = OfKinds(metrics, RefKinds)
    PROVE  RefInv'
  <1>1. Runs(metrics') = Runs(metrics) /\ StatusesOf(metrics') = StatusesOf(metrics)
    <2>1. OneRun \subseteq RefKinds /\ {"Status", "JobStatus"} \subseteq RefKinds
      BY DEF OneRun, RefKinds, PipelineKinds, RunKinds, JobKinds
    <2> QED
      BY <2>1 DEF Runs, StatusesOf, OfKinds
  <1>2. RefTyped' /\ RefRelated' /\ PullInv'
    BY RefTypesStay, PullInvStays DEF RefInv
  <1>3. VariablesInv' /\ StatusesInv'
    BY <1>1, VariablesInvLess, StatusesInvLess DEF RefInv
  <1>4. RunsInv'
    BY <1>1, RunsInvLess DEF RefInv
  <1> QED
    BY <1>2, <1>3, <1>4 DEF RefInv

\* ... those that leave the environment and its metrics alone what holds of them ...
LEMMA EnvInvStays ==
    ASSUME EnvInv, UNCHANGED envVars, robbed' = robbed,
           OfKinds(metrics', EnvironmentKinds) = OfKinds(metrics, EnvironmentKinds)
    PROVE  EnvInv'
  <1>1. \A m : m.kind \in EnvironmentKinds => (m \in metrics' <=> m \in metrics)
    BY DEF OfKinds
  <1>2. /\ "EnvironmentInformation" \in EnvironmentKinds /\ "EnvironmentBehindCommitsCount" \in EnvironmentKinds
        /\ "EnvironmentDeploymentCount" \in EnvironmentKinds
    BY DEF EnvironmentKinds
  <1>3. EnvLabelled(metrics')
    BY <1>1 DEF EnvInv, EnvLabelled
  <1>4. \A kind \in EnvironmentKinds : OfKinds(metrics', {kind}) = OfKinds(metrics, {kind})
    BY <1>1 DEF OfKinds
  <1>5. BehindInv'
    BY <1>2, <1>4, BehindInvLess DEF EnvInv
  <1>6. DeploymentsInv'
    <2>1. DeploymentCounts' = DeploymentCounts
      BY <1>1, <1>2 DEF DeploymentCounts, OfEnvironment
    <2>2. OfKinds(metrics', SingleKinds) \subseteq OfKinds(metrics, SingleKinds)
      BY <1>1 DEF OfKinds, SingleKinds
    <2> QED
      BY <2>1, <2>2, DeploymentsInvLess DEF EnvInv
  <1>7. EnvTyped' /\ EnvRelated' /\ EnvSweepInv'
    BY EnvTypesStay DEF EnvInv
  <1> QED
    BY <1>3, <1>5, <1>6, <1>7 DEF EnvInv

\* ... and those that leave the runner and its metrics alone what holds of them.
LEMMA RunnersInvStay ==
    ASSUME RunnersInv, UNCHANGED runnerVars, robbed' = robbed,
           OfKinds(metrics', RunnerKinds) = OfKinds(metrics, RunnerKinds)
    PROVE  RunnersInv'
  BY RunnerTypesStay, RunnerInvLess DEF RunnersInv

\* Refs, environments and runners have metrics of kinds of their own.
LEMMA KindsApart ==
    /\ RefKinds \cap EnvironmentKinds = {} /\ RefKinds \cap RunnerKinds = {}
    /\ EnvironmentKinds \cap RunnerKinds = {} /\ OneRun \subseteq RefKinds
  <1>1. /\ PipelineKinds \cap EnvironmentKinds = {} /\ PipelineKinds \cap RunnerKinds = {} /\ OneRun \subseteq PipelineKinds
    BY DEF PipelineKinds, PipelineGaugeKinds, RunKinds, EnvironmentKinds, RunnerKinds, OneRun
  <1>2. JobKinds \cap EnvironmentKinds = {} /\ JobKinds \cap RunnerKinds = {}
    BY DEF JobKinds, EnvironmentKinds, RunnerKinds
  <1>3. TestReportKinds \cap EnvironmentKinds = {} /\ TestReportKinds \cap RunnerKinds = {}
    BY DEF TestReportKinds, EnvironmentKinds, RunnerKinds
  <1>4. TestSuiteKinds \cap EnvironmentKinds = {} /\ TestSuiteKinds \cap RunnerKinds = {}
    BY DEF TestSuiteKinds, EnvironmentKinds, RunnerKinds
  <1>5. TestCaseKinds \cap EnvironmentKinds = {} /\ TestCaseKinds \cap RunnerKinds = {}
    BY DEF TestCaseKinds, EnvironmentKinds, RunnerKinds
  <1>6. EnvironmentKinds \cap RunnerKinds = {}
    BY DEF EnvironmentKinds, RunnerKinds
  <1> QED
    BY <1>1, <1>2, <1>3, <1>4, <1>5, <1>6 DEF RefKinds

\* What is judged stays judged until the collection is done.
LEMMA JudgedStays ==
    ASSUME Judged, metricsSweep' = metricsSweep
    PROVE  Judged'
  BY DEF Judged

-----------------------------------------------------------------------------
\* The steps.

\* Only a call that fails takes of the failures that are left.
LEMMA FailuresLeft ==
    ASSUME failures \in Nat, RefStep \/ EnvStep \/ RunnerStep
    PROVE  failures' \in Nat
  <1> SUFFICES failures' = failures \/ CallFails
    BY DEF CallFails
  <1> USE DEF CallSucceeds, PullFails, GetRunner
  <1>1. CASE RefStep
    <2>1. CASE RefOthers
      BY <2>1 DEF RefOthers
    <2>2. CASE RefPullStep
      <3>1. CASE ScheduleRefMetrics
        BY <3>1 DEF ScheduleRefMetrics
      <3>2. CASE RefreshRef
        BY <3>2 DEF RefreshRef
      <3>3. CASE GetProjectPipelines
        BY <3>3 DEF GetProjectPipelines
      <3>4. CASE GetRefPipeline
        BY <3>4 DEF GetRefPipeline
      <3>5. CASE PullVariables
        BY <3>5 DEF PullVariables
      <3>6. CASE StorePipeline
        BY <3>6 DEF StorePipeline
      <3>7. CASE WritePipelineMetrics
        BY <3>7 DEF WritePipelineMetrics
      <3>8. CASE PullRefPipelineJobsMetrics
        BY <3>8 DEF PullRefPipelineJobsMetrics
      <3>9. CASE ProcessJobMetrics
        BY <3>9 DEF ProcessJobMetrics
      <3>10. CASE PullTestReport
        BY <3>10 DEF PullTestReport
      <3> QED
        BY <2>2, <3>1, <3>2, <3>3, <3>4, <3>5, <3>6, <3>7, <3>8, <3>9, <3>10 DEF RefPullStep
    <2> QED
      BY <1>1, <2>1, <2>2 DEF RefStep
  <1>2. CASE EnvStep
    <2>1. CASE EnvOthers
      BY <2>1 DEF EnvOthers
    <2>2. CASE EnvDiscoveryStep
      <3>1. CASE PullEnvironmentsFromProject
        BY <3>1 DEF PullEnvironmentsFromProject
      <3>2. CASE LookUpEnvironment
        BY <3>2 DEF LookUpEnvironment
      <3>3. CASE UpdateDiscovered
        BY <3>3 DEF UpdateDiscovered
      <3>4. CASE StoreDiscovered
        BY <3>4 DEF StoreDiscovered
      <3> QED
        BY <2>2, <3>1, <3>2, <3>3, <3>4 DEF EnvDiscoveryStep
    <2>3. CASE ProcessDeploymentEvent
      BY <2>3 DEF ProcessDeploymentEvent
    <2>4. CASE EnvPullStep
      <3>1. CASE ScheduleEnvironmentMetrics
        BY <3>1 DEF ScheduleEnvironmentMetrics
      <3>2. CASE RefreshEnvironment
        BY <3>2 DEF RefreshEnvironment
      <3>3. CASE UpdateEnvironment
        BY <3>3 DEF UpdateEnvironment
      <3>4. CASE ReadHead
        BY <3>4 DEF ReadHead
      <3>5. CASE CompareCommits
        BY <3>5 DEF CompareCommits
      <3>6. CASE GetCommitCountBetweenRefs
        BY <3>6 DEF GetCommitCountBetweenRefs
      <3>7. CASE ReuseBehind
        BY <3>7 DEF ReuseBehind
      <3>8. CASE WriteBehind
        BY <3>8 DEF WriteBehind
      <3>9. CASE WriteDeployment
        BY <3>9 DEF WriteDeployment
      <3>10. CASE WriteInformation
        BY <3>10 DEF WriteInformation
      <3> QED
        BY <2>4, <3>1, <3>2, <3>3, <3>4, <3>5, <3>6, <3>7, <3>8, <3>9, <3>10 DEF EnvPullStep
    <2>5. CASE EnvSweepStep
      <3>1. CASE CollectEnvironments
        BY <3>1 DEF CollectEnvironments
      <3>2. CASE CheckEnvironment
        BY <3>2 DEF CheckEnvironment
      <3>3. CASE ListEnvironments
        BY <3>3 DEF ListEnvironments
      <3>4. CASE SweepEnvironments
        BY <3>4 DEF SweepEnvironments
      <3> QED
        BY <2>5, <3>1, <3>2, <3>3, <3>4 DEF EnvSweepStep
    <2> QED
      BY <1>2, <2>1, <2>2, <2>3, <2>4, <2>5 DEF EnvStep
  <1>3. CASE RunnerStep
    <2>1. CASE (ReviseRunner \/ ChangeRunner) /\ UNCHANGED <<metrics, failures>>
      BY <2>1
    <2>2. CASE RunnerDiscoveryStep
      <3>1. CASE PullRunnersFromProject
        BY <3>1 DEF PullRunnersFromProject
      <3>2. CASE LookUpRunner
        BY <3>2 DEF LookUpRunner
      <3>3. CASE UpdateDiscoveredRunner
        BY <3>3 DEF UpdateDiscoveredRunner
      <3>4. CASE StoreDiscoveredRunner
        BY <3>4 DEF StoreDiscoveredRunner
      <3> QED
        BY <2>2, <3>1, <3>2, <3>3, <3>4 DEF RunnerDiscoveryStep
    <2>3. CASE RunnerPullStep
      <3>1. CASE ScheduleRunnerMetrics
        BY <3>1 DEF ScheduleRunnerMetrics
      <3>2. CASE UpdateRunner
        BY <3>2 DEF UpdateRunner
      <3>3. CASE ListRunnerMetrics \/ \E m \in runnerPull.todo : DeleteRunnerMetric(m)
        BY <3>3 DEF ListRunnerMetrics, DeleteRunnerMetric, runnerPullVars
      <3>4. CASE WriteRunner \/ WriteContact \/ (\E t \in runnerPull.tags : WriteTag(t)) \/ WriteGroups
        BY <3>4 DEF WriteRunner, WriteContact, WriteTag, WriteGroups, runnerPullVars
      <3> QED
        BY <2>3, <3>1, <3>2, <3>3, <3>4 DEF RunnerPullStep
    <2>4. CASE RunnerSweepStep
      <3>1. CASE CollectRunners
        BY <3>1 DEF CollectRunners
      <3>2. CASE CheckRunner
        BY <3>2 DEF CheckRunner
      <3>3. CASE ListRunners
        BY <3>3 DEF ListRunners
      <3>4. CASE SweepRunners
        BY <3>4 DEF SweepRunners
      <3> QED
        BY <2>4, <3>1, <3>2, <3>3, <3>4 DEF RunnerSweepStep
    <2> QED
      BY <1>3, <2>1, <2>2, <2>3, <2>4 DEF RunnerStep
  <1> QED
    BY <1>1, <1>2, <1>3

\* A step of the ref keeps the invariant, whatever a collection does in between ...
LEMMA RefKeepsInv ==
    ASSUME CollectionInv, RefStep, UNCHANGED <<envVars, runnerVars, sweepState>>
    PROVE  CollectionInv'
  <1>0. /\ robbed' = robbed /\ metricsSweep' = metricsSweep /\ UNCHANGED envVars /\ UNCHANGED runnerVars
        /\ Right(metrics) /\ RefTyped /\ RefRelated
    BY DEF sweepState, CollectionInv, RefInv
  <1>1. /\ Right(metrics')
        /\ \A kinds : kinds \cap RefKinds = {} => OfKinds(metrics', kinds) = OfKinds(metrics, kinds)
    BY <1>0, RefTableStep
  <1>2. RefTyped' /\ RefRelated'
    BY <1>0, RefTypedStep
  <1>3. VariablesInv' /\ StatusesInv'
    BY <1>0, <1>2, VariablesStep, StatusesStep DEF CollectionInv, RefInv
  <1>4. PullInv'
    <2>1. CASE Undisturbed'
      BY <1>0, <2>1, PullInvStep DEF CollectionInv, RefInv
    <2>2. CASE ~Undisturbed'
      BY <2>2 DEF PullInv
    <2> QED
      BY <2>1, <2>2
  <1>5. RunsInv'
    BY <1>0, RunsInvStep DEF CollectionInv, RefInv
  <1>6. RefInv'
    BY <1>2, <1>3, <1>4, <1>5 DEF RefInv
  <1>7. EnvInv' /\ RunnersInv'
    <2>1. /\ OfKinds(metrics', EnvironmentKinds) = OfKinds(metrics, EnvironmentKinds)
          /\ OfKinds(metrics', RunnerKinds) = OfKinds(metrics, RunnerKinds)
      BY <1>1, KindsApart
    <2> QED
      BY <1>0, <2>1, EnvInvStays, RunnersInvStay DEF CollectionInv
  <1>8. Judged'
    BY <1>0, JudgedStays DEF CollectionInv
  <1>9. failures' \in Nat
    BY FailuresLeft DEF CollectionInv
  <1> QED
    BY <1>0, <1>1, <1>6, <1>7, <1>8, <1>9 DEF CollectionInv

\* ... and so does one of the environment ...
LEMMA EnvironmentKeepsInv ==
    ASSUME CollectionInv, EnvStep, UNCHANGED <<refVars, runnerVars, sweepState>>
    PROVE  CollectionInv'
  <1>0. /\ robbed' = robbed /\ metricsSweep' = metricsSweep /\ UNCHANGED refVars /\ UNCHANGED runnerVars
        /\ Right(metrics) /\ EnvTyped /\ EnvRelated /\ EnvSweepInv /\ EnvLabelled(metrics)
        /\ BehindInv /\ DeploymentsInv
    BY DEF sweepState, CollectionInv, EnvInv
  <1>1. /\ Right(metrics') /\ EnvLabelled(metrics')
        /\ \A kinds : kinds \cap EnvironmentKinds = {} => OfKinds(metrics', kinds) = OfKinds(metrics, kinds)
    BY <1>0, EnvironmentTableStep
  <1>2. EnvTyped'
    BY <1>0, EnvTypedStep DEF Right
  <1>3. EnvRelated'
    BY <1>0, <1>2, EnvRelatedStep
  <1>4. EnvSweepInv'
    BY <1>0, EnvSweepInvStep
  <1>5. BehindInv'
    BY <1>0, BehindStep
  <1>6. DeploymentsInv'
    BY <1>0, <1>2, <1>3, DeploymentsStep
  <1>7. EnvInv'
    BY <1>1, <1>2, <1>3, <1>4, <1>5, <1>6 DEF EnvInv
  <1>8. RefInv' /\ RunnersInv'
    <2>1. OfKinds(metrics', RefKinds) = OfKinds(metrics, RefKinds)
      BY <1>1, KindsApart
    <2>2. OfKinds(metrics', RunnerKinds) = OfKinds(metrics, RunnerKinds)
      BY <1>1, KindsApart
    <2> QED
      BY <1>0, <2>1, <2>2, RefInvStays, RunnersInvStay DEF CollectionInv
  <1>9. Judged' /\ failures' \in Nat
    BY <1>0, JudgedStays, FailuresLeft DEF CollectionInv
  <1> QED
    BY <1>0, <1>1, <1>7, <1>8, <1>9 DEF CollectionInv

\* ... and one of the runner.
LEMMA RunnerKeepsInv ==
    ASSUME CollectionInv, RunnerStep, UNCHANGED <<refVars, envVars, sweepState>>
    PROVE  CollectionInv'
  <1>0. /\ robbed' = robbed /\ metricsSweep' = metricsSweep /\ UNCHANGED refVars /\ UNCHANGED envVars
        /\ Right(metrics) /\ RunnerTyped /\ RunnerRelated /\ RunnerSweepInv /\ RunnerInv
    BY DEF sweepState, CollectionInv, RunnersInv
  <1>1. /\ Right(metrics')
        /\ \A kinds : kinds \cap RunnerKinds = {} => OfKinds(metrics', kinds) = OfKinds(metrics, kinds)
    BY <1>0, RunnerTableStep
  <1>2. RunnersInv'
    BY <1>0, RunnerTypedStep, RunnerSweepInvStep, RunnerInvStep DEF RunnersInv
  <1>3. RefInv' /\ EnvInv'
    <2>1. OfKinds(metrics', RefKinds) = OfKinds(metrics, RefKinds)
      BY <1>1, KindsApart
    <2>2. OfKinds(metrics', EnvironmentKinds) = OfKinds(metrics, EnvironmentKinds)
      BY <1>1, KindsApart
    <2> QED
      BY <1>0, <2>1, <2>2, RefInvStays, EnvInvStays DEF CollectionInv
  <1>4. Judged' /\ failures' \in Nat
    BY <1>0, JudgedStays, FailuresLeft DEF CollectionInv
  <1> QED
    BY <1>0, <1>1, <1>2, <1>3, <1>4 DEF CollectionInv

\* What is judged when the metrics are read.
LEMMA ReadJudges ==
    ASSUME CollectionInv, ReadMetrics
    PROVE  Judged'
  <1> DEFINE read == {m \in metrics : Collected(m)}
  <1>1. CASE metricsSweep' = NoMetricsSweep
    <2>1. PICK sweep : sweep = metricsSweep'
      OBVIOUS
    <2>2. metricsSweep'.todo = {}
      BY <1>1, NothingJudged
    <2> QED
      BY <1>1, <2>2, NothingJudged DEF Judged
  <1>2. CASE metricsSweep' = [metricsSweep EXCEPT !.stage = "deleting", !.todo = read]
    <2>1. /\ metricsSweep'.todo = read
          /\ metricsSweep'.environment = metricsSweep.environment
          /\ metricsSweep'.runner = metricsSweep.runner /\ metricsSweep'.ref = metricsSweep.ref
          /\ metricsSweep' \in [stage : {"idle", "reading", "deleting"}, ref : OwnerRecord, environment : OwnerRecord,
                                runner : OwnerRecord, todo : {read}]
      BY <1>2 DEF CollectionInv, Judged
    <2>2. \A m \in read : m \in metrics /\ m.kind \in Kept /\ Sound(m) /\ Collected(m)
      BY DEF CollectionInv, Right, Table
    <2>5. ASSUME NEW m \in read
          PROVE  /\ m.kind \in SingleKinds => ~metricsSweep.environment.stored
                 /\ m.kind \in RunnerKinds => ~metricsSweep.runner.stored
                 /\ m.kind = "RunCount" => ~metricsSweep.ref.stored
      <3>1. m.kind = "Runner" => m.value = 1
        BY <2>2 DEF CollectionInv, RunnersInv, RunnerInv, OfRunner
      <3> QED
        BY <2>2, <3>1, CollectedWithOwner
    <2> HIDE DEF read
    <2> QED
      BY <2>1, <2>2, <2>5 DEF Judged
  <1> QED
    BY <1>1, <1>2 DEF ReadMetrics

\* Nothing is judged before the metrics are read.
LEMMA CollectJudges ==
    ASSUME CollectionInv, CollectMetrics
    PROVE  Judged'
  <1>1. ref.stored \in BOOLEAN /\ ref.sparse \in BOOLEAN
    BY RefRecords DEF CollectionInv, RefInv, RefTyped
  <1>2. environment.stored \in BOOLEAN /\ environment.sparse \in BOOLEAN
    BY DEF CollectionInv, EnvInv, EnvTyped, Environment
  <1>3. runner.stored \in BOOLEAN /\ runner.sparse \in BOOLEAN
    BY DEF CollectionInv, RunnersInv, RunnerTyped, RunnerRecord
  <1>4. Owner(ref) \in OwnerRecord /\ Owner(environment) \in OwnerRecord /\ Owner(runner) \in OwnerRecord
    BY <1>1, <1>2, <1>3 DEF Owner, OwnerRecord
  <1>5. metricsSweep' = [stage |-> "reading", ref |-> Owner(ref), environment |-> Owner(environment),
                         runner |-> Owner(runner), todo |-> {}]
    BY DEF CollectMetrics
  <1> QED
    BY <1>4, <1>5 DEF Judged

\* What is deleted had no owner when it was judged, and has none now or is robbed.
LEMMA DeletedOfNone ==
    ASSUME CollectionInv, NEW m \in metricsSweep.todo, DeleteMetric(m), ~robbed', metrics' # metrics
    PROVE  /\ m.kind \in SingleKinds => ~environment.stored
           /\ m.kind \in RunnerKinds => ~runner.stored
           /\ m.kind = "RunCount" => ~ref.stored
  <1>1. PICK x \in metrics : Key(x) = Key(m) /\ x.kind = m.kind
    <2>1. metrics' = DelMetrics(metrics, {m})
      BY DEF DeleteMetric
    <2>2. ASSUME \A x \in metrics : Key(x) # Key(m) PROVE FALSE
      <3>1. \A x : x \in metrics' <=> x \in metrics
        BY <2>1, <2>2, InDelMetrics
      <3> QED
        BY <3>1
    <2> QED
      BY <2>2, KeyKind
  <1>2. /\ Sound(m)
        /\ m.kind \in SingleKinds => ~metricsSweep.environment.stored
        /\ m.kind \in RunnerKinds => ~metricsSweep.runner.stored
        /\ m.kind = "RunCount" => ~metricsSweep.ref.stored
    BY DEF CollectionInv, Judged
  <1>3. ~Robs(m)
    BY DEF DeleteMetric
  <1>4. m.kind \in SingleKinds => m.kind \in EnvironmentKinds
    BY DEF SingleKinds
  <1> QED
    BY <1>1, <1>2, <1>3, <1>4, OwnerLabels DEF Robs

\* A deletion keeps the invariant: what is counted of an owner that is stored is deleted only by
\* robbing it.
LEMMA DeleteKeepsInv ==
    ASSUME CollectionInv, NEW m \in metricsSweep.todo, DeleteMetric(m)
    PROVE  CollectionInv'
  <1>0. /\ metrics' = DelMetrics(metrics, {m})
        /\ failures' = failures /\ UNCHANGED refVars /\ UNCHANGED envVars /\ UNCHANGED runnerVars
        /\ robbed \in BOOLEAN /\ robbed' \in BOOLEAN
        /\ ~robbed' => ~robbed
    BY DEF DeleteMetric, ownerVars, CollectionInv
  <1>1. metrics' \subseteq metrics
    BY <1>0, InDelMetrics
  <1>2. ASSUME NEW kinds, m.kind \notin kinds
        PROVE  OfKinds(metrics', kinds) = OfKinds(metrics, kinds)
    <2>1. \A x \in {m} : x.kind \notin kinds
      BY <1>2
    <2> QED
      BY <1>0, <2>1, DelMetricsFrame
  <1>3. Right(metrics')
    BY <1>1, DeletedRight DEF CollectionInv
  <1>4. RefInv'
    <2>1. Runs(metrics') \subseteq Runs(metrics) /\ StatusesOf(metrics') \subseteq StatusesOf(metrics)
      BY <1>1 DEF Runs, StatusesOf, OfKinds
    <2>2. ASSUME ~robbed'
          PROVE  ~robbed /\ (~ref.stored \/ Runs(metrics') = Runs(metrics))
      <3>1. CASE m.kind = "RunCount" /\ metrics' # metrics
        BY <1>0, <2>2, <3>1, DeletedOfNone
      <3>2. CASE m.kind \notin OneRun
        BY <1>0, <1>2, <2>2, <3>2 DEF Runs
      <3>3. CASE metrics' = metrics
        BY <1>0, <2>2, <3>3
      <3> QED
        BY <3>1, <3>2, <3>3 DEF OneRun
    <2>3. RefTyped' /\ RefRelated' /\ PullInv' /\ VariablesInv' /\ StatusesInv'
      BY <1>0, <2>1, RefTypesStay, PullInvStays, VariablesInvLess, StatusesInvLess DEF CollectionInv, RefInv
    <2>4. RunsInv'
      BY <1>0, <2>1, <2>2, RunsInvLess DEF CollectionInv, RefInv
    <2> QED
      BY <2>3, <2>4 DEF RefInv
  <1>5. EnvInv'
    <2>1. EnvLabelled(metrics')
      BY <1>1 DEF CollectionInv, EnvInv, EnvLabelled
    <2>2. \A kinds : OfKinds(metrics', kinds) \subseteq OfKinds(metrics, kinds)
      BY <1>1 DEF OfKinds
    <2>3. "EnvironmentBehindCommitsCount" \in SingleKinds /\ "EnvironmentDeploymentCount" \in SingleKinds
      BY DEF SingleKinds, EnvironmentKinds
    <2>4. BehindInv'
      <3>1. ASSUME ~MayMiss'
            PROVE  OfKinds(metrics', {"EnvironmentBehindCommitsCount"})
                     = OfKinds(metrics, {"EnvironmentBehindCommitsCount"})
        <4>1. ~robbed' /\ ~replaced
          BY <1>0, <3>1 DEF MayMiss, envVars
        <4>2. CASE m.kind = "EnvironmentBehindCommitsCount" /\ metrics' # metrics
          <5>1. ~environment.stored
            BY <2>3, <4>1, <4>2, DeletedOfNone
          <5>2. OfKinds(metrics, SingleKinds) = {}
            BY <4>1, <5>1 DEF CollectionInv, EnvInv, DeploymentsInv, Counted
          <5> QED
            BY <1>1, <2>3, <5>2 DEF OfKinds
        <4>3. CASE m.kind # "EnvironmentBehindCommitsCount"
          BY <1>2, <4>3
        <4> QED
          BY <4>2, <4>3
      <3> QED
        BY <1>0, <2>2, <3>1, BehindInvLess DEF CollectionInv, EnvInv
    <2>5. DeploymentsInv'
      <3>1. ASSUME ~robbed'
            PROVE  ~robbed /\ (~environment.stored \/ DeploymentCounts' = DeploymentCounts)
        <4>1. CASE m.kind = "EnvironmentDeploymentCount" /\ metrics' # metrics
          BY <1>0, <2>3, <3>1, <4>1, DeletedOfNone
        <4>2. CASE m.kind # "EnvironmentDeploymentCount" \/ metrics' = metrics
          <5>1. OfKinds(metrics', {"EnvironmentDeploymentCount"}) = OfKinds(metrics, {"EnvironmentDeploymentCount"})
            BY <1>2, <4>2
          <5>2. DeploymentCounts' = DeploymentCounts
            BY <5>1 DEF DeploymentCounts, OfEnvironment, OfKinds
          <5> QED
            BY <1>0, <3>1, <5>2
        <4> QED
          BY <4>1, <4>2
      <3> QED
        BY <1>0, <2>2, <3>1, DeploymentsInvLess DEF CollectionInv, EnvInv
    <2>6. EnvTyped' /\ EnvRelated' /\ EnvSweepInv'
      BY <1>0, EnvTypesStay DEF CollectionInv, EnvInv
    <2> QED
      BY <2>1, <2>4, <2>5, <2>6 DEF EnvInv
  <1>6. RunnersInv'
    <2>1. OfKinds(metrics', RunnerKinds) \subseteq OfKinds(metrics, RunnerKinds)
      BY <1>1 DEF OfKinds
    <2>2. ASSUME ~robbed'
          PROVE  ~robbed /\ (~runner.stored \/ OfKinds(metrics', RunnerKinds) = OfKinds(metrics, RunnerKinds))
      <3>1. CASE m.kind \in RunnerKinds /\ metrics' # metrics
        BY <1>0, <2>2, <3>1, DeletedOfNone
      <3>2. CASE m.kind \notin RunnerKinds \/ metrics' = metrics
        BY <1>0, <1>2, <2>2, <3>2
      <3> QED
        BY <3>1, <3>2
    <2> QED
      BY <1>0, <2>1, <2>2, RunnerTypesStay, RunnerInvLess DEF CollectionInv, RunnersInv
  <1>7. Judged'
    <2>1. CASE metricsSweep' = NoMetricsSweep
      <3>1. PICK sweep : sweep = metricsSweep'
        OBVIOUS
      <3>2. metricsSweep'.todo = {}
        BY <2>1, NothingJudged
      <3> QED
        BY <2>1, <3>2, NothingJudged DEF Judged
    <2>2. CASE metricsSweep' = [metricsSweep EXCEPT !.todo = metricsSweep.todo \ {m}]
      <3>1. PICK todo : todo = metricsSweep.todo \ {m}
        OBVIOUS
      <3>2. /\ metricsSweep'.todo = todo
            /\ metricsSweep'.environment = metricsSweep.environment
            /\ metricsSweep'.runner = metricsSweep.runner /\ metricsSweep'.ref = metricsSweep.ref
            /\ metricsSweep' \in [stage : {"idle", "reading", "deleting"}, ref : OwnerRecord,
                                  environment : OwnerRecord, runner : OwnerRecord, todo : {todo}]
        BY <2>2, <3>1 DEF CollectionInv, Judged
      <3> QED
        BY <3>1, <3>2 DEF CollectionInv, Judged
    <2> QED
      BY <2>1, <2>2 DEF DeleteMetric
  <1> QED
    BY <1>0, <1>3, <1>4, <1>5, <1>6, <1>7 DEF CollectionInv

\* What no step changes holds.
LEMMA NothingChanges ==
    ASSUME CollectionInv, UNCHANGED <<metrics, failures, robbed, refVars, envVars, runnerVars>>
    PROVE  Right(metrics') /\ failures' \in Nat /\ robbed' \in BOOLEAN /\ RefInv' /\ EnvInv' /\ RunnersInv'
  BY RefInvStays, EnvInvStays, RunnersInvStay DEF CollectionInv

\* Every step keeps the invariant.
LEMMA CollectionStep ==
    ASSUME CollectionInv, [Next]_vars
    PROVE  CollectionInv'
  <1>1. CASE settings.refs /\ RefStep /\ UNCHANGED <<envVars, runnerVars, sweepState>>
    BY <1>1, RefKeepsInv
  <1>2. CASE EnvStep /\ UNCHANGED <<refVars, runnerVars, sweepState>>
    BY <1>2, EnvironmentKeepsInv
  <1>3. CASE RunnerStep /\ UNCHANGED <<refVars, envVars, sweepState>>
    BY <1>3, RunnerKeepsInv
  <1>4. CASE CollectMetrics
    BY <1>4, CollectJudges, NothingChanges DEF CollectMetrics, ownerVars, CollectionInv
  <1>5. CASE ReadMetrics
    BY <1>5, ReadJudges, NothingChanges DEF ReadMetrics, ownerVars, CollectionInv
  <1>6. CASE \E m \in metricsSweep.todo : DeleteMetric(m)
    BY <1>6, DeleteKeepsInv
  <1>7. CASE UNCHANGED vars
    BY <1>7, JudgedStays, NothingChanges DEF vars, CollectionInv
  <1> QED
    BY <1>1, <1>2, <1>3, <1>4, <1>5, <1>6, <1>7 DEF Next, MetricsSweepStep

\* The invariant holds.
LEMMA CollectionHolds == Spec => []CollectionInv
  BY CollectionInit, CollectionStep, PTL DEF Spec

-----------------------------------------------------------------------------
\* What holds of all together.

\* The type invariant of environments ...
LEMMA EnvironmentsAreTyped ==
    ASSUME EnvTyped, EnvRelated
    PROVE  EnvTypeOK
  <1>1. /\ environment.latest.job \in Nat /\ gitlabEnv.latest.job \in Nat
    BY EnvironmentRecords, DeploymentRecords DEF EnvTyped
  <1>2. environment.latest.job \in 0..gitlabEnv.latest.job
    BY <1>1 DEF EnvRelated, Known
  <1>3. /\ gitlabEnv.state \in {"none", "available", "stopped"}
        /\ discovery.stage \in {"idle", "exists", "updating", "storing"}
        /\ event \in {"none", "received"}
        /\ envSweep.stage \in {"idle", "checking", "listing", "sweeping"}
    BY DEF EnvTyped, Discovery, EnvironmentSweep
  <1>4. envPull.stage \in {"idle", "queued", "updating", "reading", "comparing", "reusing", "counting", "writing",
                          "deploying", "informing"}
    BY DEF EnvTyped, EnvironmentPull
  <1> QED
    BY <1>2, <1>3, <1>4 DEF EnvTypeOK, EnvRelated

\* ... and of runners.
LEMMA RunnersAreTyped ==
    ASSUME RunnerTyped, RunnerRelated, RunnerInv
    PROVE  RunnerTypeOK
  <1>1. gitlabRunner.revision \in 1..Len(Tags) /\ runner.revision \in Nat /\ Len(Tags) \in Nat
    BY TagsAssumption, RunnerFields DEF RunnerTyped
  <1>2. runner.revision \in 0..gitlabRunner.revision
    BY <1>1 DEF RunnerRelated
  <1>3. /\ runnerPull.stage \in RunnerStages /\ \A m \in runnerPull.todo : m.kind \in Kept
        /\ runnerDiscovery.stage \in {"idle", "exists", "updating", "storing"}
        /\ runnerSweep.stage \in {"idle", "checking", "listing", "sweeping"}
        /\ runnerChanges \in 0..MaxRunnerChanges
    BY DEF RunnerTyped, RunnerTask, RunnerDiscoveryTask, RunnerSweepTask, RunnerInv
  <1> QED
    BY <1>1, <1>2, <1>3 DEF RunnerTypeOK, RunnerStages

\* Every metric has the labels of its collector and a key of its own, however pulls, webhooks and
\* collections interleave: nothing that is exported panics (metrics.go:237).
THEOREM MetricsAreTyped == Spec => []TypeOK
  <1>1. CollectionInv => TypeOK
    <2> SUFFICES ASSUME CollectionInv
                 PROVE  TypeOK
      OBVIOUS
    <2>1. StoreTypeOK
      BY TableIsTyped DEF CollectionInv, Right
    <2>2. RefTypeOK /\ EnvTypeOK /\ RunnerTypeOK
      BY RefsAreTyped, EnvironmentsAreTyped, RunnersAreTyped DEF CollectionInv, RefInv, EnvInv, RunnersInv
    <2>3. metricsSweep.stage \in {"idle", "reading", "deleting"} /\ \A m \in metricsSweep.todo : m.kind \in Kept
      BY DEF CollectionInv, Judged
    <2> QED
      BY <2>1, <2>2, <2>3 DEF TypeOK
  <1> QED
    BY <1>1, CollectionHolds, PTL

\* A pipeline, an environment and a test case has one status that is 1 at most, and a job one for each
\* failure reason it had (metrics.go:250), whatever collections delete in between.
THEOREM StatusIsOne == Spec => []OneStatusPerReason
  <1>1. CollectionInv => OneStatusPerReason
    BY StatusesAreOne DEF CollectionInv, RefInv
  <1> QED
    BY <1>1, CollectionHolds, PTL

\* Runs are counted once each, with the variables they were first seen with (pipelines.go:107,
\* :153), for any number of pipelines, pulls that fail anywhere, and collections.
THEOREM RunsAreCountedOnce == Spec => []RunsCountedOnce
  <1>1. CollectionInv => RunsCountedOnce
    BY RunsAreCounted DEF CollectionInv, RefInv
  <1> QED
    BY <1>1, CollectionHolds, PTL

\* Deployments are counted once each (environments.go:192), but for those whose pull failed, for any
\* number of them.
THEOREM DeploymentsAreCountedOnce == Spec => []DeploymentsCounted
  <1>1. CollectionInv => DeploymentsCounted
    BY DeploymentsAreCounted DEF CollectionInv, EnvInv
  <1> QED
    BY <1>1, CollectionHolds, PTL

\* The number of commits behind is that of the commits exported with it (environments.go:153), or, once
\* a collection with stale owners has taken the number and left the commits, missing or 0.
THEOREM BehindIsExact == Spec => []BehindExact
  <1>1. CollectionInv => BehindExact
    BY DEF CollectionInv, EnvInv, BehindInv
  <1> QED
    BY <1>1, CollectionHolds, PTL

\* Nothing that is exported of a runner is of another revision than the rest (runners.go:187), with its
\* metrics deleted and written one by one and exports, collections and failures in between; after a pull
\* it is complete.
THEOREM RunnerIsOfOneSnapshot == Spec => []RunnerOfOneSnapshot
  <1>1. CollectionInv => RunnerOfOneSnapshot
    BY DEF CollectionInv, RunnersInv, RunnerInv
  <1> QED
    BY <1>1, CollectionHolds, PTL

\* A collection spares environments and runners that are wanted all along (garbage_collector.go:165,
\* :390).
THEOREM ListedAreSpared == Spec => CollectionSparesListed
  <1>1. ASSUME CollectionInv, [Next]_vars
        PROVE  [EnvSpared /\ RunnerSpared]_<<environment, runner>>
    <2>1. CASE EnvStep /\ UNCHANGED runnerVars
      <3>1. EnvSpared
        BY <1>1, <2>1, EnvSweepInvStep DEF CollectionInv, EnvInv
      <3>2. RunnerSpared
        BY <2>1 DEF RunnerSpared, runnerVars
      <3> QED
        BY <3>1, <3>2
    <2>2. CASE RunnerStep /\ UNCHANGED envVars
      <3>1. RunnerSpared
        BY <1>1, <2>2, RunnerSweepInvStep DEF CollectionInv, RunnersInv
      <3>2. EnvSpared
        BY <2>2 DEF EnvSpared, envVars
      <3> QED
        BY <3>1, <3>2
    <2>3. CASE UNCHANGED <<environment, runner>>
      BY <2>3
    <2> QED
      BY <1>1, <2>1, <2>2, <2>3 DEF Next, MetricsSweepStep, CollectMetrics, ReadMetrics, DeleteMetric, ownerVars,
                                    envVars, runnerVars, vars
  <1> QED
    BY <1>1, CollectionHolds, PTL DEF Spec, CollectionSparesListed
=============================================================================
