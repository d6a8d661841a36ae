------------------------------ MODULE MetricStore ------------------------------
(***************************************************************************)
(* The metrics that the exporter keeps, as the local store does: what they *)
(* are labelled with, how they are told apart (pkg/schemas/metric.go), and *)
(* the collectors that export them (pkg/controller/collectors.go).         *)
(*                                                                         *)
(* A metric has a kind, labels and a value.  Two metrics with one key are  *)
(* one: the last one written.  The checksum that the code takes of a key   *)
(* is not modelled, keys do not collide.  The value of a gauge is what it  *)
(* was read from: a pipeline, a job, a deployment.                         *)
(***************************************************************************)
EXTENDS Integers, FiniteSets, Sequences

CONSTANT Kept   \* the kinds an instance looks at; others are not stored

VARIABLES
    metrics,    \* the metrics table of the store
    failures,   \* bound: GitLab calls that may still fail
    robbed      \* history: a collection deleted metrics of what is stored

statusesList == {"manual", "running", "success", "failed"}

-----------------------------------------------------------------------------
\* Labels and collectors.

DefaultLabels == {"project", "topics", "kind", "ref", "source", "variables"}
PipelineLabels == {"pipeline_id", "status"}
JobLabels == {"stage", "job_name", "runner_description", "tag_list", "pipeline_id",
              "job_id", "status", "failure_reason"}
EnvironmentLabels == {"project", "environment"}
EnvironmentInformationLabels ==
    {"environment_id", "external_url", "kind", "ref", "latest_commit_short_id",
     "current_commit_short_id", "available", "username"}
TestSuiteLabels == {"test_suite_name"}
TestCaseLabels == {"test_case_name", "test_case_classname"}
RunnerLabels == {"runner_id", "runner_name", "runner_description", "is_shared", "runner_type",
                 "online", "active", "status", "runner_maintenance_note", "paused"}

PipelineGaugeKinds == {"Coverage", "DurationSeconds", "QueuedDurationSeconds"}
RunKinds == {"RunCount", "Status", "Timestamp"}
JobKinds == {"JobArtifactSizeBytes", "JobDurationSeconds", "JobID",
             "JobQueuedDurationSeconds", "JobRunCount", "JobStatus", "JobTimestamp"}
EnvironmentKinds ==
    {"EnvironmentBehindCommitsCount", "EnvironmentBehindDurationSeconds",
     "EnvironmentDeploymentCount", "EnvironmentDeploymentDurationSeconds",
     "EnvironmentDeploymentJobID", "EnvironmentDeploymentStatus",
     "EnvironmentDeploymentTimestamp", "EnvironmentInformation"}
RunnerKinds == {"Runner", "RunnerContactedAtSeconds", "RunnerProjectInfo", "RunnerTagInfo",
                "RunnerGroupInfo"}
TestReportKinds == {"TestReportTotalTime", "TestReportTotalCount", "TestReportSuccessCount",
                    "TestReportFailedCount", "TestReportSkippedCount", "TestReportErrorCount"}
TestSuiteKinds == {"TestSuiteTotalTime", "TestSuiteTotalCount", "TestSuiteSuccessCount",
                   "TestSuiteFailedCount", "TestSuiteSkippedCount", "TestSuiteErrorCount"}
TestCaseKinds == {"TestCaseExecutionTime", "TestCaseStatus"}
PipelineKinds == PipelineGaugeKinds \cup {"ID"} \cup RunKinds
StatusKinds == {"Status", "JobStatus", "EnvironmentDeploymentStatus", "TestCaseStatus"}

Collector(kinds, labels) == [kind \in kinds |-> labels]

PipelineGauges == Collector(PipelineGaugeKinds, DefaultLabels \cup PipelineLabels)
PipelineIDs == Collector({"ID"}, DefaultLabels \cup PipelineLabels)
JobGauges == Collector(JobKinds, DefaultLabels \cup JobLabels)
RunGauges == Collector(RunKinds, DefaultLabels \cup PipelineLabels)
RunnerGauges ==
    [Runner |-> RunnerLabels,
     RunnerContactedAtSeconds |-> {"runner_id"},
     RunnerProjectInfo |-> {"runner_id", "project"},
     RunnerTagInfo |-> {"runner_id", "tag"},
     RunnerGroupInfo |-> {"runner_id", "group"}]
EnvironmentGauges ==
    [kind \in EnvironmentKinds |->
        CASE kind = "EnvironmentDeploymentStatus" -> EnvironmentLabels \cup {"status"}
          [] kind = "EnvironmentInformation" -> EnvironmentLabels \cup EnvironmentInformationLabels
          [] OTHER -> EnvironmentLabels]
TestReportGauges == Collector(TestReportKinds, DefaultLabels)
TestSuiteGauges == Collector(TestSuiteKinds, DefaultLabels \cup TestSuiteLabels)
TestCaseGauges ==
    [TestCaseExecutionTime |-> DefaultLabels \cup TestSuiteLabels \cup TestCaseLabels,
     TestCaseStatus |-> DefaultLabels \cup TestSuiteLabels \cup TestCaseLabels \cup {"status"}]

\* The collector of every kind.
NewRegistry ==
    [kind \in PipelineKinds \cup JobKinds \cup EnvironmentKinds \cup RunnerKinds
                \cup TestReportKinds \cup TestSuiteKinds \cup TestCaseKinds |->
        CASE kind \in PipelineGaugeKinds -> PipelineGauges[kind]
          [] kind = "ID" -> PipelineIDs[kind]
          [] kind \in RunKinds -> RunGauges[kind]
          [] kind \in JobKinds -> JobGauges[kind]
          [] kind \in EnvironmentKinds -> EnvironmentGauges[kind]
          [] kind \in RunnerKinds -> RunnerGauges[kind]
          [] kind \in TestReportKinds -> TestReportGauges[kind]
          [] kind \in TestSuiteKinds -> TestSuiteGauges[kind]
          [] kind \in TestCaseKinds -> TestCaseGauges[kind]]

\* The labels that tell two metrics of a kind apart.
KeyLabels(kind) ==
    CASE kind \in PipelineKinds \cup TestReportKinds ->
             {"project", "kind", "ref", "source", "variables", "pipeline_id", "status"}
      [] kind \in JobKinds ->
             {"project", "kind", "ref", "stage", "tag_list", "job_name", "job_id",
              "pipeline_id", "status", "failure_reason"}
      [] kind \in EnvironmentKinds ->
             EnvironmentLabels \cup (IF kind = "EnvironmentDeploymentStatus" THEN {"status"} ELSE {})
      [] kind \in TestSuiteKinds -> {"project", "kind", "ref"} \cup TestSuiteLabels
      [] kind \in TestCaseKinds ->
             {"project", "kind", "ref"} \cup TestSuiteLabels \cup TestCaseLabels
               \cup (IF kind = "TestCaseStatus" THEN {"status"} ELSE {})
      [] kind = "RunnerProjectInfo" -> {"runner_id", "project"}
      [] kind = "RunnerTagInfo" -> {"runner_id", "tag"}
      [] kind = "RunnerGroupInfo" -> {"runner_id", "group"}
      [] OTHER -> {"runner_id"}

LabelOf(m, label) == IF label \in DOMAIN m.labels THEN m.labels[label] ELSE ""

Key(m) == <<m.kind, [label \in KeyLabels(m.kind) |-> LabelOf(m, label)]>>

-----------------------------------------------------------------------------
\* The table.

Metric(kind, labels, value) == [kind |-> kind, labels |-> labels, value |-> value]

Gauges(kinds, labels, value) == {Metric(kind, labels, value) : kind \in kinds}

DelMetrics(table, old) ==
    LET keys == {Key(m) : m \in old} IN {m \in table : Key(m) \notin keys}

SetMetrics(table, new) ==
    LET kept == {m \in new : m.kind \in Kept} IN DelMetrics(table, kept) \cup kept

MetricExists(table, m) == \E x \in table : Key(x) = Key(m)

\* The metric stored with the key of m, or m.
GetMetric(table, m) ==
    IF MetricExists(table, m) THEN CHOOSE x \in table : Key(x) = Key(m) ELSE m

WithStatus(labels, status) == [labels EXCEPT !.status = status]

\* Mutant: the other statuses are left as they are.
EmitStatusOnly(table, kind, labels, status, sparse) ==
    SetMetrics(table, {Metric(kind, WithStatus(labels, status), 1)})

\* Written with each status as a label: 1 for the status it has; the others are
\* deleted, or 0.  The code writes one status after the other; here it is one step.
EmitStatus(table, kind, labels, status, sparse) ==
    LET Of(s) == Metric(kind, WithStatus(labels, s), IF s = status THEN 1 ELSE 0)
        others == {Of(s) : s \in statusesList \ {status}}
        is == {Of(s) : s \in statusesList \cap {status}}
    IN IF sparse THEN SetMetrics(DelMetrics(table, others), is)
       ELSE SetMetrics(table, others \cup is)

\* A GitLab call fails: the limiter's context ends, or an error is returned.
CallFails ==
    /\ failures > 0
    /\ failures' = failures - 1

CallSucceeds == UNCHANGED failures

StoreInit == metrics = {} /\ robbed = FALSE

\* With(labels) panics unless the labels are those of the collector.
Exported(m) == DOMAIN m.labels = NewRegistry[m.kind]

StoreTypeOK ==
    /\ failures \in Nat
    /\ \A m \in metrics : m.kind \in Kept /\ m.value \in Nat /\ Exported(m)
    /\ \A m, n \in metrics : m.kind = n.kind /\ m # n => Key(m) # Key(n)

\* What tells the things apart that have a status: pipelines, jobs, environments and
\* the test cases of a ref.
IdentityLabels(kind) ==
    CASE kind = "Status" -> {"pipeline_id"}
      [] kind = "JobStatus" -> {"job_id"}
      [] kind = "TestCaseStatus" -> {"project", "kind", "ref"} \cup TestSuiteLabels \cup TestCaseLabels
      [] OTHER -> EnvironmentLabels

SameThing(m, n) ==
    m.kind = n.kind /\ \A label \in IdentityLabels(m.kind) : LabelOf(m, label) = LabelOf(n, label)

StatusesSet == {m \in metrics : m.kind \in StatusKinds /\ m.value = 1}

\* "setting the value to 1 for the current status, and either 0 or deletes the metric
\* for other statuses" (metrics.go:251): a pipeline, a job, an environment or a test
\* case has one status that is 1 at most.  Not so for a job that fails: its failure
\* reason is among the labels that are written for each status.
OneStatusEach == \A m, n \in StatusesSet : SameThing(m, n) => m = n

\* A thing has one status that is 1 at most, whatever is pulled, collected and written
\* back, but for the statuses that a job had with another failure reason
\* (metrics.go:253): no other label that a status is written with ever changes.
OneStatusPerReason ==
    \A m, n \in StatusesSet :
        SameThing(m, n) =>
            m = n \/ (m.kind = "JobStatus"
                        /\ LabelOf(m, "failure_reason") # LabelOf(n, "failure_reason"))
=============================================================================
