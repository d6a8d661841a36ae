------------------------------- MODULE RefMetrics -------------------------------
(***************************************************************************)
(* The metrics of one ref: PullRefMetrics reads its latest per_ref         *)
(* pipelines, the oldest first, and for each stores the pipeline in the    *)
(* ref, writes its metrics, those of its jobs and of its test report       *)
(* (pkg/controller/pipelines.go, jobs.go).                                 *)
(*                                                                         *)
(* A pipeline has one job and the status of that job; its test report has  *)
(* one suite of one case, of the pipeline's status.  What discovers, drops *)
(* and reconfigures refs is modelled in RefCollection; here it happens at  *)
(* any time.  A run of storeSetMetric calls is one step: no other task     *)
(* reads or writes the same metrics but the collection of metrics, which   *)
(* deletes those of refs that are not stored.                              *)
(***************************************************************************)
EXTENDS MetricStore, SequencesExt

CONSTANTS MaxDrops,   \* bound on the deletions of the ref and its settings' changes
          MaxRuns     \* bound on the runs counted of a pipeline

ASSUME RefBoundsAssumption == MaxDrops \in Nat /\ MaxRuns \in Nat \ {0}

VARIABLES
    settings,   \* what is pulled, the kind of the ref, whether its pipelines are those of
                \* a merge request's result, and the project's settings;
                \* bounds: of its pipelines; whether jobs are played
                \* and retried, and the ref dropped or written back
    pipelines,  \* GitLab: the job of each pipeline of the ref, the oldest first
    ref,        \* the ref in the store
    variables,  \* the pipelineVariables table: pipeline -> variables
    refPull,    \* the metrics pull of the ref
    snapshot,   \* the ref as a collection read it, with the project's settings
    drops,      \* how often the ref was dropped or written back
    disturbed   \* history: the ref was dropped, or written back with another pipeline

\* What they may be.
RefSettings ==
    [refs : BOOLEAN, kind : {"branch", "tag", "merge-request"}, merged : BOOLEAN,
     perRef : Nat \ {0}, jobs : BOOLEAN, tests : BOOLEAN, variables : BOOLEAN, sparse : BOOLEAN,
     pipelines : Nat, dropped : BOOLEAN,
     rewritten : BOOLEAN, retries : BOOLEAN]

gitlabRefVars == <<settings, pipelines>>
refVars == <<settings, pipelines, ref, variables, refPull, snapshot, drops, disturbed>>

Job == [id : Nat, status : statusesList, reason : {"", "script_failure"}]
NoJob == [id |-> 0, status |-> "", reason |-> ""]
NoPipeline == [id |-> 0, status |-> "", variables |-> ""]
NoRef == [stored |-> FALSE, sparse |-> TRUE, latest |-> NoPipeline, job |-> NoJob]
NoRefPull == [stage |-> "idle", copy |-> NoRef, todo |-> <<>>, pipeline |-> NoPipeline, job |-> NoJob]

\* Second attempts of a job have an id of their own.
JobOf(p, attempt) == [id |-> 2 * p + attempt, status |-> "running", reason |-> ""]

RefTypeOK ==
    /\ pipelines \in Seq(Job) /\ Len(pipelines) <= settings.pipelines
    /\ ref.latest.id \in 0..Len(pipelines)
    /\ DOMAIN variables \subseteq 1..Len(pipelines)
    /\ refPull.stage \in {"idle", "queued", "listing", "reading", "variables", "storing",
                          "writing", "jobs", "job", "report"}
    /\ \A i \in DOMAIN refPull.todo : refPull.todo[i] \in 1..Len(pipelines)
    /\ refPull.stage \notin {"idle", "queued", "listing"} => refPull.todo # <<>>
    /\ drops \in 0..MaxDrops

RefInit ==
    /\ pipelines = <<>>
    /\ ref = NoRef
    /\ variables = <<>>
    /\ refPull = NoRefPull
    /\ snapshot = NoRef
    /\ drops = 0
    /\ disturbed = FALSE

-----------------------------------------------------------------------------
\* GitLab.

CreatePipeline ==
    /\ settings.refs /\ Len(pipelines) < settings.pipelines
    /\ \E status \in {"running"} \cup (IF settings.retries THEN {"manual"} ELSE {}) :
          pipelines' = Append(pipelines, [JobOf(Len(pipelines) + 1, 0) EXCEPT !.status = status])
    /\ UNCHANGED <<settings, ref, variables, refPull, snapshot, drops, disturbed>>

\* The job is played, ends, or is retried once.
ChangeJob(p) ==
    /\ \/ /\ pipelines[p].status = "manual"
          /\ pipelines' = [pipelines EXCEPT ![p].status = "running"]
       \/ /\ pipelines[p].status = "running"
          /\ \/ pipelines' = [pipelines EXCEPT ![p].status = "success"]
             \/ pipelines' = [pipelines EXCEPT ![p].status = "failed",
                                               ![p].reason = "script_failure"]
       \/ /\ settings.retries /\ pipelines[p].status = "failed" /\ pipelines[p].id = 2 * p
          /\ pipelines' = [pipelines EXCEPT ![p] = JobOf(p, 1)]
    /\ UNCHANGED <<settings, ref, variables, refPull, snapshot, drops, disturbed>>

-----------------------------------------------------------------------------
\* The ref in the store, see RefCollection.

\* An event may store it with the default settings, which are sparse.
DiscoverRef ==
    /\ settings.refs /\ ~ref.stored
    /\ \E sparse \in {settings.sparse, TRUE} : ref' = [NoRef EXCEPT !.stored = TRUE, !.sparse = sparse]
    /\ UNCHANGED <<settings, pipelines, variables, refPull, snapshot, drops, disturbed>>

DropRef ==
    /\ settings.dropped /\ ref.stored /\ drops < MaxDrops
    /\ drops' = drops + 1
    /\ ref' = NoRef
    /\ disturbed' = TRUE
    /\ UNCHANGED <<settings, pipelines, variables, refPull, snapshot>>

\* GarbageCollectRefs reads all refs and writes back those whose project differs.
SnapshotRef ==
    /\ settings.rewritten /\ ref.stored /\ ~snapshot.stored /\ drops < MaxDrops
    /\ ref.sparse # settings.sparse
    /\ drops' = drops + 1
    /\ snapshot' = [ref EXCEPT !.sparse = settings.sparse]
    /\ UNCHANGED <<settings, pipelines, ref, variables, refPull, disturbed>>

WriteSnapshotBack ==
    /\ snapshot.stored
    /\ ref' = snapshot
    /\ snapshot' = NoRef
    /\ disturbed' = (disturbed \/ snapshot.latest # ref.latest \/ snapshot.job # ref.job)
    /\ UNCHANGED <<settings, pipelines, variables, refPull, drops>>

-----------------------------------------------------------------------------
\* The metrics pull.

pulledVars == <<settings, pipelines, snapshot, drops, disturbed>>

\* TaskHandlerPullMetrics schedules a pull with a copy of every stored ref.
ScheduleRefMetrics ==
    /\ refPull.stage = "idle" /\ ref.stored
    /\ refPull' = [refPull EXCEPT !.stage = "queued", !.copy = ref]
    /\ UNCHANGED <<metrics, failures, ref, variables, pulledVars>>

\* A ref that has been dropped meanwhile is pulled all the same, as it was.
RefreshRef ==
    /\ refPull.stage = "queued"
    /\ refPull' = [refPull EXCEPT !.stage = "listing", !.copy = IF ref.stored THEN ref ELSE @]
    /\ UNCHANGED <<metrics, failures, ref, variables, pulledVars>>

\* The latest per_ref pipelines, reversed: the oldest first.  If a merge
\* request has none of its own, the latest of its result is taken, and only that.
ListPipelines ==
    LET n == Len(pipelines)
        count == IF settings.merged THEN 1 ELSE settings.perRef
    IN [i \in 1..(IF n < count THEN n ELSE count) |-> IF n < count THEN i ELSE n - count + i]

GetProjectPipelines ==
    /\ refPull.stage = "listing"
    /\ \/ CallFails /\ refPull' = NoRefPull
       \/ /\ CallSucceeds
          /\ refPull' = IF ListPipelines = <<>> THEN NoRefPull
                        ELSE [refPull EXCEPT !.stage = "reading", !.todo = ListPipelines]
    /\ UNCHANGED <<metrics, ref, variables, pulledVars>>

\* An error in processing one pipeline is logged; the next one is processed with
\* the same copy of the ref.
NextPipeline ==
    IF Len(refPull.todo) = 1 THEN NoRefPull
    ELSE [refPull EXCEPT !.stage = "reading", !.todo = Tail(@), !.pipeline = NoPipeline, !.job = NoJob]

Current == Head(refPull.todo)

\* What GitLab says of a pipeline.
NewPipeline(p) == [NoPipeline EXCEPT !.id = p, !.status = pipelines[p].status]

GetRefPipeline ==
    /\ refPull.stage = "reading"
    /\ \/ CallFails /\ refPull' = NextPipeline
       \/ /\ CallSucceeds
          /\ refPull' = [refPull EXCEPT
                            !.stage = IF settings.variables THEN "variables" ELSE "storing",
                            !.pipeline = NewPipeline(Current)]
    /\ UNCHANGED <<metrics, ref, variables, pulledVars>>

VariablesWith(p, fetched) ==
    [q \in DOMAIN variables \cup {p} |-> IF q = p THEN fetched ELSE variables[q]]

\* Fetched once for a pipeline: if that fails, it has none from then on.
PullVariables ==
    /\ refPull.stage = "variables"
    /\ \/ /\ Current \in DOMAIN variables
          /\ refPull' = [refPull EXCEPT !.stage = "storing", !.pipeline.variables = variables[Current]]
          /\ UNCHANGED <<failures, variables>>
       \/ /\ Current \notin DOMAIN variables
          /\ \/ /\ CallFails
                /\ variables' = VariablesWith(Current, "")
                /\ refPull' = NextPipeline
             \/ /\ CallSucceeds
                /\ variables' = VariablesWith(Current, "v")
                /\ refPull' = [refPull EXCEPT !.stage = "storing", !.pipeline.variables = "v"]
    /\ UNCHANGED <<metrics, ref, pulledVars>>

\* The cached pipeline is read with no id, so it always differs.
StorePipeline ==
    /\ refPull.stage = "storing"
    /\ ref' = [refPull.copy EXCEPT !.latest = refPull.pipeline]
    /\ refPull' = [refPull EXCEPT !.stage = "writing"]
    /\ UNCHANGED <<metrics, failures, variables, pulledVars>>

\* The ref as the pull knows it, with the pipeline it is processing.
PulledRef == [refPull.copy EXCEPT !.latest = refPull.pipeline]

DefaultLabelsValues(pipeline) ==
    [project |-> "p", topics |-> "", kind |-> settings.kind, ref |-> "r", source |-> "push",
     variables |-> pipeline.variables]

PipelineLabelsValues(pipeline) ==
    [project |-> "p", topics |-> "", kind |-> settings.kind, ref |-> "r", source |-> "push",
     variables |-> pipeline.variables,
     pipeline_id |-> pipeline.id, status |-> pipeline.status]

\* Mutant: every pipeline but the first one seen counts, whether it is new or not.
CountAgain(former, pipeline) == former.id # 0

\* A run is counted when the stored ref had another pipeline before.
CountRun(former, pipeline) == former.id # 0 /\ former.id # pipeline.id

\* What is done after the metrics of a pipeline, or of its jobs, are written.
ReportOrNext ==
    IF settings.tests /\ refPull.pipeline.status \in {"success", "failed", "skipped", "cancelled"}
    THEN [refPull EXCEPT !.stage = "report", !.job = NoJob]
    ELSE NextPipeline

WritePipelineMetrics ==
    /\ refPull.stage = "writing"
    /\ LET pipeline == refPull.pipeline
           labels == PipelineLabelsValues(pipeline)
           count == GetMetric(metrics, Metric("RunCount", labels, 0))
           new == IF CountRun(refPull.copy.latest, pipeline) /\ count.value < MaxRuns
                  THEN count.value + 1 ELSE count.value
           written == SetMetrics(metrics,
                          {[count EXCEPT !.value = new]}
                            \cup Gauges(PipelineGaugeKinds \cup {"ID", "Timestamp"}, labels, pipeline.id))
       IN metrics' = EmitStatus(written, "Status", labels, pipeline.status, refPull.copy.sparse)
    /\ refPull' = IF settings.jobs THEN [refPull EXCEPT !.stage = "jobs"] ELSE ReportOrNext
    /\ UNCHANGED <<failures, ref, variables, pulledVars>>

PullRefPipelineJobsMetrics ==
    /\ refPull.stage = "jobs"
    /\ \/ CallFails /\ refPull' = NextPipeline
       \/ CallSucceeds /\ refPull' = [refPull EXCEPT !.stage = "job", !.job = pipelines[Current]]
    /\ UNCHANGED <<metrics, ref, variables, pulledVars>>

\* Mutant: a label that was added to the collector is forgotten.
JobLabelsWithoutReason(pipeline, job) ==
    [project |-> "p", topics |-> "", kind |-> settings.kind, ref |-> "r", source |-> "push",
     variables |-> pipeline.variables,
     stage |-> "s", job_name |-> "j", tag_list |-> "", runner_description |-> "",
     status |-> job.status, job_id |-> job.id, pipeline_id |-> pipeline.id]

JobLabelsValues(pipeline, job) ==
    [project |-> "p", topics |-> "", kind |-> settings.kind, ref |-> "r", source |-> "push",
     variables |-> pipeline.variables,
     stage |-> "s", job_name |-> "j", tag_list |-> "", runner_description |-> "",
     status |-> job.status, job_id |-> job.id, pipeline_id |-> pipeline.id,
     failure_reason |-> job.reason]

Triggered(job) == job.status \notin {"skipped", "manual", "scheduled"}

\* A new job, or one that has only now been triggered.
CountJob(last, job) == Triggered(job) /\ (last.id # job.id \/ ~Triggered(last))

\* The ref is stored with the job, if the job is not as it was.
ProcessJobMetrics ==
    /\ refPull.stage = "job"
    /\ LET job == refPull.job
           current == IF ref.stored THEN ref ELSE PulledRef
           labels == JobLabelsValues(refPull.pipeline, job)
           none == Metric("JobRunCount", labels, 0)
           exists == MetricExists(metrics, none)
           count == IF exists /\ CountJob(current.job, job)
                    THEN [none EXCEPT !.value = GetMetric(metrics, none).value + 1] ELSE none
           written == SetMetrics(metrics, {count} \cup Gauges(JobKinds \ {"JobRunCount", "JobStatus"}, labels, job.id))
       IN IF current.job = job THEN UNCHANGED <<metrics, ref>>
          ELSE /\ ref' = [current EXCEPT !.job = job]
               /\ metrics' = EmitStatus(written, "JobStatus", labels, job.status, current.sparse)
    /\ refPull' = ReportOrNext
    /\ UNCHANGED <<failures, variables, pulledVars>>

TestSuiteLabelsValues(pipeline) ==
    [project |-> "p", topics |-> "", kind |-> settings.kind, ref |-> "r", source |-> "push",
     variables |-> pipeline.variables,
     test_suite_name |-> "s"]

TestCaseLabelsValues(pipeline) ==
    [project |-> "p", topics |-> "", kind |-> settings.kind, ref |-> "r", source |-> "push",
     variables |-> pipeline.variables,
     test_suite_name |-> "s", test_case_name |-> "t", test_case_classname |-> "c"]

TestCaseStatusLabelsValues(pipeline) ==
    [project |-> "p", topics |-> "", kind |-> settings.kind, ref |-> "r", source |-> "push",
     variables |-> pipeline.variables,
     test_suite_name |-> "s", test_case_name |-> "t", test_case_classname |-> "c", status |-> ""]

\* ProcessTestReportMetrics, and for the suite and its case ProcessTestSuiteMetrics
\* and ProcessTestCaseMetrics.
WriteTestReport(pipeline, sparse) ==
    LET written == SetMetrics(metrics,
                       Gauges(TestReportKinds, DefaultLabelsValues(pipeline), pipeline.id)
                         \cup Gauges(TestSuiteKinds, TestSuiteLabelsValues(pipeline), pipeline.id)
                         \cup Gauges({"TestCaseExecutionTime"}, TestCaseLabelsValues(pipeline), pipeline.id))
    IN EmitStatus(written, "TestCaseStatus", TestCaseStatusLabelsValues(pipeline), pipeline.status, sparse)

PullTestReport ==
    /\ refPull.stage = "report"
    /\ \/ CallFails /\ UNCHANGED metrics
       \/ /\ CallSucceeds
          /\ metrics' = WriteTestReport(refPull.pipeline, (IF ref.stored THEN ref ELSE PulledRef).sparse)
    /\ refPull' = NextPipeline
    /\ UNCHANGED <<ref, variables, pulledVars>>

RefPullStep ==
    \/ ScheduleRefMetrics \/ RefreshRef \/ GetProjectPipelines \/ GetRefPipeline \/ PullVariables
    \/ StorePipeline \/ WritePipelineMetrics \/ PullRefPipelineJobsMetrics
    \/ ProcessJobMetrics \/ PullTestReport

RefOthers ==
    /\ \/ CreatePipeline \/ (\E p \in DOMAIN pipelines : ChangeJob(p))
       \/ DiscoverRef \/ DropRef \/ SnapshotRef \/ WriteSnapshotBack
    /\ UNCHANGED <<metrics, failures>>

RefStep == RefPullStep \/ RefOthers

-----------------------------------------------------------------------------
\* Properties.

OfPipeline(kind, p) == {m \in metrics : m.kind = kind /\ m.labels.pipeline_id = p}

\* The statuses of a pipeline that it has been counted with.
Counts(p) == {m \in OfPipeline("RunCount", p) : m.value # 0}

\* With per_ref 1 and a ref that stays in the store, every pipeline that is pulled
\* after the first one is counted as one run, in one of its statuses, whatever they
\* are and however often it is pulled (pipelines.go:153); and all its metrics have
\* the variables it was first seen with (pipelines.go:107).
RunsCountedOnce ==
    LET counted == {p \in 1..Len(pipelines) : OfPipeline("RunCount", p) # {}} IN
        /\ settings.perRef = 1 /\ ~disturbed /\ ~robbed =>
              \A p \in counted :
                  IF \A q \in counted : p <= q THEN Counts(p) = {}
                  ELSE \E m \in Counts(p) : Counts(p) = {m} /\ m.value = 1
        /\ \A p \in counted :
              Cardinality({m.labels.variables : m \in OfPipeline("RunCount", p)}) = 1

\* The metrics of the latest pipeline say what GitLab says.
RefMetricsCurrent ==
    LET p == Len(pipelines) IN
        p > 0 => /\ \E m \in OfPipeline("Status", p) : m.value = 1 /\ m.labels.status = pipelines[p].status
                 /\ settings.jobs /\ ~disturbed /\ ~robbed =>
                      \E m \in OfPipeline("JobStatus", p) :
                          m.value = 1 /\ m.labels.status = pipelines[p].status /\ m.labels.job_id = pipelines[p].id
=============================================================================
