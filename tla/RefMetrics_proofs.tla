---------------------------- MODULE RefMetrics_proofs ----------------------------
(***************************************************************************)
(* The metrics of a ref, proved step by step: RefTyped and RefRelated are  *)
(* its types, VariablesInv and RunsInv what RunsCountedOnce needs, PullInv *)
(* what RunsInv needs of a pull.  MetricsCollection_proofs concludes from  *)
(* these with the steps of all others.                                     *)
(*                                                                         *)
(* Records are taken apart in lemmas of their own: a pull is Pull(...) of  *)
(* its fields, and each action's lemma says which of them it changes.      *)
(***************************************************************************)
EXTENDS RefMetrics, MetricStore_proofs, SequenceTheorems, FiniteSetTheorems

-----------------------------------------------------------------------------
\* Refs: types.

Pipeline == [id : Nat, status : statusesList \cup {""}, variables : {"", "v"}]
LastJob == Job \cup {NoJob}
RefRecord == [stored : BOOLEAN, sparse : BOOLEAN, latest : Pipeline, job : LastJob]
RefStages ==
    {"idle", "queued", "listing", "reading", "variables", "storing", "writing", "jobs", "job", "report"}
RefTask == [stage : RefStages, copy : RefRecord, todo : Seq(Nat), pipeline : Pipeline, job : LastJob]

Pull(stage, copy, todo, pipeline, job) ==
    [stage |-> stage, copy |-> copy, todo |-> todo, pipeline |-> pipeline, job |-> job]

\* A pull has a pipeline to process, and has read it.
Busy(pull) == pull.stage \notin {"idle", "queued", "listing"}
HasRead(pull) == pull.stage \in {"variables", "storing", "writing", "jobs", "job", "report"}

RefTyped ==
    /\ settings \in RefSettings
    /\ pipelines \in Seq(Job)
    /\ ref \in RefRecord /\ snapshot \in RefRecord
    /\ refPull \in RefTask
    /\ drops \in 0..MaxDrops
    /\ disturbed \in BOOLEAN

\* What a pull of a ref with n pipelines works on.
OfPipelines(pull, n) ==
    /\ \A i \in 1..Len(pull.todo) : pull.todo[i] \in 1..n
    /\ Busy(pull) => pull.todo # <<>>
    /\ HasRead(pull) => pull.pipeline.id = Head(pull.todo)
    /\ pull.copy.latest.id <= n /\ pull.pipeline.id <= n
    /\ pull.stage # "idle" => pull.copy.stored

RefRelated ==
    /\ Len(pipelines) <= settings.pipelines
    /\ ref.latest.id <= Len(pipelines) /\ snapshot.latest.id <= Len(pipelines)
    /\ OfPipelines(refPull, Len(pipelines))
    /\ DOMAIN variables \subseteq 1..Len(pipelines)
    /\ \A p \in DOMAIN variables : variables[p] \in {"", "v"}

\* The records refs and pulls begin with, and the fields of those they become.
LEMMA RefRecords ==
    /\ NoPipeline \in Pipeline /\ NoPipeline.id = 0 /\ NoPipeline.variables = "" /\ NoJob \in LastJob
    /\ NoRef \in RefRecord /\ ~NoRef.stored /\ NoRef.latest = NoPipeline
    /\ NoRefPull \in RefTask /\ NoRefPull.stage = "idle" /\ NoRefPull.copy = NoRef /\ NoRefPull.todo = <<>>
    /\ NoRefPull.pipeline = NoPipeline
    /\ \A r \in RefRecord : /\ r.stored \in BOOLEAN /\ r.sparse \in BOOLEAN /\ r.latest \in Pipeline
                            /\ r.latest.id \in Nat /\ r.job \in LastJob
    /\ \A q \in Pipeline : q.id \in Nat /\ q.variables \in {"", "v"} /\ q.status \in statusesList \cup {""}
    /\ \A j \in LastJob : j.id \in Nat
  <1>1. NoPipeline \in Pipeline /\ NoPipeline.id = 0 /\ NoPipeline.variables = "" /\ NoJob \in LastJob
    BY DEF NoPipeline, Pipeline, LastJob
  <1>2. NoRef \in RefRecord /\ ~NoRef.stored /\ NoRef.latest = NoPipeline
    BY <1>1 DEF NoRef, RefRecord
  <1>3. /\ NoRefPull \in RefTask /\ NoRefPull.stage = "idle" /\ NoRefPull.copy = NoRef /\ NoRefPull.todo = <<>>
        /\ NoRefPull.pipeline = NoPipeline
    <2>1. <<>> \in Seq(Nat)
      BY EmptySeq
    <2>2. NoRefPull = [stage |-> "idle", copy |-> NoRef, todo |-> <<>>, pipeline |-> NoPipeline, job |-> NoJob]
      BY DEF NoRefPull
    <2>3. "idle" \in RefStages
      BY DEF RefStages
    <2> HIDE DEF RefStages
    <2>4. NoRefPull \in RefTask
      BY <1>1, <1>2, <2>1, <2>2, <2>3 DEF RefTask
    <2> QED
      BY <2>2, <2>4
  <1>4. \A q \in Pipeline : q.id \in Nat /\ q.variables \in {"", "v"} /\ q.status \in statusesList \cup {""}
    BY DEF Pipeline
  <1>5. \A j \in LastJob : j.id \in Nat
    <2>1. \A j \in Job : j.id \in Nat
      BY DEF Job
    <2>2. NoJob.id \in Nat
      BY DEF NoJob
    <2> QED
      BY <2>1, <2>2 DEF LastJob
  <1>6. \A r \in RefRecord : /\ r.stored \in BOOLEAN /\ r.sparse \in BOOLEAN /\ r.latest \in Pipeline
                             /\ r.latest.id \in Nat /\ r.job \in LastJob
    BY <1>4 DEF RefRecord
  <1> QED
    BY <1>1, <1>2, <1>3, <1>4, <1>5, <1>6

\* No ref.
LEMMA NoRefIs == NoRef \in RefRecord /\ NoRef.latest.id = 0 /\ ~NoRef.stored /\ NoRef.latest = NoPipeline
  <1>1. NoRef \in RefRecord /\ ~NoRef.stored /\ NoRef.latest = NoPipeline
    BY RefRecords
  <1>2. NoPipeline.id = 0
    BY RefRecords
  <1> QED
    BY <1>1, <1>2

\* A job is a record of these.
LEMMA IsJob ==
    ASSUME NEW id \in Nat, NEW status \in statusesList, NEW reason \in {"", "script_failure"}
    PROVE  [id |-> id, status |-> status, reason |-> reason] \in Job
  BY DEF Job

\* A new job, with any status.
LEMMA JobOfIs ==
    ASSUME NEW p \in Nat, NEW attempt \in {0, 1}, NEW job, job = JobOf(p, attempt)
    PROVE  /\ job \in Job
           /\ \A status \in statusesList : [job EXCEPT !.status = status] \in Job
  <1>1. 2 * p + attempt \in Nat /\ "running" \in statusesList
    BY DEF statusesList
  <1>2. PICK id \in Nat : id = 2 * p + attempt
    BY <1>1
  <1>3. job = [id |-> id, status |-> "running", reason |-> ""]
    BY <1>2 DEF JobOf
  <1>4. job \in Job
    BY <1>1, <1>2, <1>3, IsJob
  <1> QED
    BY <1>4 DEF Job

\* A ref with one field changed.
LEMMA RefEdits ==
    ASSUME NEW r \in RefRecord, NEW s
    PROVE  /\ \A sparse \in BOOLEAN : s = [r EXCEPT !.sparse = sparse] =>
                 s \in RefRecord /\ s.stored = r.stored /\ s.latest = r.latest /\ s.job = r.job
           /\ \A latest \in Pipeline : s = [r EXCEPT !.latest = latest] =>
                 s \in RefRecord /\ s.stored = r.stored /\ s.latest = latest /\ s.sparse = r.sparse
           /\ \A job \in LastJob : s = [r EXCEPT !.job = job] =>
                 s \in RefRecord /\ s.stored = r.stored /\ s.latest = r.latest /\ s.sparse = r.sparse
  BY DEF RefRecord

\* The fields of a pull.
LEMMA TaskFields ==
    ASSUME NEW pull \in RefTask
    PROVE  /\ pull.stage \in RefStages /\ pull.copy \in RefRecord /\ pull.todo \in Seq(Nat)
           /\ pull.pipeline \in Pipeline /\ pull.job \in LastJob
           /\ pull = Pull(pull.stage, pull.copy, pull.todo, pull.pipeline, pull.job)
  BY DEF RefTask, Pull

\* A pull made of its fields.
LEMMA PullIs ==
    ASSUME NEW stage \in RefStages, NEW copy \in RefRecord, NEW todo \in Seq(Nat), NEW pipeline \in Pipeline,
           NEW job \in LastJob, NEW pull, pull = Pull(stage, copy, todo, pipeline, job)
    PROVE  /\ pull \in RefTask
           /\ pull.stage = stage /\ pull.copy = copy /\ pull.todo = todo /\ pull.pipeline = pipeline /\ pull.job = job
  BY DEF Pull, RefTask

\* No pull works on nothing.
LEMMA NoPullOf ==
    ASSUME NEW n \in Nat
    PROVE  OfPipelines(NoRefPull, n)
  <1>1. NoRefPull.stage = "idle" /\ NoRefPull.todo = <<>> /\ NoRefPull.copy.latest.id = 0 /\ NoRefPull.pipeline.id = 0
    BY RefRecords
  <1> QED
    BY <1>1 DEF OfPipelines, Busy, HasRead

\* New pipelines leave a pull what it works on.
LEMMA OfMore ==
    ASSUME NEW pull \in RefTask, NEW n \in Nat, NEW m \in Nat, n <= m, OfPipelines(pull, n)
    PROVE  OfPipelines(pull, m)
  <1>1. pull.copy.latest.id \in Nat /\ pull.pipeline.id \in Nat
    BY TaskFields, RefRecords
  <1>2. \A i \in 1..Len(pull.todo) : pull.todo[i] \in 1..m
    BY DEF OfPipelines
  <1> QED
    BY <1>1, <1>2 DEF OfPipelines

\* What the types say of a ref and its pull.
LEMMA RefFacts ==
    ASSUME RefTyped
    PROVE  /\ Len(pipelines) \in Nat
           /\ refPull.stage \in RefStages /\ refPull.copy \in RefRecord /\ refPull.todo \in Seq(Nat)
           /\ refPull.pipeline \in Pipeline /\ refPull.job \in LastJob
           /\ ref.latest \in Pipeline /\ ref.latest.id \in Nat /\ ref.stored \in BOOLEAN
           /\ snapshot.latest.id \in Nat
           /\ refPull.copy.latest \in Pipeline /\ refPull.copy.latest.id \in Nat /\ refPull.pipeline.id \in Nat
           /\ settings.variables \in BOOLEAN /\ settings.sparse \in BOOLEAN
           /\ settings.perRef \in Nat \ {0} /\ settings.pipelines \in Nat
  BY RefRecords, TaskFields, LenProperties DEF RefTyped, RefSettings

\* The pipeline that is processed, and what is left to do after it.
LEMMA RefTodo ==
    ASSUME RefTyped, RefRelated, Busy(refPull)
    PROVE  /\ refPull.todo # <<>> /\ Current \in 1..Len(pipelines) /\ Len(refPull.todo) \in Nat \ {0}
           /\ Tail(refPull.todo) \in Seq(Nat) /\ Len(Tail(refPull.todo)) = Len(refPull.todo) - 1
           /\ \A i \in 1..Len(Tail(refPull.todo)) : Tail(refPull.todo)[i] \in 1..Len(pipelines)
  <1>1. refPull.todo \in Seq(Nat) /\ refPull.todo # <<>>
    BY RefFacts DEF RefRelated, OfPipelines
  <1>2. /\ Head(refPull.todo) = refPull.todo[1] /\ Len(refPull.todo) \in Nat \ {0}
        /\ Tail(refPull.todo) \in Seq(Nat) /\ Len(Tail(refPull.todo)) = Len(refPull.todo) - 1
        /\ \A i \in 1..Len(Tail(refPull.todo)) : Tail(refPull.todo)[i] = refPull.todo[i + 1]
    BY <1>1, HeadTailProperties, EmptySeq, LenProperties
  <1>3. \A i \in 1..Len(refPull.todo) : refPull.todo[i] \in 1..Len(pipelines)
    BY DEF RefRelated, OfPipelines
  <1> QED
    BY <1>1, <1>2, <1>3 DEF Current

\* The pull goes on with the next pipeline, or ends.
LEMMA NextPull ==
    ASSUME RefTyped, RefRelated, Busy(refPull), NEW next, next = NextPipeline
    PROVE  /\ next \in RefTask /\ OfPipelines(next, Len(pipelines))
           /\ \/ next = NoRefPull
              \/ /\ next = Pull("reading", refPull.copy, Tail(refPull.todo), NoPipeline, NoJob)
                 /\ Len(refPull.todo) # 1
  <1>1. CASE Len(refPull.todo) = 1
    BY <1>1, RefRecords, NoPullOf, RefFacts DEF NextPipeline
  <1>2. CASE Len(refPull.todo) # 1
    <2>1. PICK todo : todo = Tail(refPull.todo)
      OBVIOUS
    <2>2. next = [refPull EXCEPT !.stage = "reading", !.todo = todo, !.pipeline = NoPipeline, !.job = NoJob]
      BY <1>2, <2>1 DEF NextPipeline
    <2>3. next = Pull("reading", refPull.copy, todo, NoPipeline, NoJob)
      <3>1. PICK pull \in RefTask : pull = refPull
        BY DEF RefTyped
      <3>2. next = [pull EXCEPT !.stage = "reading", !.todo = todo, !.pipeline = NoPipeline, !.job = NoJob]
        BY <2>2, <3>1
      <3>3. next = Pull("reading", pull.copy, todo, NoPipeline, NoJob)
        BY <3>2 DEF Pull, RefTask
      <3> QED
        BY <3>1, <3>3
    <2>4. todo \in Seq(Nat) /\ todo # <<>> /\ \A i \in 1..Len(todo) : todo[i] \in 1..Len(pipelines)
      <3>1. /\ todo \in Seq(Nat) /\ Len(todo) # 0
            /\ \A i \in 1..Len(todo) : todo[i] \in 1..Len(pipelines)
        BY <1>2, <2>1, RefTodo
      <3>2. Len(<<>>) = 0
        BY EmptySeq
      <3> QED
        BY <3>1, <3>2
    <2>5. "reading" \in RefStages /\ NoPipeline \in Pipeline /\ NoJob \in LastJob
      BY RefRecords DEF RefStages
    <2>6. /\ next \in RefTask /\ next.stage = "reading" /\ next.copy = refPull.copy /\ next.todo = todo
          /\ next.pipeline = NoPipeline
      BY <2>3, <2>4, <2>5, RefFacts, PullIs
    <2>7. OfPipelines(next, Len(pipelines))
      <3>1. refPull.copy.stored /\ refPull.copy.latest.id <= Len(pipelines)
        BY DEF OfPipelines, RefRelated, Busy
      <3>2. next.pipeline.id <= Len(pipelines)
        <4>1. NoPipeline.id = 0 /\ Len(pipelines) \in Nat
          BY RefFacts, RefRecords
        <4> QED
          BY <2>6, <4>1
      <3> QED
        BY <2>4, <2>6, <3>1, <3>2 DEF OfPipelines, HasRead
    <2> QED
      BY <1>2, <2>1, <2>3, <2>6, <2>7
  <1> QED
    BY <1>1, <1>2

\* The shape that steps of the pull have: the same copy and list, another stage.
LEMMA PullMoves ==
    ASSUME RefTyped, RefRelated, NEW stage \in RefStages, NEW copy \in RefRecord, NEW pipeline \in Pipeline,
           NEW job \in LastJob, NEW next, next = Pull(stage, copy, refPull.todo, pipeline, job),
           copy.stored, copy.latest.id <= Len(pipelines), pipeline.id <= Len(pipelines),
           stage \notin {"idle", "queued", "listing"} => refPull.todo # <<>>,
           stage \in {"variables", "storing", "writing", "jobs", "job", "report"} => pipeline.id = Current
    PROVE  next \in RefTask /\ OfPipelines(next, Len(pipelines))
  <1>1. /\ next \in RefTask /\ next.stage = stage /\ next.copy = copy /\ next.todo = refPull.todo
        /\ next.pipeline = pipeline
    BY RefFacts, PullIs
  <1> QED
    BY <1>1 DEF OfPipelines, Busy, HasRead, RefRelated, Current

\* The types hold when the exporter starts.
LEMMA RefTypedInit ==
    ASSUME RefInit, settings \in RefSettings
    PROVE  RefTyped /\ RefRelated
  <1>1. /\ pipelines = <<>> /\ ref = NoRef /\ variables = <<>> /\ refPull = NoRefPull /\ snapshot = NoRef
        /\ drops = 0 /\ disturbed = FALSE
    BY DEF RefInit
  <1>2. <<>> \in Seq(Job) /\ Len(<<>>) = 0 /\ DOMAIN variables = {}
    BY <1>1, EmptySeq
  <1>3. drops \in 0..MaxDrops
    BY <1>1, RefBoundsAssumption
  <1>4. RefTyped
    BY <1>1, <1>2, <1>3, RefRecords DEF RefTyped
  <1>5. /\ settings.pipelines \in Nat /\ Len(pipelines) = 0 /\ NoRef.latest.id = 0
        /\ OfPipelines(refPull, Len(pipelines))
    BY <1>1, <1>2, RefRecords, NoPullOf DEF RefSettings
  <1>6. RefRelated
    BY <1>1, <1>2, <1>5 DEF RefRelated
  <1> QED
    BY <1>4, <1>6

\* GitLab and the store change, the pull does not.
LEMMA RefOthersTyped ==
    ASSUME RefTyped, RefRelated, RefOthers
    PROVE  RefTyped' /\ RefRelated'
  <1>0. Len(pipelines) \in Nat /\ settings.pipelines \in Nat /\ ref.latest.id \in Nat /\ snapshot.latest.id \in Nat
    BY RefFacts
  <1>1. CASE CreatePipeline
    <2>1. PICK status \in statusesList :
             pipelines' = Append(pipelines, [JobOf(Len(pipelines) + 1, 0) EXCEPT !.status = status])
      BY <1>1 DEF CreatePipeline, statusesList
    <2>2. PICK job : job = [JobOf(Len(pipelines) + 1, 0) EXCEPT !.status = status]
      OBVIOUS
    <2>3. job \in Job
      <3>1. Len(pipelines) + 1 \in Nat
        BY <1>0
      <3> QED
        BY <2>2, <3>1, JobOfIs
    <2>4. pipelines' \in Seq(Job) /\ Len(pipelines') = Len(pipelines) + 1
      BY <2>1, <2>2, <2>3, AppendProperties DEF RefTyped
    <2>5. UNCHANGED <<settings, ref, variables, refPull, snapshot, drops, disturbed>> /\ Len(pipelines) < settings.pipelines
      BY <1>1 DEF CreatePipeline
    <2>6. OfPipelines(refPull, Len(pipelines) + 1)
      <3>1. refPull \in RefTask /\ OfPipelines(refPull, Len(pipelines)) /\ Len(pipelines) + 1 \in Nat
            /\ Len(pipelines) <= Len(pipelines) + 1
        <4>1. refPull \in RefTask /\ OfPipelines(refPull, Len(pipelines))
          BY DEF RefTyped, RefRelated
        <4>2. Len(pipelines) + 1 \in Nat /\ Len(pipelines) <= Len(pipelines) + 1
          BY <1>0
        <4> QED
          BY <4>1, <4>2
      <3> QED
        BY <1>0, <3>1, OfMore
    <2>7. DOMAIN variables \subseteq 1..(Len(pipelines) + 1)
      <3>1. DOMAIN variables \subseteq 1..Len(pipelines)
        BY DEF RefRelated
      <3>2. 1..Len(pipelines) \subseteq 1..(Len(pipelines) + 1)
        BY <1>0
      <3> QED
        BY <3>1, <3>2
    <2>8. RefTyped'
      BY <2>4, <2>5 DEF RefTyped
    <2>9. Len(pipelines') <= settings.pipelines
      BY <1>0, <2>4, <2>5
    <2>10. ref.latest.id <= Len(pipelines') /\ snapshot.latest.id <= Len(pipelines')
      <3>1. ref.latest.id <= Len(pipelines) /\ snapshot.latest.id <= Len(pipelines)
        BY DEF RefRelated
      <3> QED
        BY <1>0, <2>4, <3>1
    <2>11. RefRelated'
      BY <2>4, <2>5, <2>6, <2>7, <2>9, <2>10 DEF RefRelated
    <2> QED
      BY <2>8, <2>11
  <1>2. ASSUME NEW p \in DOMAIN pipelines, ChangeJob(p)
        PROVE  RefTyped' /\ RefRelated'
    <2>1. p \in 1..Len(pipelines) /\ pipelines[p] \in Job /\ pipelines \in Seq(Job)
      BY <1>2, LenProperties, ElementOfSeq DEF RefTyped
    <2>2. PICK job \in Job : pipelines' = [pipelines EXCEPT ![p] = job]
      <3>1. PICK former \in Job : former = pipelines[p]
        BY <2>1
      <3>2. ASSUME NEW status \in statusesList
            PROVE  [former EXCEPT !.status = status] \in Job
        BY DEF Job
      <3>3. [former EXCEPT !.status = "failed", !.reason = "script_failure"] \in Job
        BY DEF Job, statusesList
      <3>4. JobOf(p, 1) \in Job
        <4>1. p \in Nat
          BY <2>1, <1>0
        <4> QED
          BY <4>1, JobOfIs
      <3>5. \/ pipelines' = [pipelines EXCEPT ![p] = [former EXCEPT !.status = "running"]]
            \/ pipelines' = [pipelines EXCEPT ![p] = [former EXCEPT !.status = "success"]]
            \/ pipelines' = [pipelines EXCEPT ![p] = [former EXCEPT !.status = "failed", !.reason = "script_failure"]]
            \/ pipelines' = [pipelines EXCEPT ![p] = JobOf(p, 1)]
        BY <1>2, <3>1 DEF ChangeJob
      <3>6. "running" \in statusesList /\ "success" \in statusesList
        BY DEF statusesList
      <3> QED
        BY <3>2, <3>3, <3>4, <3>5, <3>6
    <2>3. pipelines' \in Seq(Job) /\ Len(pipelines') = Len(pipelines)
      BY <2>1, <2>2, ExceptSeq
    <2>4. UNCHANGED <<settings, ref, variables, refPull, snapshot, drops, disturbed>>
      BY <1>2 DEF ChangeJob
    <2> QED
      BY <2>3, <2>4 DEF RefTyped, RefRelated
  <1>3. CASE DiscoverRef
    <2>1. PICK sparse \in BOOLEAN : ref' = [NoRef EXCEPT !.stored = TRUE, !.sparse = sparse]
      BY <1>3, RefFacts DEF DiscoverRef
    <2>2. ref' \in RefRecord /\ ref'.latest = NoRef.latest
      BY <2>1, NoRefIs DEF RefRecord
    <2>3. ref'.latest.id <= Len(pipelines)
      BY <2>2, <1>0, NoRefIs
    <2> QED
      BY <1>3, <2>2, <2>3 DEF DiscoverRef, RefTyped, RefRelated
  <1>4. CASE DropRef
    <2>1. ref' \in RefRecord /\ ref'.latest.id <= Len(pipelines)
      BY <1>4, <1>0, NoRefIs DEF DropRef
    <2>2. drops' \in 0..MaxDrops /\ disturbed' \in BOOLEAN
      BY <1>4, RefBoundsAssumption DEF DropRef, RefTyped
    <2> QED
      BY <1>4, <2>1, <2>2 DEF DropRef, RefTyped, RefRelated
  <1>5. CASE SnapshotRef
    <2>1. snapshot' \in RefRecord /\ snapshot'.latest = ref.latest
      BY <1>5, RefFacts, RefEdits DEF SnapshotRef, RefTyped
    <2>2. drops' \in 0..MaxDrops
      BY <1>5, RefBoundsAssumption DEF SnapshotRef, RefTyped
    <2> QED
      BY <1>5, <2>1, <2>2 DEF SnapshotRef, RefTyped, RefRelated
  <1>6. CASE WriteSnapshotBack
    <2>1. snapshot' \in RefRecord /\ snapshot'.latest.id <= Len(pipelines)
      BY <1>6, <1>0, NoRefIs DEF WriteSnapshotBack
    <2>2. disturbed' \in BOOLEAN
      BY <1>6 DEF WriteSnapshotBack, RefTyped
    <2> QED
      BY <1>6, <2>1, <2>2 DEF WriteSnapshotBack, RefTyped, RefRelated
  <1> QED
    BY <1>1, <1>2, <1>3, <1>4, <1>5, <1>6 DEF RefOthers

\* The pull goes on as ASSUMEd, GitLab and the store but the ref and the variables stay.
LEMMA PullTyped ==
    ASSUME RefTyped, RefRelated, UNCHANGED pulledVars,
           refPull' \in RefTask, OfPipelines(refPull', Len(pipelines)),
           ref' \in RefRecord, ref'.latest.id <= Len(pipelines),
           variables' = variables \/ (DOMAIN variables' \subseteq 1..Len(pipelines)
                                        /\ \A p \in DOMAIN variables' : variables'[p] \in {"", "v"})
    PROVE  RefTyped' /\ RefRelated'
  BY DEF pulledVars, RefTyped, RefRelated

\* Listed are pipelines of the ref; with per_ref 1 the latest one alone.
LEMMA ListedTodo ==
    ASSUME RefTyped, NEW todo, todo = ListPipelines
    PROVE  /\ todo \in Seq(Nat) /\ \A i \in 1..Len(todo) : todo[i] \in 1..Len(pipelines)
           /\ settings.perRef = 1 => todo = <<>> \/ (Len(todo) = 1 /\ Head(todo) = Len(pipelines))
  <1> DEFINE n == Len(pipelines)
             count == IF settings.merged THEN 1 ELSE settings.perRef
             length == IF n < count THEN n ELSE count
             f == [i \in 1..length |-> IF n < count THEN i ELSE n - count + i]
  <1>1. n \in Nat /\ count \in Nat \ {0} /\ settings.perRef \in Nat \ {0} /\ length \in Nat
    BY RefFacts
  <1>2. todo = f
    BY DEF ListPipelines
  <1>3. \A i \in 1..length : f[i] \in 1..n
    BY <1>1
  <1>4. f \in [1..length -> Nat]
    BY <1>1
  <1>5. f \in Seq(Nat) /\ Len(f) = length
    BY <1>1, <1>4
  <1>6. ASSUME settings.perRef = 1
        PROVE  todo = <<>> \/ (Len(todo) = 1 /\ Head(todo) = n)
    <2>1. count = 1
      BY <1>6
    <2>2. CASE n = 0
      BY <2>1, <2>2, <1>2, <1>5, EmptySeq
    <2>3. CASE n # 0
      <3>1. length = 1 /\ f[1] = n
        BY <2>1, <2>3, <1>1
      <3> HIDE DEF f, length
      <3> QED
        BY <3>1, <1>2, <1>5
    <2> QED
      BY <2>2, <2>3
  <1> HIDE DEF f
  <1> QED
    BY <1>2, <1>3, <1>5, <1>6

\* What the steps make of the pull, as long as they do not go on to the next pipeline.
Moved(stage) == Pull(stage, refPull.copy, refPull.todo, refPull.pipeline, refPull.job)

\* The pull moves on.
LEMMA MovedStage ==
    ASSUME RefTyped, NEW stage
    PROVE  [refPull EXCEPT !.stage = stage] = Moved(stage)
  <1>1. PICK pull \in RefTask : pull = refPull
    BY DEF RefTyped
  <1>2. [pull EXCEPT !.stage = stage] = Pull(stage, pull.copy, pull.todo, pull.pipeline, pull.job)
    BY DEF Pull, RefTask
  <1> QED
    BY <1>1, <1>2 DEF Moved

\* After its metrics a pipeline's test report is pulled, or the pipeline is done.
LEMMA ReportShape ==
    ASSUME RefTyped, NEW next, next = ReportOrNext
    PROVE  \/ next = Pull("report", refPull.copy, refPull.todo, refPull.pipeline, NoJob)
           \/ next = NextPipeline
  <1>1. PICK pull \in RefTask : pull = refPull
    BY DEF RefTyped
  <1>2. next = NextPipeline \/ next = [pull EXCEPT !.stage = "report", !.job = NoJob]
    BY <1>1 DEF ReportOrNext
  <1>3. ASSUME NEW reporting, reporting = [pull EXCEPT !.stage = "report", !.job = NoJob]
        PROVE  reporting = Pull("report", pull.copy, pull.todo, pull.pipeline, NoJob)
    BY <1>3 DEF Pull, RefTask
  <1> QED
    BY <1>1, <1>2, <1>3

\* A scheduled pull has a copy of the ref ...
LEMMA ScheduleShape ==
    ASSUME RefTyped, ScheduleRefMetrics
    PROVE  refPull' = Pull("queued", ref, refPull.todo, refPull.pipeline, refPull.job)
  <1>1. PICK pull \in RefTask : pull = refPull
    BY DEF RefTyped
  <1>2. refPull' = [pull EXCEPT !.stage = "queued", !.copy = ref]
    BY <1>1 DEF ScheduleRefMetrics
  <1>3. refPull' = Pull("queued", ref, pull.todo, pull.pipeline, pull.job)
    BY <1>2 DEF Pull, RefTask
  <1> QED
    BY <1>1, <1>3

\* ... which is read again when it starts, if the ref is still stored.
LEMMA RefreshShape ==
    ASSUME RefTyped, RefreshRef
    PROVE  refPull' = Pull("listing", IF ref.stored THEN ref ELSE refPull.copy,
                           refPull.todo, refPull.pipeline, refPull.job)
  <1>1. PICK pull \in RefTask : pull = refPull
    BY DEF RefTyped
  <1>2. PICK copy : copy = IF ref.stored THEN ref ELSE pull.copy
    OBVIOUS
  <1>3. refPull' = [pull EXCEPT !.stage = "listing", !.copy = copy]
    BY <1>1, <1>2 DEF RefreshRef
  <1>4. refPull' = Pull("listing", copy, pull.todo, pull.pipeline, pull.job)
    BY <1>3 DEF Pull, RefTask
  <1> QED
    BY <1>1, <1>2, <1>4

\* What GetProjectPipelines leaves of the pull.
LEMMA ListShape ==
    ASSUME RefTyped, GetProjectPipelines
    PROVE  \/ refPull' = NoRefPull
           \/ /\ ListPipelines # <<>>
              /\ refPull' = Pull("reading", refPull.copy, ListPipelines, refPull.pipeline, refPull.job)
  <1>1. PICK pull \in RefTask : pull = refPull
    BY DEF RefTyped
  <1>2. PICK todo : todo = ListPipelines
    OBVIOUS
  <1>3. refPull' = NoRefPull \/ (todo # <<>> /\ refPull' = [pull EXCEPT !.stage = "reading", !.todo = todo])
    BY <1>1, <1>2 DEF GetProjectPipelines
  <1>4. ASSUME NEW next, next = [pull EXCEPT !.stage = "reading", !.todo = todo]
        PROVE  next = Pull("reading", pull.copy, todo, pull.pipeline, pull.job)
    BY <1>4 DEF Pull, RefTask
  <1> QED
    BY <1>1, <1>2, <1>3, <1>4

\* What GetRefPipeline leaves of it: the pipeline as GitLab has it, without variables.
LEMMA GetShape ==
    ASSUME RefTyped, RefRelated, GetRefPipeline
    PROVE  \/ refPull' = NextPipeline
           \/ \E pipeline \in Pipeline :
                 /\ pipeline.id = Current /\ pipeline.variables = ""
                 /\ refPull' = Pull(IF settings.variables THEN "variables" ELSE "storing",
                                    refPull.copy, refPull.todo, pipeline, refPull.job)
  <1>1. PICK pull \in RefTask : pull = refPull
    BY DEF RefTyped
  <1>2. PICK stage : stage = IF settings.variables THEN "variables" ELSE "storing"
    OBVIOUS
  <1>3. PICK pipeline : pipeline = NewPipeline(Current)
    OBVIOUS
  <1>4. refPull' = NextPipeline \/ refPull' = [pull EXCEPT !.stage = stage, !.pipeline = pipeline]
    BY <1>1, <1>2, <1>3 DEF GetRefPipeline
  <1>5. ASSUME NEW next, next = [pull EXCEPT !.stage = stage, !.pipeline = pipeline]
        PROVE  next = Pull(stage, pull.copy, pull.todo, pipeline, pull.job)
    BY <1>5 DEF Pull, RefTask
  <1>6. pipeline \in Pipeline /\ pipeline.id = Current /\ pipeline.variables = ""
    <2>1. Current \in 1..Len(pipelines) /\ Current \in Nat
      <3>1. Current \in 1..Len(pipelines)
        BY RefTodo DEF GetRefPipeline, Busy
      <3> QED
        BY <3>1, RefFacts
    <2>2. PICK id \in Nat : id = Current
      BY <2>1
    <2>3. pipelines[Current] \in Job
      BY <2>1, ElementOfSeq DEF RefTyped
    <2>4. PICK status \in statusesList : status = pipelines[Current].status
      BY <2>3 DEF Job
    <2>5. pipeline = [id |-> id, status |-> status, variables |-> ""]
      BY <1>3, <2>2, <2>4 DEF NewPipeline, NoPipeline
    <2> QED
      BY <2>2, <2>4, <2>5 DEF Pipeline
  <1> QED
    BY <1>1, <1>2, <1>4, <1>5, <1>6

\* What PullVariables leaves of it: the pipeline with the variables it was first seen with.
LEMMA VariablesShape ==
    ASSUME RefTyped, RefRelated, PullVariables
    PROVE  /\ variables' = variables \/ \E v \in {"", "v"} : variables' = VariablesWith(Current, v)
           /\ Current \in DOMAIN variables => variables' = variables
           /\ \/ refPull' = NextPipeline
              \/ \E pipeline \in Pipeline :
                    /\ pipeline.id = refPull.pipeline.id
                    /\ Current \in DOMAIN variables' /\ pipeline.variables = variables'[Current]
                    /\ refPull' = Pull("storing", refPull.copy, refPull.todo, pipeline, refPull.job)
  <1>1. PICK pull \in RefTask : pull = refPull
    BY DEF RefTyped
  <1>2. CASE Current \in DOMAIN variables
    <2>1. PICK v \in {"", "v"} : v = variables[Current]
      BY <1>2 DEF RefRelated
    <2>2. refPull' = [pull EXCEPT !.stage = "storing", !.pipeline.variables = v] /\ variables' = variables
      BY <1>1, <1>2, <2>1 DEF PullVariables
    <2>3. PICK pipeline \in Pipeline :
              /\ pipeline.id = pull.pipeline.id /\ pipeline.variables = v
              /\ refPull' = Pull("storing", pull.copy, pull.todo, pipeline, pull.job)
      <3>1. PICK next : next = refPull'
        OBVIOUS
      <3>2. next = [pull EXCEPT !.stage = "storing", !.pipeline.variables = v]
        BY <3>1, <2>1, <2>2
      <3>3. \E pipeline \in Pipeline :
                /\ pipeline.id = pull.pipeline.id /\ pipeline.variables = v
                /\ next = Pull("storing", pull.copy, pull.todo, pipeline, pull.job)
        <4>1. PICK pipeline : pipeline = [pull.pipeline EXCEPT !.variables = v]
          OBVIOUS
        <4>2. pipeline \in Pipeline /\ pipeline.id = pull.pipeline.id /\ pipeline.variables = v
          BY <4>1, TaskFields DEF Pipeline
        <4>3. next = [pull EXCEPT !.stage = "storing", !.pipeline = pipeline]
          BY <4>1, <3>2
        <4>4. next = Pull("storing", pull.copy, pull.todo, pipeline, pull.job)
          BY <4>3 DEF Pull, RefTask
        <4> QED
          BY <4>2, <4>4
      <3> QED
        BY <3>1, <3>3
    <2> QED
      BY <1>1, <1>2, <2>1, <2>2, <2>3
  <1>3. CASE Current \notin DOMAIN variables
    <2>1. \/ variables' = VariablesWith(Current, "") /\ refPull' = NextPipeline
          \/ /\ variables' = VariablesWith(Current, "v")
             /\ refPull' = [pull EXCEPT !.stage = "storing", !.pipeline.variables = "v"]
      BY <1>1, <1>3 DEF PullVariables
    <2>2. CASE refPull' = [pull EXCEPT !.stage = "storing", !.pipeline.variables = "v"]
                /\ variables' = VariablesWith(Current, "v")
      <3>1. PICK v \in {"", "v"} : v = "v"
        OBVIOUS
      <3>2. PICK pipeline \in Pipeline :
                /\ pipeline.id = pull.pipeline.id /\ pipeline.variables = v
                /\ refPull' = Pull("storing", pull.copy, pull.todo, pipeline, pull.job)
        <4>1. PICK next : next = refPull'
          OBVIOUS
        <4>2. next = [pull EXCEPT !.stage = "storing", !.pipeline.variables = v]
          BY <4>1, <2>2, <3>1
        <4>3. \E pipeline \in Pipeline :
                  /\ pipeline.id = pull.pipeline.id /\ pipeline.variables = v
                  /\ next = Pull("storing", pull.copy, pull.todo, pipeline, pull.job)
          <5>1. PICK pipeline : pipeline = [pull.pipeline EXCEPT !.variables = v]
            OBVIOUS
          <5>2. pipeline \in Pipeline /\ pipeline.id = pull.pipeline.id /\ pipeline.variables = v
            BY <5>1, TaskFields DEF Pipeline
          <5>3. next = [pull EXCEPT !.stage = "storing", !.pipeline = pipeline]
            BY <5>1, <4>2
          <5>4. next = Pull("storing", pull.copy, pull.todo, pipeline, pull.job)
            BY <5>3 DEF Pull, RefTask
          <5> QED
            BY <5>2, <5>4
        <4> QED
          BY <4>1, <4>3
      <3>3. Current \in DOMAIN variables' /\ variables'[Current] = "v"
        BY <2>2 DEF VariablesWith
      <3> QED
        BY <1>1, <1>3, <2>2, <3>1, <3>2, <3>3
    <2> QED
      BY <1>3, <2>1, <2>2
  <1> QED
    BY <1>2, <1>3

\* What PullRefPipelineJobsMetrics leaves of it.
LEMMA JobShape ==
    ASSUME RefTyped, RefRelated, PullRefPipelineJobsMetrics
    PROVE  \/ refPull' = NextPipeline
           \/ \E job \in LastJob :
                 refPull' = Pull("job", refPull.copy, refPull.todo, refPull.pipeline, job)
  <1>1. PICK pull \in RefTask : pull = refPull
    BY DEF RefTyped
  <1>2. PICK job : job = pipelines[Current]
    OBVIOUS
  <1>3. refPull' = NextPipeline \/ refPull' = [pull EXCEPT !.stage = "job", !.job = job]
    BY <1>1, <1>2 DEF PullRefPipelineJobsMetrics
  <1>4. ASSUME NEW next, next = [pull EXCEPT !.stage = "job", !.job = job]
        PROVE  next = Pull("job", pull.copy, pull.todo, pull.pipeline, job)
    BY <1>4 DEF Pull, RefTask
  <1>5. job \in LastJob
    <2>1. Current \in 1..Len(pipelines)
      BY RefTodo DEF PullRefPipelineJobsMetrics, Busy
    <2> QED
      BY <1>2, <2>1, ElementOfSeq DEF RefTyped, LastJob
  <1> QED
    BY <1>1, <1>3, <1>4, <1>5

\* The ref as the pull knows it.
LEMMA PulledRefIs ==
    ASSUME RefTyped
    PROVE  PulledRef \in RefRecord /\ PulledRef.latest = refPull.pipeline /\ PulledRef.stored = refPull.copy.stored
  <1>1. PICK copy \in RefRecord : copy = refPull.copy
    BY RefFacts
  <1>2. PICK r : r = [copy EXCEPT !.latest = refPull.pipeline]
    OBVIOUS
  <1>3. refPull.pipeline \in Pipeline
    BY RefFacts
  <1>4. r \in RefRecord /\ r.latest = refPull.pipeline /\ r.stored = copy.stored
    BY <1>2, <1>3, RefEdits
  <1> QED
    BY <1>1, <1>2, <1>4 DEF PulledRef

\* Fetching the variables of a pipeline leaves those of others alone.
LEMMA VariablesKept ==
    ASSUME RefTyped, RefRelated, Busy(refPull), NEW v \in {"", "v"}, NEW table, table = VariablesWith(Current, v)
    PROVE  /\ DOMAIN table \subseteq 1..Len(pipelines) /\ \A p \in DOMAIN table : table[p] \in {"", "v"}
           /\ Current \in DOMAIN table /\ DOMAIN variables \subseteq DOMAIN table
           /\ \A p \in DOMAIN variables : p # Current => table[p] = variables[p]
  <1>1. Current \in 1..Len(pipelines) /\ DOMAIN variables \subseteq 1..Len(pipelines)
        /\ \A p \in DOMAIN variables : variables[p] \in {"", "v"}
    BY RefTodo DEF RefRelated
  <1> QED
    BY <1>1 DEF VariablesWith

\* A step of the pull keeps the types.
LEMMA RefPullTyped ==
    ASSUME RefTyped, RefRelated, RefPullStep
    PROVE  RefTyped' /\ RefRelated'
  <1>0. /\ ref \in RefRecord /\ ref.latest.id <= Len(pipelines)
        /\ OfPipelines(refPull, Len(pipelines))
        /\ refPull.copy \in RefRecord /\ refPull.pipeline \in Pipeline /\ refPull.job \in LastJob
        /\ refPull.copy.latest.id <= Len(pipelines) /\ refPull.pipeline.id <= Len(pipelines)
        /\ NoJob \in LastJob /\ Len(pipelines) \in Nat
    BY RefFacts, RefRecords DEF RefTyped, RefRelated, OfPipelines
  <1>1. CASE ScheduleRefMetrics
    <2>1. refPull' \in RefTask /\ OfPipelines(refPull', Len(pipelines))
      <3>1. ref.stored /\ "queued" \in RefStages
        BY <1>1 DEF ScheduleRefMetrics, RefStages
      <3> QED
        BY <1>0, <1>1, <3>1, ScheduleShape, PullMoves
    <2> QED
      BY <1>0, <1>1, <2>1, PullTyped DEF ScheduleRefMetrics
  <1>2. CASE RefreshRef
    <2>1. refPull' \in RefTask /\ OfPipelines(refPull', Len(pipelines))
      <3>1. PICK copy \in RefRecord : copy = IF ref.stored THEN ref ELSE refPull.copy
        BY <1>0
      <3>2. copy.stored /\ copy.latest.id <= Len(pipelines) /\ "listing" \in RefStages
        BY <1>0, <1>2, <3>1 DEF RefreshRef, RefStages, OfPipelines
      <3>3. refPull' = Pull("listing", copy, refPull.todo, refPull.pipeline, refPull.job)
        BY <1>2, <3>1, RefreshShape
      <3> QED
        BY <1>0, <3>2, <3>3, PullMoves
    <2> QED
      BY <1>0, <1>2, <2>1, PullTyped DEF RefreshRef
  <1>3. CASE GetProjectPipelines
    <2>1. refPull' \in RefTask /\ OfPipelines(refPull', Len(pipelines))
      <3>1. CASE refPull' = NoRefPull
        BY <1>0, <3>1, NoPullOf, RefRecords
      <3>2. CASE refPull' = Pull("reading", refPull.copy, ListPipelines, refPull.pipeline, refPull.job)
                  /\ ListPipelines # <<>>
        <4>1. PICK todo \in Seq(Nat) : todo = ListPipelines /\ \A i \in 1..Len(todo) : todo[i] \in 1..Len(pipelines)
          BY ListedTodo
        <4>2. "reading" \in RefStages
          BY DEF RefStages
        <4>3. refPull' \in RefTask /\ refPull'.stage = "reading" /\ refPull'.copy = refPull.copy
              /\ refPull'.todo = todo /\ refPull'.pipeline = refPull.pipeline
          BY <1>0, <3>2, <4>1, <4>2, PullIs
        <4>4. refPull.copy.stored
          BY <1>0, <1>3 DEF GetProjectPipelines, OfPipelines
        <4> QED
          BY <1>0, <3>2, <4>1, <4>3, <4>4 DEF OfPipelines, Busy, HasRead
      <3> QED
        BY <1>3, <3>1, <3>2, ListShape
    <2> QED
      BY <1>0, <1>3, <2>1, PullTyped DEF GetProjectPipelines
  <1>4. ASSUME Busy(refPull), refPull' = NextPipeline
        PROVE  refPull' \in RefTask /\ OfPipelines(refPull', Len(pipelines))
    BY <1>4, NextPull
  <1>a. ASSUME Busy(refPull)
        PROVE  refPull.copy.stored /\ refPull.todo # <<>> /\ Current \in 1..Len(pipelines)
    BY <1>a, <1>0, RefTodo DEF OfPipelines, Busy
  <1>b. ASSUME HasRead(refPull)
        PROVE  refPull.pipeline.id = Current
    BY <1>b, <1>0 DEF OfPipelines, Current
  <1>5. CASE GetRefPipeline
    <2>0. Busy(refPull)
      BY <1>5 DEF GetRefPipeline, Busy
    <2>1. refPull' \in RefTask /\ OfPipelines(refPull', Len(pipelines))
      <3>1. CASE refPull' = NextPipeline
        BY <1>4, <2>0, <3>1
      <3>2. CASE refPull' # NextPipeline
        <4>1. PICK pipeline \in Pipeline :
                 /\ pipeline.id = Current
                 /\ refPull' = Pull(IF settings.variables THEN "variables" ELSE "storing",
                                    refPull.copy, refPull.todo, pipeline, refPull.job)
          BY <1>5, <3>2, GetShape
        <4>2. PICK stage \in RefStages : stage = IF settings.variables THEN "variables" ELSE "storing"
          BY DEF RefStages
        <4>3. pipeline.id <= Len(pipelines)
          BY <1>0, <1>a, <2>0, <4>1
        <4> QED
          BY <1>0, <1>a, <2>0, <4>1, <4>2, <4>3, PullMoves
      <3> QED
        BY <3>1, <3>2
    <2> QED
      BY <1>0, <1>5, <2>1, PullTyped DEF GetRefPipeline
  <1>6. CASE PullVariables
    <2>0. Busy(refPull) /\ HasRead(refPull)
      BY <1>6 DEF PullVariables, Busy, HasRead
    <2>1. refPull' \in RefTask /\ OfPipelines(refPull', Len(pipelines))
      <3>1. CASE refPull' = NextPipeline
        BY <1>4, <2>0, <3>1
      <3>2. CASE refPull' # NextPipeline
        <4>1. PICK pipeline \in Pipeline :
                 /\ pipeline.id = refPull.pipeline.id
                 /\ refPull' = Pull("storing", refPull.copy, refPull.todo, pipeline, refPull.job)
          BY <1>6, <3>2, VariablesShape
        <4>2. "storing" \in RefStages
          BY DEF RefStages
        <4> QED
          BY <1>0, <1>a, <1>b, <2>0, <4>1, <4>2, PullMoves
      <3> QED
        BY <3>1, <3>2
    <2>2. variables' = variables \/ (DOMAIN variables' \subseteq 1..Len(pipelines)
                                        /\ \A p \in DOMAIN variables' : variables'[p] \in {"", "v"})
      <3>1. PICK v \in {"", "v"} : variables' = variables \/ variables' = VariablesWith(Current, v)
        BY <1>6, VariablesShape
      <3> QED
        BY <2>0, <3>1, VariablesKept
    <2> QED
      BY <1>0, <1>6, <2>1, <2>2, PullTyped DEF PullVariables
  <1>7. CASE StorePipeline
    <2>0. Busy(refPull) /\ HasRead(refPull)
      BY <1>7 DEF StorePipeline, Busy, HasRead
    <2>1. refPull' \in RefTask /\ OfPipelines(refPull', Len(pipelines))
      <3>1. refPull' = Moved("writing")
        BY <1>7, MovedStage DEF StorePipeline
      <3>2. "writing" \in RefStages
        BY DEF RefStages
      <3> QED
        BY <1>0, <1>a, <1>b, <2>0, <3>1, <3>2, PullMoves DEF Moved
    <2>2. ref' = PulledRef
      BY <1>7 DEF StorePipeline, PulledRef
    <2> QED
      BY <1>0, <1>7, <2>1, <2>2, PullTyped, PulledRefIs DEF StorePipeline
  <1>c. ASSUME Busy(refPull), HasRead(refPull), refPull' = ReportOrNext
        PROVE  refPull' \in RefTask /\ OfPipelines(refPull', Len(pipelines))
    <2>1. CASE refPull' = NextPipeline
      BY <1>4, <1>c, <2>1
    <2>2. CASE refPull' = Pull("report", refPull.copy, refPull.todo, refPull.pipeline, NoJob)
      <3>2. "report" \in RefStages
        BY DEF RefStages
      <3> QED
        BY <1>0, <1>a, <1>b, <1>c, <2>2, <3>2, PullMoves
    <2> QED
      BY <1>c, <2>1, <2>2, ReportShape
  <1>8. CASE WritePipelineMetrics
    <2>0. Busy(refPull) /\ HasRead(refPull)
      BY <1>8 DEF WritePipelineMetrics, Busy, HasRead
    <2>1. refPull' \in RefTask /\ OfPipelines(refPull', Len(pipelines))
      <3>1. CASE refPull' = Moved("jobs")
        <4>2. "jobs" \in RefStages
          BY DEF RefStages
        <4> QED
          BY <1>0, <1>a, <1>b, <2>0, <3>1, <4>2, PullMoves DEF Moved
      <3> QED
        BY <1>8, <1>c, <2>0, <3>1, MovedStage DEF WritePipelineMetrics
    <2> QED
      BY <1>0, <1>8, <2>1, PullTyped DEF WritePipelineMetrics
  <1>9. CASE PullRefPipelineJobsMetrics
    <2>0. Busy(refPull) /\ HasRead(refPull)
      BY <1>9 DEF PullRefPipelineJobsMetrics, Busy, HasRead
    <2>1. refPull' \in RefTask /\ OfPipelines(refPull', Len(pipelines))
      <3>1. CASE refPull' # NextPipeline
        <4>1. PICK job \in LastJob : refPull' = Pull("job", refPull.copy, refPull.todo, refPull.pipeline, job)
          BY <1>9, <3>1, JobShape
        <4>2. "job" \in RefStages
          BY DEF RefStages
        <4> QED
          BY <1>0, <1>a, <1>b, <2>0, <4>1, <4>2, PullMoves
      <3> QED
        BY <1>4, <2>0, <3>1
    <2> QED
      BY <1>0, <1>9, <2>1, PullTyped DEF PullRefPipelineJobsMetrics
  <1>10. CASE ProcessJobMetrics
    <2>0. Busy(refPull) /\ HasRead(refPull)
      BY <1>10 DEF ProcessJobMetrics, Busy, HasRead
    <2>1. refPull' \in RefTask /\ OfPipelines(refPull', Len(pipelines))
      BY <1>10, <1>c, <2>0 DEF ProcessJobMetrics
    <2>2. ref' \in RefRecord /\ ref'.latest.id <= Len(pipelines)
      <3>1. PICK current \in RefRecord : current = IF ref.stored THEN ref ELSE PulledRef
        BY <1>0, PulledRefIs
      <3>2. current.latest.id <= Len(pipelines)
        BY <1>0, <3>1, PulledRefIs
      <3>3. ref' = ref \/ ref' = [current EXCEPT !.job = refPull.job]
        BY <1>10, <3>1 DEF ProcessJobMetrics
      <3>4. PICK r : r = [current EXCEPT !.job = refPull.job]
        OBVIOUS
      <3>5. r \in RefRecord /\ r.latest = current.latest
        BY <1>0, <3>4, RefEdits
      <3> QED
        BY <1>0, <3>2, <3>3, <3>4, <3>5
    <2> QED
      BY <1>0, <1>10, <2>1, <2>2, PullTyped DEF ProcessJobMetrics
  <1>11. CASE PullTestReport
    <2>0. Busy(refPull)
      BY <1>11 DEF PullTestReport, Busy
    <2>1. refPull' \in RefTask /\ OfPipelines(refPull', Len(pipelines))
      BY <1>4, <1>11, <2>0 DEF PullTestReport
    <2> QED
      BY <1>0, <1>11, <2>1, PullTyped DEF PullTestReport
  <1> QED
    BY <1>1, <1>2, <1>3, <1>5, <1>6, <1>7, <1>8, <1>9, <1>10, <1>11 DEF RefPullStep

\* Every step of a ref does.
LEMMA RefTypedStep ==
    ASSUME RefTyped, RefRelated, RefStep
    PROVE  RefTyped' /\ RefRelated'
  BY RefPullTyped, RefOthersTyped DEF RefStep

-----------------------------------------------------------------------------
\* Refs: their metrics.

RefKinds == PipelineKinds \cup JobKinds \cup TestReportKinds \cup TestSuiteKinds \cup TestCaseKinds

\* The labels of the collectors of a ref's metrics (collectors.go).
LEMMA RefCollectors ==
    /\ \A kind \in PipelineKinds :
          NewRegistry[kind] = {"project", "topics", "kind", "ref", "source", "variables", "pipeline_id", "status"}
    /\ \A kind \in JobKinds :
          NewRegistry[kind] = {"project", "topics", "kind", "ref", "source", "variables", "stage", "job_name",
                               "runner_description", "tag_list", "pipeline_id", "job_id", "status", "failure_reason"}
    /\ \A kind \in TestReportKinds :
          NewRegistry[kind] = {"project", "topics", "kind", "ref", "source", "variables"}
    /\ \A kind \in TestSuiteKinds :
          NewRegistry[kind] = {"project", "topics", "kind", "ref", "source", "variables", "test_suite_name"}
    /\ NewRegistry["TestCaseExecutionTime"]
         = {"project", "topics", "kind", "ref", "source", "variables", "test_suite_name", "test_case_name",
            "test_case_classname"}
    /\ NewRegistry["TestCaseStatus"]
         = {"project", "topics", "kind", "ref", "source", "variables", "test_suite_name", "test_case_name",
            "test_case_classname", "status"}
  <1>1. ASSUME NEW kind \in PipelineKinds
        PROVE  NewRegistry[kind] = DefaultLabels \cup PipelineLabels
    <2>1. CASE kind \in PipelineGaugeKinds
      BY <2>1 DEF NewRegistry, PipelineGauges, Collector, PipelineKinds, PipelineGaugeKinds, RunKinds, JobKinds,
                  EnvironmentKinds, RunnerKinds, TestReportKinds, TestSuiteKinds, TestCaseKinds
    <2>2. CASE kind = "ID"
      BY <2>2 DEF NewRegistry, PipelineIDs, Collector, PipelineKinds, PipelineGaugeKinds, RunKinds, JobKinds,
                  EnvironmentKinds, RunnerKinds, TestReportKinds, TestSuiteKinds, TestCaseKinds
    <2>3. CASE kind \in RunKinds
      <3>1. /\ kind \notin PipelineGaugeKinds /\ kind # "ID" /\ kind \notin JobKinds /\ kind \notin EnvironmentKinds
            /\ kind \notin RunnerKinds /\ kind \notin TestReportKinds /\ kind \notin TestSuiteKinds
            /\ kind \notin TestCaseKinds
        BY <2>3 DEF PipelineGaugeKinds, RunKinds, JobKinds, EnvironmentKinds, RunnerKinds, TestReportKinds,
                    TestSuiteKinds, TestCaseKinds
      <3> QED
        BY <2>3, <3>1 DEF NewRegistry, RunGauges, Collector, PipelineKinds
    <2> QED
      BY <2>1, <2>2, <2>3 DEF PipelineKinds
  <1>2. ASSUME NEW kind \in JobKinds
        PROVE  NewRegistry[kind] = DefaultLabels \cup JobLabels
    <2>1. /\ kind \notin PipelineGaugeKinds /\ kind # "ID" /\ kind \notin RunKinds /\ kind \notin EnvironmentKinds
          /\ kind \notin RunnerKinds /\ kind \notin TestReportKinds /\ kind \notin TestSuiteKinds
          /\ kind \notin TestCaseKinds
      BY DEF PipelineGaugeKinds, RunKinds, JobKinds, EnvironmentKinds, RunnerKinds, TestReportKinds,
             TestSuiteKinds, TestCaseKinds
    <2> QED
      BY <2>1 DEF NewRegistry, JobGauges, Collector
  <1>3. ASSUME NEW kind \in TestReportKinds
        PROVE  NewRegistry[kind] = DefaultLabels
    <2>1. /\ kind \notin PipelineGaugeKinds /\ kind # "ID" /\ kind \notin RunKinds /\ kind \notin EnvironmentKinds
          /\ kind \notin RunnerKinds /\ kind \notin JobKinds /\ kind \notin TestSuiteKinds
          /\ kind \notin TestCaseKinds
      BY DEF PipelineGaugeKinds, RunKinds, JobKinds, EnvironmentKinds, RunnerKinds, TestReportKinds,
             TestSuiteKinds, TestCaseKinds
    <2> QED
      BY <2>1 DEF NewRegistry, TestReportGauges, Collector
  <1>4. ASSUME NEW kind \in TestSuiteKinds
        PROVE  NewRegistry[kind] = DefaultLabels \cup TestSuiteLabels
    <2>1. /\ kind \notin PipelineGaugeKinds /\ kind # "ID" /\ kind \notin RunKinds /\ kind \notin EnvironmentKinds
          /\ kind \notin RunnerKinds /\ kind \notin JobKinds /\ kind \notin TestReportKinds
          /\ kind \notin TestCaseKinds
      BY DEF PipelineGaugeKinds, RunKinds, JobKinds, EnvironmentKinds, RunnerKinds, TestReportKinds,
             TestSuiteKinds, TestCaseKinds
    <2> QED
      BY <2>1 DEF NewRegistry, TestSuiteGauges, Collector
  <1>5. ASSUME NEW kind \in TestCaseKinds
        PROVE  NewRegistry[kind] = TestCaseGauges[kind]
    <2>1. /\ kind \notin PipelineGaugeKinds /\ kind # "ID" /\ kind \notin RunKinds /\ kind \notin EnvironmentKinds
          /\ kind \notin RunnerKinds /\ kind \notin JobKinds /\ kind \notin TestReportKinds
          /\ kind \notin TestSuiteKinds
      BY DEF PipelineGaugeKinds, RunKinds, JobKinds, EnvironmentKinds, RunnerKinds, TestReportKinds,
             TestSuiteKinds, TestCaseKinds
    <2> QED
      BY <2>1 DEF NewRegistry
  <1>6. "TestCaseExecutionTime" \in TestCaseKinds /\ "TestCaseStatus" \in TestCaseKinds
    BY DEF TestCaseKinds
  <1>7. NewRegistry["TestCaseExecutionTime"] = DefaultLabels \cup TestSuiteLabels \cup TestCaseLabels
    BY <1>5, <1>6 DEF TestCaseGauges
  <1>8. NewRegistry["TestCaseStatus"] = DefaultLabels \cup TestSuiteLabels \cup TestCaseLabels \cup {"status"}
    BY <1>5, <1>6 DEF TestCaseGauges
  <1>9. /\ \A kind \in PipelineKinds :
            NewRegistry[kind] = {"project", "topics", "kind", "ref", "source", "variables", "pipeline_id", "status"}
    BY <1>1 DEF DefaultLabels, PipelineLabels
  <1>10. \A kind \in JobKinds :
          NewRegistry[kind] = {"project", "topics", "kind", "ref", "source", "variables", "stage", "job_name",
                               "runner_description", "tag_list", "pipeline_id", "job_id", "status", "failure_reason"}
    BY <1>2 DEF DefaultLabels, JobLabels
  <1>11. \A kind \in TestSuiteKinds :
          NewRegistry[kind] = {"project", "topics", "kind", "ref", "source", "variables", "test_suite_name"}
    BY <1>4 DEF DefaultLabels, TestSuiteLabels
  <1>12. \A kind \in TestReportKinds :
          NewRegistry[kind] = {"project", "topics", "kind", "ref", "source", "variables"}
    BY <1>3 DEF DefaultLabels
  <1> QED
    BY <1>7, <1>8, <1>9, <1>10, <1>11, <1>12 DEF DefaultLabels, TestSuiteLabels, TestCaseLabels

\* Runs are told apart by their pipeline and its variables.
LEMMA RunIsKeyed ==
    /\ "pipeline_id" \in KeyLabels("RunCount") /\ "variables" \in KeyLabels("RunCount")
    /\ "pipeline_id" \in NewRegistry["RunCount"] /\ "variables" \in NewRegistry["RunCount"]
  <1>1. PICK kind : kind = "RunCount"
    OBVIOUS
  <1>2. /\ kind \in PipelineKinds \cup TestReportKinds /\ kind \notin JobKinds /\ kind \notin EnvironmentKinds
        /\ kind \notin TestSuiteKinds /\ kind \notin TestCaseKinds
        /\ kind # "RunnerProjectInfo" /\ kind # "RunnerTagInfo" /\ kind # "RunnerGroupInfo"
        /\ kind \in PipelineKinds
    BY <1>1 DEF PipelineKinds, RunKinds, JobKinds, EnvironmentKinds, TestSuiteKinds, TestCaseKinds
  <1>3. KeyLabels(kind) = {"project", "kind", "ref", "source", "variables", "pipeline_id", "status"}
    BY <1>2 DEF KeyLabels
  <1>4. NewRegistry[kind] = {"project", "topics", "kind", "ref", "source", "variables", "pipeline_id", "status"}
    BY <1>2, RefCollectors
  <1> QED
    BY <1>1, <1>3, <1>4

\* The labels that a ref's metrics are written with are those of their collectors.
LEMMA RefLabelDomains ==
    ASSUME NEW pipeline, NEW job
    PROVE  /\ DOMAIN PipelineLabelsValues(pipeline)
                = {"project", "topics", "kind", "ref", "source", "variables", "pipeline_id", "status"}
           /\ PipelineLabelsValues(pipeline).pipeline_id = pipeline.id
           /\ PipelineLabelsValues(pipeline).variables = pipeline.variables
           /\ DOMAIN JobLabelsValues(pipeline, job)
                = {"project", "topics", "kind", "ref", "source", "variables", "stage", "job_name",
                   "runner_description", "tag_list", "pipeline_id", "job_id", "status", "failure_reason"}
           /\ DOMAIN DefaultLabelsValues(pipeline) = {"project", "topics", "kind", "ref", "source", "variables"}
           /\ DOMAIN TestSuiteLabelsValues(pipeline)
                = {"project", "topics", "kind", "ref", "source", "variables", "test_suite_name"}
           /\ DOMAIN TestCaseLabelsValues(pipeline)
                = {"project", "topics", "kind", "ref", "source", "variables", "test_suite_name", "test_case_name",
                   "test_case_classname"}
           /\ DOMAIN TestCaseStatusLabelsValues(pipeline)
                = {"project", "topics", "kind", "ref", "source", "variables", "test_suite_name", "test_case_name",
                   "test_case_classname", "status"}
  BY DEF PipelineLabelsValues, JobLabelsValues, DefaultLabelsValues, TestSuiteLabelsValues, TestCaseLabelsValues,
         TestCaseStatusLabelsValues

\* What a list of gauges, one of each kind, makes of a table.
LEMMA OneOfEachKind ==
    ASSUME NEW table, Right(table), NEW new, \A x \in new : Sound(x) /\ x.kind \notin StatusKinds,
           \A m, n \in new : m.kind = n.kind => m = n
    PROVE  Right(SetMetrics(table, new))
  <1>1. KeysDiffer(new)
    BY DEF KeysDiffer
  <1> QED
    BY <1>1, WrittenRight

OneRun == {"RunCount"}

\* The metrics of a pipeline are written: its run counter ...
StoredRun == GetMetric(metrics, Metric("RunCount", PipelineLabelsValues(refPull.pipeline), 0))
NewRuns ==
    IF CountRun(refPull.copy.latest, refPull.pipeline) /\ StoredRun.value < MaxRuns
    THEN StoredRun.value + 1 ELSE StoredRun.value
CountedRun == [StoredRun EXCEPT !.value = NewRuns]
PipelineGaugesWritten ==
    Gauges(PipelineGaugeKinds \cup {"ID", "Timestamp"}, PipelineLabelsValues(refPull.pipeline), refPull.pipeline.id)

\* What WritePipelineMetrics writes.
LEMMA PipelineWriteIs ==
    ASSUME WritePipelineMetrics
    PROVE  metrics' = EmitStatus(SetMetrics(metrics, {CountedRun} \cup PipelineGaugesWritten), "Status",
                                 PipelineLabelsValues(refPull.pipeline), refPull.pipeline.status, refPull.copy.sparse)
  BY DEF WritePipelineMetrics, CountedRun, NewRuns, StoredRun, PipelineGaugesWritten

\* ... which is the one stored with its key, or a new one of 0, one higher if the run counts.
LEMMA CountedRunIs ==
    ASSUME RefTyped, Table(metrics)
    PROVE  /\ Sound(CountedRun) /\ CountedRun.kind = "RunCount"
           /\ CountedRun.labels.pipeline_id = refPull.pipeline.id
           /\ CountedRun.labels.variables = refPull.pipeline.variables
           /\ \/ /\ \A x \in metrics : Key(x) # Key(CountedRun)
                 /\ CountedRun.value = IF CountRun(refPull.copy.latest, refPull.pipeline) THEN 1 ELSE 0
              \/ /\ StoredRun \in metrics /\ StoredRun.kind = "RunCount" /\ Key(StoredRun) = Key(CountedRun)
                 /\ ~CountRun(refPull.copy.latest, refPull.pipeline) => CountedRun = StoredRun
  <1> DEFINE labels == PipelineLabelsValues(refPull.pipeline)
             none == Metric("RunCount", labels, 0)
  <1>1. "RunCount" \in PipelineKinds
    BY DEF PipelineKinds, RunKinds
  <1>2. PICK l : l = labels
    OBVIOUS
  <1>3. /\ DOMAIN l = NewRegistry["RunCount"] /\ l.pipeline_id = refPull.pipeline.id
        /\ l.variables = refPull.pipeline.variables /\ "pipeline_id" \in DOMAIN l /\ "variables" \in DOMAIN l
    BY <1>1, <1>2, RefLabelDomains, RefCollectors
  <1>4. Sound(none) /\ none.kind = "RunCount" /\ none.labels = l /\ none.value = 0
    BY <1>2, <1>3, MetricSound
  <1>5. PICK stored : stored = StoredRun
    OBVIOUS
  <1>6. stored = GetMetric(metrics, none)
    BY <1>5 DEF StoredRun
  <1> HIDE DEF none, labels
  <1>7. Sound(stored) /\ stored.kind = "RunCount"
    BY <1>4, <1>6, GetMetricSound, GetMetricKind
  <1>8. Key(stored) = Key(none)
    <2>1. CASE stored # none
      <3>1. GetMetric(metrics, none) # none
        BY <1>6, <2>1
      <3> QED
        BY <1>6, <3>1, GetMetricIn
    <2> QED
      BY <2>1
  <1>9. {"pipeline_id", "variables"} \subseteq KeyLabels("RunCount")
    BY RunIsKeyed
  <1>10. /\ LabelOf(stored, "pipeline_id") = LabelOf(none, "pipeline_id")
         /\ LabelOf(stored, "variables") = LabelOf(none, "variables")
    BY <1>7, <1>8, <1>9, KeyLabel
  <1>11. DOMAIN stored.labels = NewRegistry["RunCount"]
    BY <1>7 DEF Sound, Exported
  <1>12. stored.labels.pipeline_id = l.pipeline_id /\ stored.labels.variables = l.variables
    BY <1>3, <1>4, <1>10, <1>11 DEF LabelOf
  <1>13. stored.value \in Nat
    BY <1>7 DEF Sound
  <1>14. PICK new \in Nat : new = NewRuns
    BY <1>5, <1>13 DEF NewRuns
  <1>15. PICK counted : counted = [stored EXCEPT !.value = new]
    OBVIOUS
  <1>16. counted = CountedRun
    BY <1>5, <1>14, <1>15 DEF CountedRun
  <1>17. Sound(counted) /\ counted = Metric(stored.kind, stored.labels, new)
    BY <1>7, <1>15, Revalued
  <1>18. counted.kind = "RunCount" /\ counted.labels = stored.labels /\ counted.value = new
    BY <1>7, <1>17, Fields
  <1>19. Key(counted) = Key(stored)
    BY <1>18, <1>7, SameKey DEF LabelOf
  <1>20. CASE MetricExists(metrics, none)
    <2>1. stored \in metrics
      BY <1>6, <1>20 DEF GetMetric, MetricExists
    <2>2. ASSUME ~CountRun(refPull.copy.latest, refPull.pipeline)
          PROVE  counted = stored
      <3>1. new = stored.value
        BY <1>14, <1>5, <2>2 DEF NewRuns
      <3> QED
        BY <3>1, <1>7, <1>17 DEF Sound
    <2> QED
      BY <2>1, <2>2, <1>3, <1>5, <1>7, <1>12, <1>16, <1>17, <1>18, <1>19
  <1>21. CASE ~MetricExists(metrics, none)
    <2>1. stored = none /\ \A x \in metrics : Key(x) # Key(none)
      BY <1>6, <1>21 DEF GetMetric, MetricExists
    <2>2. new = IF CountRun(refPull.copy.latest, refPull.pipeline) THEN 1 ELSE 0
      BY <1>4, <1>5, <1>14, <2>1, RefBoundsAssumption DEF NewRuns
    <2> QED
      BY <2>1, <2>2, <1>3, <1>8, <1>12, <1>16, <1>17, <1>18, <1>19
  <1> QED
    BY <1>20, <1>21

\* It keeps the table right, and changes no run but the one it counts.
LEMMA PipelineWrite ==
    ASSUME RefTyped, Right(metrics), WritePipelineMetrics
    PROVE  /\ Right(metrics')
           /\ \A kinds : kinds \cap RefKinds = {} => OfKinds(metrics', kinds) = OfKinds(metrics, kinds)
           /\ \A m : m.kind = "RunCount" =>
                 (m \in metrics' <=> \/ m = CountedRun /\ "RunCount" \in Kept
                                     \/ m \in metrics /\ ("RunCount" \in Kept => Key(CountedRun) # Key(m)))
  <1> DEFINE gauges == PipelineGaugeKinds \cup {"ID", "Timestamp"}
             new == {CountedRun} \cup PipelineGaugesWritten
             labels == PipelineLabelsValues(refPull.pipeline)
  <1>1. /\ Table(metrics) /\ Sound(CountedRun) /\ CountedRun.kind = "RunCount"
    BY CountedRunIs DEF Right
  <1>2. /\ gauges \subseteq PipelineKinds /\ gauges \cap StatusKinds = {} /\ "RunCount" \notin gauges
        /\ "Status" \in StatusKinds /\ "Status" \in PipelineKinds /\ "RunCount" \in PipelineKinds
        /\ "RunCount" \notin StatusKinds
    BY DEF PipelineKinds, PipelineGaugeKinds, RunKinds, StatusKinds
  <1>3. refPull.pipeline.id \in Nat
    BY RefFacts
  <1>4. \A kind \in PipelineKinds : DOMAIN labels = NewRegistry[kind]
    BY RefLabelDomains, RefCollectors
  <1>4a. "status" \in DOMAIN labels
    BY RefLabelDomains
  <1> HIDE DEF gauges, labels
  <1>5. ASSUME NEW m \in PipelineGaugesWritten
        PROVE  Sound(m) /\ m.kind \in gauges /\ m = Metric(m.kind, labels, refPull.pipeline.id)
    <2>1. m \in Gauges(gauges, labels, refPull.pipeline.id)
      BY DEF PipelineGaugesWritten, gauges, labels
    <2>2. \A kind \in gauges : DOMAIN labels = NewRegistry[kind]
      BY <1>2, <1>4
    <2> QED
      BY <1>3, <2>1, <2>2, GaugesSound
  <1>6. Right(SetMetrics(metrics, new))
    <2>1. \A x \in new : Sound(x) /\ x.kind \notin StatusKinds
      BY <1>1, <1>2, <1>5
    <2>2. \A m, n \in new : m.kind = n.kind => m = n
      BY <1>1, <1>2, <1>5
    <2> QED
      BY <2>1, <2>2, OneOfEachKind
  <1>7. metrics' = EmitStatus(SetMetrics(metrics, new), "Status", labels, refPull.pipeline.status, refPull.copy.sparse)
    BY PipelineWriteIs DEF labels
  <1>8. Right(metrics')
    BY <1>2, <1>4, <1>4a, <1>6, <1>7, EmittedRight
  <1>9. ASSUME NEW kinds, "Status" \notin kinds
        PROVE  OfKinds(metrics', kinds) = OfKinds(SetMetrics(metrics, new), kinds)
    BY <1>7, <1>9, EmitStatusFrame
  <1>10. ASSUME NEW kinds, kinds \cap RefKinds = {}
         PROVE  OfKinds(metrics', kinds) = OfKinds(metrics, kinds)
    <2>1. kinds \cap PipelineKinds = {}
      BY <1>10 DEF RefKinds
    <2>2. \A x \in new : x.kind \notin kinds
      BY <1>1, <1>2, <1>5, <2>1
    <2>3. "Status" \notin kinds
      BY <1>2, <2>1
    <2> QED
      BY <2>2, <2>3, <1>9, SetMetricsFrame
  <1>11. ASSUME NEW m, m.kind = "RunCount"
         PROVE  m \in metrics' <=> \/ m = CountedRun /\ "RunCount" \in Kept
                                   \/ m \in metrics /\ ("RunCount" \in Kept => Key(CountedRun) # Key(m))
    <2>1. m \in metrics' <=> m \in SetMetrics(metrics, new)
      <3>1. OfKinds(metrics', OneRun) = OfKinds(SetMetrics(metrics, new), OneRun)
        BY <1>9 DEF OneRun
      <3> QED
        BY <3>1, <1>11 DEF OfKinds, OneRun
    <2>2. m \in SetMetrics(metrics, new)
             <=> \/ m \in new /\ m.kind \in Kept
                 \/ m \in metrics /\ \A x \in new : x.kind \in Kept => Key(x) # Key(m)
      BY InSetMetrics
    <2>3. m \in new <=> m = CountedRun
      BY <1>1, <1>2, <1>5, <1>11
    <2>4. \A x \in new : x # CountedRun => Key(x) # Key(m)
      BY <1>1, <1>2, <1>5, <1>11, KeyKind
    <2> QED
      BY <1>1, <1>11, <2>1, <2>2, <2>3, <2>4
  <1> QED
    BY <1>8, <1>10, <1>11

\* The metrics of a job, and of a test report, have the labels of their collectors too.
LEMMA JobWrite ==
    ASSUME RefTyped, Right(metrics), ProcessJobMetrics
    PROVE  /\ Right(metrics')
           /\ \A kinds : kinds \cap JobKinds = {} => OfKinds(metrics', kinds) = OfKinds(metrics, kinds)
  <1>1. CASE metrics' = metrics
    BY <1>1
  <1>2. CASE metrics' # metrics
    <2>1. PICK labels : labels = JobLabelsValues(refPull.pipeline, refPull.job)
      OBVIOUS
    <2>2. PICK none : none = Metric("JobRunCount", labels, 0)
      OBVIOUS
    <2>3. PICK count, sparse :
             /\ count = none \/ count = [none EXCEPT !.value = GetMetric(metrics, none).value + 1]
             /\ metrics' = EmitStatus(
                    SetMetrics(metrics, {count} \cup Gauges(JobKinds \ {"JobRunCount", "JobStatus"}, labels, refPull.job.id)),
                    "JobStatus", labels, refPull.job.status, sparse)
      <3> DEFINE current == IF ref.stored THEN ref ELSE PulledRef
                 exists == MetricExists(metrics, none)
                 count == IF exists /\ CountJob(current.job, refPull.job)
                          THEN [none EXCEPT !.value = GetMetric(metrics, none).value + 1] ELSE none
      <3>1. metrics' = EmitStatus(
                    SetMetrics(metrics, {count} \cup Gauges(JobKinds \ {"JobRunCount", "JobStatus"}, labels, refPull.job.id)),
                    "JobStatus", labels, refPull.job.status, current.sparse)
        BY <1>2, <2>1, <2>2 DEF ProcessJobMetrics
      <3>2. count = none \/ count = [none EXCEPT !.value = GetMetric(metrics, none).value + 1]
        OBVIOUS
      <3> HIDE DEF count, current
      <3> QED
        BY <3>1, <3>2
    <2>4. /\ \A kind \in JobKinds : DOMAIN labels = NewRegistry[kind]
          /\ "status" \in DOMAIN labels
      <3>1. DOMAIN labels = {"project", "topics", "kind", "ref", "source", "variables", "stage", "job_name",
                             "runner_description", "tag_list", "pipeline_id", "job_id", "status", "failure_reason"}
        BY <2>1, RefLabelDomains
      <3>2. \A kind \in JobKinds : DOMAIN labels = NewRegistry[kind]
        BY <3>1, RefCollectors
      <3> QED
        BY <3>1, <3>2
    <2>5. refPull.job.id \in Nat
      BY RefFacts, RefRecords
    <2>6. "JobRunCount" \in JobKinds /\ "JobStatus" \in JobKinds /\ "JobStatus" \in StatusKinds
          /\ (JobKinds \ {"JobStatus"}) \cap StatusKinds = {}
      BY DEF JobKinds, StatusKinds
    <2>7. Sound(none) /\ none.kind = "JobRunCount" /\ none.labels = labels
      BY <2>2, <2>4, <2>6, MetricSound
    <2>8. Sound(count) /\ count.kind = "JobRunCount"
      <3>1. CASE count = none
        BY <3>1, <2>7
      <3>2. CASE count = [none EXCEPT !.value = GetMetric(metrics, none).value + 1]
        <4>1. PICK value : value = GetMetric(metrics, none).value + 1
          OBVIOUS
        <4>2. Sound(GetMetric(metrics, none))
          BY <2>7, GetMetricSound DEF Right
        <4>3. value \in Nat
          BY <4>1, <4>2 DEF Sound
        <4>4. count = [none EXCEPT !.value = value]
          BY <3>2, <4>1
        <4>5. Sound(count) /\ count = Metric(none.kind, none.labels, value)
          BY <2>7, <4>3, <4>4, Revalued
        <4> QED
          BY <4>5, <2>7, Fields
      <3> QED
        BY <2>3, <3>1, <3>2
    <2>9. PICK gauges : gauges = Gauges(JobKinds \ {"JobRunCount", "JobStatus"}, labels, refPull.job.id)
      OBVIOUS
    <2>10. ASSUME NEW m \in gauges
           PROVE  Sound(m) /\ m.kind \in JobKinds \ {"JobRunCount", "JobStatus"} /\ m = Metric(m.kind, labels, refPull.job.id)
      BY <2>4, <2>5, <2>9, GaugesSound
    <2>11. PICK table : table = SetMetrics(metrics, {count} \cup gauges)
      OBVIOUS
    <2>12. Right(table)
      <3>1. \A x \in {count} \cup gauges : Sound(x) /\ x.kind \notin StatusKinds
        BY <2>6, <2>8, <2>10
      <3>2. \A m, n \in {count} \cup gauges : m.kind = n.kind => m = n
        BY <2>8, <2>10
      <3> QED
        BY <2>11, <3>1, <3>2, OneOfEachKind
    <2>13. metrics' = EmitStatus(table, "JobStatus", labels, refPull.job.status, sparse)
      BY <2>3, <2>9, <2>11
    <2>14. Right(metrics')
      BY <2>4, <2>6, <2>12, <2>13, EmittedRight
    <2>15. ASSUME NEW kinds, kinds \cap JobKinds = {}
           PROVE  OfKinds(metrics', kinds) = OfKinds(metrics, kinds)
      <3>1. \A x \in {count} \cup gauges : x.kind \notin kinds
        BY <2>6, <2>8, <2>10, <2>15
      <3>2. OfKinds(table, kinds) = OfKinds(metrics, kinds)
        BY <2>11, <3>1, SetMetricsFrame
      <3> QED
        BY <2>6, <2>13, <2>15, <3>2, EmitStatusFrame
    <2> QED
      BY <2>14, <2>15
  <1> QED
    BY <1>1, <1>2

TestKinds == TestReportKinds \cup TestSuiteKinds \cup TestCaseKinds

\* Pulling a test report keeps the table right and changes only the metrics of test reports.
LEMMA ReportWrite ==
    ASSUME RefTyped, Right(metrics), PullTestReport
    PROVE  /\ Right(metrics')
           /\ \A kinds : kinds \cap TestKinds = {} => OfKinds(metrics', kinds) = OfKinds(metrics, kinds)
  <1>1. CASE metrics' = metrics
    BY <1>1
  <1>2. CASE metrics' # metrics
    <2>1. PICK p \in Pipeline : p = refPull.pipeline
      BY RefFacts
    <2>2. PICK report : report = Gauges(TestReportKinds, DefaultLabelsValues(p), p.id)
      OBVIOUS
    <2>3. PICK suite : suite = Gauges(TestSuiteKinds, TestSuiteLabelsValues(p), p.id)
      OBVIOUS
    <2>4. PICK case : case = Gauges({"TestCaseExecutionTime"}, TestCaseLabelsValues(p), p.id)
      OBVIOUS
    <2>5. PICK labels : labels = TestCaseStatusLabelsValues(p)
      OBVIOUS
    <2>6. PICK table : table = SetMetrics(metrics, report \cup suite \cup case)
      OBVIOUS
    <2>7. PICK sparse : metrics' = WriteTestReport(p, sparse)
      BY <1>2, <2>1 DEF PullTestReport
    <2>8. metrics' = EmitStatus(table, "TestCaseStatus", labels, p.status, sparse)
      BY <2>2, <2>3, <2>4, <2>5, <2>6, <2>7 DEF WriteTestReport
    <2>9. p.id \in Nat
      BY DEF Pipeline
    <2>10. ASSUME NEW m \in report
           PROVE  Sound(m) /\ m.kind \in TestReportKinds /\ m = Metric(m.kind, DefaultLabelsValues(p), p.id)
      <3>1. \A kind \in TestReportKinds : DOMAIN DefaultLabelsValues(p) = NewRegistry[kind]
        BY RefLabelDomains, RefCollectors
      <3> QED
        BY <2>2, <2>9, <3>1, GaugesSound
    <2>11. ASSUME NEW m \in suite
           PROVE  Sound(m) /\ m.kind \in TestSuiteKinds /\ m = Metric(m.kind, TestSuiteLabelsValues(p), p.id)
      <3>1. \A kind \in TestSuiteKinds : DOMAIN TestSuiteLabelsValues(p) = NewRegistry[kind]
        BY RefLabelDomains, RefCollectors
      <3> QED
        BY <2>3, <2>9, <3>1, GaugesSound
    <2>12. ASSUME NEW m \in case
           PROVE  Sound(m) /\ m.kind = "TestCaseExecutionTime" /\ m = Metric(m.kind, TestCaseLabelsValues(p), p.id)
      <3>1. \A kind \in {"TestCaseExecutionTime"} : DOMAIN TestCaseLabelsValues(p) = NewRegistry[kind]
        BY RefLabelDomains, RefCollectors
      <3> QED
        BY <2>4, <2>9, <3>1, GaugesSound
    <2>13. /\ TestReportKinds \cap TestSuiteKinds = {} /\ "TestCaseExecutionTime" \notin TestReportKinds
           /\ "TestCaseExecutionTime" \notin TestSuiteKinds /\ TestReportKinds \cap StatusKinds = {}
           /\ TestSuiteKinds \cap StatusKinds = {} /\ "TestCaseExecutionTime" \notin StatusKinds
           /\ "TestCaseStatus" \in StatusKinds /\ "TestCaseExecutionTime" \in TestCaseKinds
           /\ "TestCaseStatus" \in TestCaseKinds
      BY DEF TestReportKinds, TestSuiteKinds, TestCaseKinds, StatusKinds
    <2>14. Right(table)
      <3>1. \A x \in report \cup suite \cup case : Sound(x) /\ x.kind \notin StatusKinds
        BY <2>10, <2>11, <2>12, <2>13
      <3>2. \A m, n \in report \cup suite \cup case : m.kind = n.kind => m = n
        BY <2>10, <2>11, <2>12, <2>13
      <3> QED
        BY <2>6, <3>1, <3>2, OneOfEachKind
    <2>15. DOMAIN labels = NewRegistry["TestCaseStatus"] /\ "status" \in DOMAIN labels
      BY <2>5, RefLabelDomains, RefCollectors
    <2>16. Right(metrics')
      BY <2>8, <2>13, <2>14, <2>15, EmittedRight
    <2>17. ASSUME NEW kinds, kinds \cap TestKinds = {}
           PROVE  OfKinds(metrics', kinds) = OfKinds(metrics, kinds)
      <3>1. \A x \in report \cup suite \cup case : x.kind \notin kinds
        BY <2>10, <2>11, <2>12, <2>13, <2>17 DEF TestKinds
      <3>2. OfKinds(table, kinds) = OfKinds(metrics, kinds)
        BY <2>6, <3>1, SetMetricsFrame
      <3>3. "TestCaseStatus" \notin kinds
        BY <2>13, <2>17 DEF TestKinds
      <3> QED
        BY <2>8, <3>2, <3>3, EmitStatusFrame
    <2> QED
      BY <2>16, <2>17
  <1> QED
    BY <1>1, <1>2

\* No other step of a ref writes metrics.
LEMMA RefWrites ==
    ASSUME RefStep
    PROVE  WritePipelineMetrics \/ ProcessJobMetrics \/ PullTestReport \/ metrics' = metrics
  BY DEF RefStep, RefPullStep, RefOthers, ScheduleRefMetrics, RefreshRef, GetProjectPipelines, GetRefPipeline,
         PullVariables, StorePipeline, PullRefPipelineJobsMetrics

\* Runs are counted by WritePipelineMetrics alone.
LEMMA RefTableStep ==
    ASSUME RefTyped, Right(metrics), RefStep
    PROVE  /\ Right(metrics')
           /\ \A kinds : kinds \cap RefKinds = {} => OfKinds(metrics', kinds) = OfKinds(metrics, kinds)
           /\ ~WritePipelineMetrics => OfKinds(metrics', OneRun) = OfKinds(metrics, OneRun)
  <1>1. OneRun \cap JobKinds = {} /\ OneRun \cap TestKinds = {}
    BY DEF OneRun, JobKinds, TestKinds, TestReportKinds, TestSuiteKinds, TestCaseKinds
  <1>2. \A kinds : kinds \cap RefKinds = {} => kinds \cap JobKinds = {} /\ kinds \cap TestKinds = {}
    BY DEF RefKinds, TestKinds
  <1>3. CASE WritePipelineMetrics
    BY <1>3, PipelineWrite
  <1>4. CASE ProcessJobMetrics
    BY <1>1, <1>2, <1>4, JobWrite
  <1>5. CASE PullTestReport
    BY <1>1, <1>2, <1>5, ReportWrite
  <1> QED
    BY <1>3, <1>4, <1>5, RefWrites

-----------------------------------------------------------------------------
\* The variables of a pipeline.

Runs(table) == OfKinds(table, OneRun)

\* The variables that a pipeline was first seen with.
HasVariables(table, p, v) == IF settings.variables THEN p \in DOMAIN table /\ v = table[p] ELSE v = ""

VariablesInv ==
    /\ \A m \in Runs(metrics) :
          m.labels.pipeline_id \in 1..Len(pipelines) /\ HasVariables(variables, m.labels.pipeline_id, m.labels.variables)
    /\ refPull.stage \in {"storing", "writing", "jobs", "job", "report"} =>
          HasVariables(variables, refPull.pipeline.id, refPull.pipeline.variables)
    /\ refPull.stage = "variables" => settings.variables

\* The fields of a pull made of them.
LEMMA PullOf ==
    ASSUME NEW stage, NEW copy, NEW todo, NEW pipeline, NEW job, NEW pull,
           pull = Pull(stage, copy, todo, pipeline, job)
    PROVE  /\ pull.stage = stage /\ pull.copy = copy /\ pull.todo = todo
           /\ pull.pipeline = pipeline /\ pull.job = job
  BY DEF Pull

\* No run at first.
LEMMA VariablesInit ==
    ASSUME RefInit, metrics = {}
    PROVE  VariablesInv
  BY RefRecords DEF RefInit, VariablesInv, Runs, OfKinds

\* Pipelines are only added.
LEMMA PipelinesGrow ==
    ASSUME RefTyped, RefTyped', RefStep
    PROVE  Len(pipelines) \in Nat /\ Len(pipelines') \in Nat /\ Len(pipelines) <= Len(pipelines')
           /\ settings' = settings
  <1>1. Len(pipelines) \in Nat /\ Len(pipelines') \in Nat /\ pipelines \in Seq(Job)
    BY LenProperties DEF RefTyped
  <1>2. CASE CreatePipeline
    <2>1. PICK status : pipelines' = Append(pipelines, [JobOf(Len(pipelines) + 1, 0) EXCEPT !.status = status])
      BY <1>2 DEF CreatePipeline
    <2>2. Len(pipelines') = Len(pipelines) + 1
      BY <1>1, <2>1
    <2> QED
      BY <1>1, <1>2, <2>2 DEF CreatePipeline
  <1>3. ASSUME NEW p \in DOMAIN pipelines, ChangeJob(p)
        PROVE  Len(pipelines') = Len(pipelines) /\ settings' = settings
    <2>1. PICK job : pipelines' = [pipelines EXCEPT ![p] = job]
      BY <1>3 DEF ChangeJob
    <2>2. Len(pipelines') = Len(pipelines)
      BY <1>1, <2>1
    <2>3. settings' = settings
      BY <1>3 DEF ChangeJob
    <2> QED
      BY <2>2, <2>3
  <1>4. CASE RefPullStep \/ DiscoverRef \/ DropRef \/ SnapshotRef \/ WriteSnapshotBack
    <2>1. UNCHANGED <<settings, pipelines>>
      BY <1>4 DEF RefPullStep, DiscoverRef, DropRef, SnapshotRef, WriteSnapshotBack, ScheduleRefMetrics,
          RefreshRef, GetProjectPipelines, GetRefPipeline, PullVariables, StorePipeline, WritePipelineMetrics,
          PullRefPipelineJobsMetrics, ProcessJobMetrics, PullTestReport, pulledVars
    <2> QED
      BY <1>1, <2>1
  <1> QED
    BY <1>1, <1>2, <1>3, <1>4 DEF RefStep, RefOthers

\* What a pipeline was first seen with it keeps.
LEMMA VariablesStay ==
    ASSUME RefTyped, RefRelated, VariablesInv, RefStep, settings' = settings
    PROVE  \A p, v : HasVariables(variables, p, v) => HasVariables(variables', p, v)
  <1>1. CASE PullVariables
    <2>1. PICK v \in {"", "v"} : variables' = variables \/ variables' = VariablesWith(Current, v)
      BY <1>1, VariablesShape
    <2>2. CASE variables' = variables
      BY <2>2 DEF HasVariables
    <2>3. CASE variables' # variables
      <3>1. Current \notin DOMAIN variables /\ Busy(refPull)
        BY <1>1, <2>3, VariablesShape DEF PullVariables, Busy
      <3>2. /\ DOMAIN variables \subseteq DOMAIN variables'
            /\ \A p \in DOMAIN variables : variables'[p] = variables[p]
        BY <2>1, <2>3, <3>1, VariablesKept
      <3> QED
        BY <3>2 DEF HasVariables
    <2> QED
      BY <2>2, <2>3
  <1>2. CASE ~PullVariables
    <2>1. variables' = variables
      BY <1>2 DEF RefStep, RefOthers, CreatePipeline, ChangeJob, RefPullStep, DiscoverRef, DropRef, SnapshotRef,
            WriteSnapshotBack, ScheduleRefMetrics, RefreshRef, GetProjectPipelines, GetRefPipeline, StorePipeline,
            WritePipelineMetrics, PullRefPipelineJobsMetrics, ProcessJobMetrics, PullTestReport
    <2> QED
      BY <2>1 DEF HasVariables
  <1> QED
    BY <1>1, <1>2

\* The pull goes on to the next pipeline, or to the test report of the same.
LEMMA NextStages ==
    ASSUME RefTyped, RefRelated, Busy(refPull), NEW next, next = NextPipeline
    PROVE  next.stage \in {"idle", "reading"}
  <1>1. CASE next = NoRefPull
    BY <1>1, RefRecords
  <1>2. CASE next = Pull("reading", refPull.copy, Tail(refPull.todo), NoPipeline, NoJob)
    BY <1>2, PullOf
  <1> QED
    BY <1>1, <1>2, NextPull

\* What is left of a pull after a pipeline's metrics.
LEMMA ReportStages ==
    ASSUME RefTyped, RefRelated, Busy(refPull), NEW next, next = ReportOrNext
    PROVE  \/ next.stage \in {"idle", "reading"} /\ next = NextPipeline
           \/ /\ next.stage = "report" /\ next.pipeline = refPull.pipeline /\ next.copy = refPull.copy
              /\ next.todo = refPull.todo
  <1>1. CASE next = NextPipeline
    BY <1>1, NextStages
  <1>2. CASE next = Pull("report", refPull.copy, refPull.todo, refPull.pipeline, NoJob)
    BY <1>2, PullOf
  <1> QED
    BY <1>1, <1>2, ReportShape

\* A step of the ref keeps the variables of its runs (pipelines.go:107).
LEMMA VariablesStep ==
    ASSUME RefTyped, RefRelated, RefTyped', RefRelated', Right(metrics), VariablesInv, RefStep
    PROVE  VariablesInv'
  <1>1. /\ settings' = settings /\ Len(pipelines) \in Nat /\ Len(pipelines') \in Nat
        /\ Len(pipelines) <= Len(pipelines')
    BY PipelinesGrow
  <1>2. \A p, v : HasVariables(variables, p, v) => HasVariables(variables', p, v)
    BY <1>1, VariablesStay
  <1>3. ASSUME NEW m \in Runs(metrics')
        PROVE  m \in Runs(metrics)
                 \/ (/\ WritePipelineMetrics /\ m.labels.pipeline_id = refPull.pipeline.id
                     /\ m.labels.variables = refPull.pipeline.variables)
    <2>1. CASE WritePipelineMetrics
      BY <2>1, <1>3, PipelineWrite, CountedRunIs DEF Runs, OfKinds, OneRun, Right
    <2>2. CASE ~WritePipelineMetrics
      BY <2>2, <1>3, RefTableStep DEF Runs
    <2> QED
      BY <2>1, <2>2
  <1>4. ASSUME NEW m \in Runs(metrics')
        PROVE  m.labels.pipeline_id \in 1..Len(pipelines')
                 /\ HasVariables(variables', m.labels.pipeline_id, m.labels.variables)
    <2>1. CASE m \in Runs(metrics)
      <3>1. m.labels.pipeline_id \in 1..Len(pipelines) /\ HasVariables(variables, m.labels.pipeline_id, m.labels.variables)
        BY <2>1 DEF VariablesInv
      <3> QED
        BY <1>1, <1>2, <3>1
    <2>2. CASE m \notin Runs(metrics)
      <3>1. /\ WritePipelineMetrics /\ m.labels.pipeline_id = refPull.pipeline.id
            /\ m.labels.variables = refPull.pipeline.variables
        BY <1>3, <2>2
      <3>2. Busy(refPull) /\ HasRead(refPull) /\ refPull.stage = "writing"
        BY <3>1 DEF WritePipelineMetrics, Busy, HasRead
      <3>3. refPull.pipeline.id \in 1..Len(pipelines)
        BY <3>2, RefTodo DEF RefRelated, OfPipelines, Current
      <3>4. HasVariables(variables, refPull.pipeline.id, refPull.pipeline.variables)
        BY <3>2 DEF VariablesInv
      <3> QED
        BY <1>1, <1>2, <3>1, <3>3, <3>4
    <2> QED
      BY <2>1, <2>2
  <1> DEFINE Fetched(pull) == /\ pull.stage \in {"storing", "writing", "jobs", "job", "report"} =>
                                    HasVariables(variables', pull.pipeline.id, pull.pipeline.variables)
                              /\ pull.stage = "variables" => settings.variables
  <1>5. Fetched(refPull')
    <2>1. CASE RefOthers
      <3>1. refPull' = refPull
        BY <2>1 DEF RefOthers, CreatePipeline, ChangeJob, DiscoverRef, DropRef, SnapshotRef, WriteSnapshotBack
      <3> QED
        BY <1>2, <3>1 DEF VariablesInv
    <2>2. CASE refPull'.stage \in {"idle", "queued", "listing", "reading"}
      BY <2>2
    <2>3. CASE ScheduleRefMetrics
      BY <2>2, <2>3, ScheduleShape, PullOf
    <2>4. CASE RefreshRef
      <3>1. PICK copy : copy = IF ref.stored THEN ref ELSE refPull.copy
        OBVIOUS
      <3>2. refPull' = Pull("listing", copy, refPull.todo, refPull.pipeline, refPull.job)
        BY <2>4, <3>1, RefreshShape
      <3> QED
        BY <2>2, <3>2, PullOf
    <2>5. CASE GetProjectPipelines
      <3>1. CASE refPull' = NoRefPull
        BY <2>2, <3>1, RefRecords
      <3>2. CASE refPull' = Pull("reading", refPull.copy, ListPipelines, refPull.pipeline, refPull.job)
        BY <2>2, <3>2, PullOf
      <3> QED
        BY <2>5, <3>1, <3>2, ListShape
    <2>6. CASE GetRefPipeline
      <3>1. CASE refPull' = NextPipeline
        BY <2>2, <2>6, <3>1, NextStages DEF GetRefPipeline, Busy
      <3>2. CASE refPull' # NextPipeline
        <4>1. PICK pipeline \in Pipeline :
                 /\ pipeline.id = Current /\ pipeline.variables = ""
                 /\ refPull' = Pull(IF settings.variables THEN "variables" ELSE "storing",
                                    refPull.copy, refPull.todo, pipeline, refPull.job)
          BY <2>6, <3>2, GetShape
        <4>2. /\ refPull'.stage = IF settings.variables THEN "variables" ELSE "storing"
              /\ refPull'.pipeline = pipeline
          <5>1. PICK stage : stage = IF settings.variables THEN "variables" ELSE "storing"
            OBVIOUS
          <5>2. refPull' = Pull(stage, refPull.copy, refPull.todo, pipeline, refPull.job)
            BY <4>1, <5>1
          <5> QED
            BY <5>1, <5>2, PullOf
        <4> QED
          BY <1>1, <4>1, <4>2 DEF HasVariables
      <3> QED
        BY <3>1, <3>2
    <2>7. CASE PullVariables
      <3>1. CASE refPull' = NextPipeline
        BY <2>2, <2>7, <3>1, NextStages DEF PullVariables, Busy
      <3>2. CASE refPull' # NextPipeline
        <4>1. PICK pipeline \in Pipeline :
                 /\ pipeline.id = refPull.pipeline.id
                 /\ Current \in DOMAIN variables' /\ pipeline.variables = variables'[Current]
                 /\ refPull' = Pull("storing", refPull.copy, refPull.todo, pipeline, refPull.job)
          BY <2>7, <3>2, VariablesShape
        <4>2. refPull'.stage = "storing" /\ refPull'.pipeline = pipeline
          BY <4>1, PullOf
        <4>3. refPull.pipeline.id = Current /\ settings.variables
          BY <2>7 DEF PullVariables, RefRelated, OfPipelines, HasRead, Current, VariablesInv
        <4> QED
          BY <1>1, <4>1, <4>2, <4>3 DEF HasVariables
      <3> QED
        BY <3>1, <3>2
    <2>8. ASSUME refPull.stage \in {"storing", "writing", "jobs", "job", "report"},
                 refPull'.pipeline = refPull.pipeline, refPull'.stage # "variables"
          PROVE  Fetched(refPull')
      BY <1>2, <2>8 DEF VariablesInv
    <2>9. CASE StorePipeline
      <3>1. refPull' = Moved("writing") /\ refPull.stage = "storing"
        BY <2>9, MovedStage DEF StorePipeline
      <3> QED
        BY <2>8, <3>1, PullOf DEF Moved
    <2>10. ASSUME refPull.stage \in {"writing", "jobs", "job", "report"}, refPull' = ReportOrNext
           PROVE  Fetched(refPull')
      <3>1. Busy(refPull)
        BY <2>10 DEF Busy
      <3> QED
        BY <2>2, <2>8, <2>10, <3>1, ReportStages
    <2>11. CASE WritePipelineMetrics
      <3>1. (refPull' = Moved("jobs") \/ refPull' = ReportOrNext) /\ refPull.stage = "writing"
        BY <2>11, MovedStage DEF WritePipelineMetrics
      <3>2. CASE refPull' = Moved("jobs")
        BY <2>8, <3>1, <3>2, PullOf DEF Moved
      <3> QED
        BY <2>10, <3>1, <3>2
    <2>12. CASE PullRefPipelineJobsMetrics
      <3>0. refPull.stage = "jobs" /\ Busy(refPull)
        BY <2>12 DEF PullRefPipelineJobsMetrics, Busy
      <3>1. CASE refPull' = NextPipeline
        BY <2>2, <3>0, <3>1, NextStages
      <3>2. CASE refPull' # NextPipeline
        <4>1. PICK job : refPull' = Pull("job", refPull.copy, refPull.todo, refPull.pipeline, job)
          BY <2>12, <3>2, JobShape
        <4> QED
          BY <2>8, <3>0, <4>1, PullOf
      <3> QED
        BY <3>1, <3>2
    <2>13. CASE ProcessJobMetrics
      BY <2>10, <2>13 DEF ProcessJobMetrics
    <2>14. CASE PullTestReport
      <3>0. refPull.stage = "report" /\ Busy(refPull) /\ refPull' = NextPipeline
        BY <2>14 DEF PullTestReport, Busy
      <3> QED
        BY <2>2, <3>0, NextStages
    <2> QED
      BY <2>1, <2>3, <2>4, <2>5, <2>6, <2>7, <2>9, <2>11, <2>12, <2>13, <2>14 DEF RefStep, RefPullStep
  <1> QED
    <2>1. (\A m \in Runs(metrics) :
              m.labels.pipeline_id \in 1..Len(pipelines)
                /\ HasVariables(variables, m.labels.pipeline_id, m.labels.variables))'
      BY <1>1, <1>4 DEF HasVariables
    <2>2. (refPull.stage \in {"storing", "writing", "jobs", "job", "report"} =>
             HasVariables(variables, refPull.pipeline.id, refPull.pipeline.variables))'
      BY <1>1, <1>5 DEF HasVariables
    <2>3. (refPull.stage = "variables" => settings.variables)'
      BY <1>1, <1>5
    <2> QED
      BY <2>1, <2>2, <2>3 DEF VariablesInv

-----------------------------------------------------------------------------
\* The runs of a ref that stays in the store, one pipeline a pull.

Undisturbed == settings.perRef = 1 /\ ~disturbed

\* The pull has the latest pipeline of the ref before it stores another.
PullInv ==
    Undisturbed =>
        /\ ref.stored \/ (refPull.stage = "idle" /\ ~snapshot.stored /\ ref.latest = NoPipeline)
        /\ Busy(refPull) => Len(refPull.todo) = 1
        /\ refPull.stage \in {"listing", "reading", "variables", "storing"} => refPull.copy.latest = ref.latest
        /\ refPull.stage \in {"reading", "variables", "storing"} => ref.latest.id <= Current
        /\ refPull.stage = "writing" =>
              ref.latest = refPull.pipeline /\ refPull.copy.latest.id <= refPull.pipeline.id

\* The latest pipeline whose metrics have been written.
LastWritten == IF refPull.stage = "writing" THEN refPull.copy.latest.id ELSE ref.latest.id

\* At first there is no pull, and nothing written.
LEMMA PullInvInit ==
    ASSUME RefInit
    PROVE  PullInv /\ LastWritten = 0
  <1>1. ref = NoRef /\ refPull = NoRefPull /\ snapshot = NoRef
    BY DEF RefInit
  <1>2. refPull.stage = "idle" /\ ~snapshot.stored /\ ref.latest = NoPipeline /\ ref.latest.id = 0
    BY <1>1, NoRefIs, RefRecords
  <1> QED
    BY <1>2 DEF PullInv, LastWritten, Busy

\* What the steps of others do to a ref that stays as it is.
LEMMA OthersStay ==
    ASSUME RefTyped, RefOthers, Undisturbed', PullInv
    PROVE  /\ Undisturbed /\ refPull' = refPull
           /\ ref'.latest = ref.latest
           /\ ref.stored => ref'.stored
           /\ ~ref.stored /\ ~ref'.stored => ~snapshot'.stored
  <1>1. CASE CreatePipeline \/ \E p \in DOMAIN pipelines : ChangeJob(p)
    <2>1. UNCHANGED <<settings, ref, refPull, snapshot, disturbed>>
      BY <1>1 DEF CreatePipeline, ChangeJob
    <2> QED
      BY <2>1 DEF Undisturbed, PullInv
  <1>2. CASE DiscoverRef
    <2>1. PICK sparse \in BOOLEAN : ref' = [NoRef EXCEPT !.stored = TRUE, !.sparse = sparse]
      BY <1>2, RefFacts DEF DiscoverRef
    <2>2. ref'.stored /\ ref'.latest = NoPipeline
      BY <2>1, NoRefIs DEF RefRecord
    <2>3. UNCHANGED <<settings, disturbed, refPull>> /\ ~ref.stored
      BY <1>2 DEF DiscoverRef
    <2>4. ref.latest = NoPipeline
      BY <2>3 DEF PullInv, Undisturbed
    <2> QED
      BY <2>2, <2>3, <2>4 DEF Undisturbed
  <1>3. CASE DropRef
    BY <1>3 DEF DropRef, Undisturbed
  <1>4. CASE SnapshotRef
    <2>1. UNCHANGED <<settings, ref, refPull, disturbed>> /\ ref.stored
      BY <1>4 DEF SnapshotRef
    <2> QED
      BY <2>1 DEF Undisturbed
  <1>5. CASE WriteSnapshotBack
    <2>1. /\ snapshot.stored /\ ref' = snapshot /\ snapshot' = NoRef /\ UNCHANGED <<settings, refPull>>
          /\ disturbed' = (disturbed \/ snapshot.latest # ref.latest \/ snapshot.job # ref.job)
      BY <1>5 DEF WriteSnapshotBack
    <2>2. ~disturbed /\ snapshot.latest = ref.latest
      <3>1. ~disturbed'
        BY DEF Undisturbed
      <3> QED
        BY <2>1, <3>1, Zenon
    <2> QED
      BY <2>1, <2>2, NoRefIs DEF Undisturbed
  <1> QED
    BY <1>1, <1>2, <1>3, <1>4, <1>5 DEF RefOthers

\* Once written, the metrics of a pipeline are not written again.
LEMMA WriteMoves ==
    ASSUME RefTyped, RefRelated, WritePipelineMetrics
    PROVE  refPull'.stage # "writing"
  <1>1. Busy(refPull)
    BY DEF WritePipelineMetrics, Busy
  <1>2. refPull' = Moved("jobs") \/ refPull' = ReportOrNext
    BY MovedStage DEF WritePipelineMetrics
  <1>3. CASE refPull' = Moved("jobs")
    BY <1>3, PullOf DEF Moved
  <1>4. CASE refPull' = ReportOrNext
    BY <1>1, <1>4, ReportStages
  <1> QED
    BY <1>2, <1>3, <1>4

\* A step of a ref that is left alone keeps this, and only WritePipelineMetrics changes which
\* pipeline was written last: to the same one or a later one.
LEMMA PullInvStep ==
    ASSUME RefTyped, RefRelated, PullInv, RefStep, Undisturbed'
    PROVE  /\ Undisturbed /\ PullInv'
           /\ ~WritePipelineMetrics => LastWritten' = LastWritten
           /\ WritePipelineMetrics => /\ refPull.copy.latest.id <= refPull.pipeline.id
                                      /\ LastWritten = refPull.copy.latest.id /\ LastWritten' = refPull.pipeline.id
  <1>1. CASE RefOthers
    <2>1. /\ Undisturbed /\ refPull' = refPull /\ ref'.latest = ref.latest
          /\ ref.stored => ref'.stored
          /\ ~ref.stored /\ ~ref'.stored => ~snapshot'.stored
      BY <1>1, OthersStay
    <2>2. PullInv'
      BY <2>1 DEF PullInv, Busy, Current
    <2>3. LastWritten' = LastWritten
      BY <2>1 DEF LastWritten
    <2>4. ~WritePipelineMetrics
      BY <2>1, WriteMoves DEF WritePipelineMetrics
    <2> QED
      BY <2>1, <2>2, <2>3, <2>4
  <1>2. CASE RefPullStep
    <2>0. /\ Undisturbed /\ UNCHANGED <<settings, disturbed, snapshot>>
          /\ ref.stored /\ Len(pipelines) \in Nat
          /\ ref.latest.id \in Nat /\ refPull.copy.latest.id \in Nat /\ refPull.pipeline.id \in Nat
      <3>1. UNCHANGED <<settings, disturbed, snapshot>>
        BY <1>2 DEF RefPullStep, ScheduleRefMetrics, RefreshRef, GetProjectPipelines, GetRefPipeline, PullVariables,
              StorePipeline, WritePipelineMetrics, PullRefPipelineJobsMetrics, ProcessJobMetrics, PullTestReport, pulledVars
      <3>2. Undisturbed
        BY <3>1 DEF Undisturbed
      <3>3. ref.stored \/ refPull.stage # "idle"
        BY <1>2 DEF RefPullStep, ScheduleRefMetrics, RefreshRef, GetProjectPipelines, GetRefPipeline, PullVariables,
              StorePipeline, WritePipelineMetrics, PullRefPipelineJobsMetrics, ProcessJobMetrics, PullTestReport
      <3> QED
        BY <3>1, <3>2, <3>3, RefFacts DEF PullInv
    <2> DEFINE Fits(pull, latest) ==
                  /\ Busy(pull) => Len(pull.todo) = 1
                  /\ pull.stage \in {"listing", "reading", "variables", "storing"} => pull.copy.latest = latest
                  /\ pull.stage \in {"reading", "variables", "storing"} => latest.id <= Head(pull.todo)
                  /\ pull.stage = "writing" => latest = pull.pipeline /\ pull.copy.latest.id <= pull.pipeline.id
    <2>a. Fits(refPull, ref.latest)
      BY <2>0 DEF PullInv, Current
    <2>b. ASSUME ref'.stored, Fits(refPull', ref'.latest)
          PROVE  PullInv'
      BY <2>b DEF PullInv, Current
    <2>c. ASSUME NEW stage, NEW pipeline, NEW job, NEW pull,
                 pull = Pull(stage, refPull.copy, refPull.todo, pipeline, job),
                 Busy(refPull), stage \in {"variables", "storing"} => refPull.stage \in {"reading", "variables"},
                 stage \notin {"listing", "reading", "writing"}
          PROVE  Fits(pull, ref.latest) /\ pull.stage = stage
      <3>1. pull.stage = stage /\ pull.copy = refPull.copy /\ pull.todo = refPull.todo
        BY <2>c, PullOf
      <3> QED
        BY <2>a, <2>c, <3>1
    <2>d. ASSUME NEW pull, pull = NextPipeline, Busy(refPull)
          PROVE  pull = NoRefPull /\ Fits(pull, ref.latest) /\ pull.stage = "idle"
      <3>1. Len(refPull.todo) = 1
        BY <2>a, <2>d
      <3>2. pull = NoRefPull
        BY <2>d, <3>1 DEF NextPipeline
      <3> QED
        BY <3>2, RefRecords DEF Busy
    <2>e. ASSUME NEW pull, pull = ReportOrNext, Busy(refPull)
          PROVE  Fits(pull, ref.latest) /\ pull.stage \in {"idle", "report"}
      <3>1. CASE pull = NextPipeline
        BY <2>d, <2>e, <3>1
      <3>2. CASE pull = Pull("report", refPull.copy, refPull.todo, refPull.pipeline, NoJob)
        BY <2>c, <2>e, <3>2
      <3> QED
        BY <2>e, <3>1, <3>2, ReportShape
    <2> HIDE DEF Fits
    <2>1. CASE ScheduleRefMetrics
      <3>1. refPull'.stage = "queued" /\ ref' = ref /\ refPull.stage = "idle"
        BY <2>1, ScheduleShape, PullOf DEF ScheduleRefMetrics
      <3>2. Fits(refPull', ref'.latest)
        BY <3>1 DEF Fits, Busy
      <3> QED
        BY <2>0, <2>b, <3>1, <3>2 DEF LastWritten, WritePipelineMetrics
    <2>2. CASE RefreshRef
      <3>1. refPull' = Pull("listing", ref, refPull.todo, refPull.pipeline, refPull.job)
        <4>1. PICK copy : copy = IF ref.stored THEN ref ELSE refPull.copy
          OBVIOUS
        <4>2. refPull' = Pull("listing", copy, refPull.todo, refPull.pipeline, refPull.job)
          BY <2>2, <4>1, RefreshShape
        <4>3. copy = ref
          BY <2>0, <4>1
        <4> QED
          BY <4>2, <4>3
      <3>2. refPull'.stage = "listing" /\ refPull'.copy = ref /\ ref' = ref /\ refPull.stage = "queued"
        <4>1. ref' = ref /\ refPull.stage = "queued"
          BY <2>2 DEF RefreshRef
        <4>2. refPull'.stage = "listing" /\ refPull'.copy = ref
          BY <3>1, PullOf
        <4> QED
          BY <4>1, <4>2
      <3>3. Fits(refPull', ref'.latest)
        BY <3>2 DEF Fits, Busy
      <3> QED
        BY <2>0, <2>b, <3>2, <3>3 DEF LastWritten, WritePipelineMetrics
    <2>3. CASE GetProjectPipelines
      <3>0. ref' = ref /\ refPull.stage = "listing"
        BY <2>3 DEF GetProjectPipelines
      <3>1. refPull'.stage \in {"idle", "reading"} /\ Fits(refPull', ref.latest)
        <4>1. CASE refPull' = NoRefPull
          BY <4>1, RefRecords DEF Fits, Busy
        <4>2. CASE refPull' = Pull("reading", refPull.copy, ListPipelines, refPull.pipeline, refPull.job)
                    /\ ListPipelines # <<>>
          <5>1. PICK todo : todo = ListPipelines
            OBVIOUS
          <5>2. Len(todo) = 1 /\ Head(todo) = Len(pipelines)
            BY <2>0, <4>2, <5>1, ListedTodo DEF Undisturbed
          <5>3. refPull'.stage = "reading" /\ refPull'.copy = refPull.copy /\ refPull'.todo = todo
            BY <4>2, <5>1, PullOf
          <5>4. ref.latest.id <= Len(pipelines)
            BY DEF RefRelated
          <5>5. refPull.copy.latest = ref.latest
            BY <2>a, <3>0 DEF Fits
          <5> QED
            BY <5>2, <5>3, <5>4, <5>5 DEF Fits
        <4> QED
          BY <2>3, <4>1, <4>2, ListShape
      <3> QED
        BY <2>0, <2>b, <3>0, <3>1 DEF LastWritten, WritePipelineMetrics
    <2>4. CASE GetRefPipeline
      <3>0. ref' = ref /\ refPull.stage = "reading" /\ Busy(refPull)
        BY <2>4 DEF GetRefPipeline, Busy
      <3>1. refPull'.stage # "writing" /\ Fits(refPull', ref.latest)
        <4>1. CASE refPull' = NextPipeline
          BY <2>d, <3>0, <4>1
        <4>2. CASE refPull' # NextPipeline
          <5>1. PICK stage : stage = IF settings.variables THEN "variables" ELSE "storing"
            OBVIOUS
          <5>2. PICK pipeline : refPull' = Pull(stage, refPull.copy, refPull.todo, pipeline, refPull.job)
            BY <2>4, <4>2, <5>1, GetShape
          <5> QED
            BY <2>c, <3>0, <5>1, <5>2
        <4> QED
          BY <4>1, <4>2
      <3> QED
        BY <2>0, <2>b, <3>0, <3>1 DEF LastWritten, WritePipelineMetrics
    <2>5. CASE PullVariables
      <3>0. ref' = ref /\ refPull.stage = "variables" /\ Busy(refPull)
        BY <2>5 DEF PullVariables, Busy
      <3>1. refPull'.stage # "writing" /\ Fits(refPull', ref.latest)
        <4>1. CASE refPull' = NextPipeline
          BY <2>d, <3>0, <4>1
        <4>2. CASE refPull' # NextPipeline
          <5>1. PICK pipeline, job : refPull' = Pull("storing", refPull.copy, refPull.todo, pipeline, job)
            BY <2>5, <4>2, VariablesShape
          <5> QED
            BY <2>c, <3>0, <5>1
        <4> QED
          BY <4>1, <4>2
      <3> QED
        BY <2>0, <2>b, <3>0, <3>1 DEF LastWritten, WritePipelineMetrics
    <2>6. CASE StorePipeline
      <3>1. ref' = PulledRef /\ refPull.stage = "storing" /\ refPull' = Moved("writing")
        BY <2>6, MovedStage DEF StorePipeline, PulledRef
      <3>2. /\ refPull'.stage = "writing" /\ refPull'.copy = refPull.copy /\ refPull'.todo = refPull.todo
            /\ refPull'.pipeline = refPull.pipeline
        BY <3>1, PullOf DEF Moved
      <3>3. /\ refPull.copy.latest = ref.latest /\ ref.latest.id <= Current /\ Len(refPull.todo) = 1
            /\ refPull.pipeline.id = Current /\ refPull.copy.stored
        BY <2>a, <3>1 DEF Fits, Busy, HasRead, RefRelated, OfPipelines, Current
      <3>4. ref'.stored /\ ref'.latest = refPull.pipeline
        BY <3>1, <3>3, PulledRefIs
      <3>5. Fits(refPull', ref'.latest)
        BY <3>2, <3>3, <3>4 DEF Fits
      <3>6. LastWritten' = LastWritten
        BY <3>1, <3>2, <3>3 DEF LastWritten
      <3> QED
        BY <2>0, <2>b, <3>1, <3>4, <3>5, <3>6 DEF WritePipelineMetrics
    <2>7. CASE WritePipelineMetrics
      <3>0. ref' = ref /\ refPull.stage = "writing" /\ Busy(refPull)
        BY <2>7 DEF WritePipelineMetrics, Busy
      <3>1. refPull'.stage # "writing" /\ Fits(refPull', ref.latest)
        <4>1. CASE refPull' = ReportOrNext
          BY <2>e, <3>0, <4>1
        <4>2. CASE refPull' = Moved("jobs")
          BY <2>c, <3>0, <4>2 DEF Moved
        <4> QED
          BY <2>7, <4>1, <4>2, MovedStage DEF WritePipelineMetrics
      <3>2. ref.latest = refPull.pipeline /\ refPull.copy.latest.id <= refPull.pipeline.id
        BY <2>a, <3>0 DEF Fits
      <3> QED
        BY <2>0, <2>7, <2>b, <3>0, <3>1, <3>2 DEF LastWritten
    <2>8. CASE PullRefPipelineJobsMetrics
      <3>0. ref' = ref /\ refPull.stage = "jobs" /\ Busy(refPull)
        BY <2>8 DEF PullRefPipelineJobsMetrics, Busy
      <3>1. refPull'.stage # "writing" /\ Fits(refPull', ref.latest)
        <4>1. CASE refPull' = NextPipeline
          BY <2>d, <3>0, <4>1
        <4>2. CASE refPull' # NextPipeline
          <5>1. PICK job : refPull' = Pull("job", refPull.copy, refPull.todo, refPull.pipeline, job)
            BY <2>8, <4>2, JobShape
          <5> QED
            BY <2>c, <3>0, <5>1
        <4> QED
          BY <4>1, <4>2
      <3> QED
        BY <2>0, <2>b, <3>0, <3>1 DEF LastWritten, WritePipelineMetrics
    <2>9. CASE ProcessJobMetrics
      <3>0. refPull.stage = "job" /\ Busy(refPull) /\ refPull' = ReportOrNext
        BY <2>9 DEF ProcessJobMetrics, Busy
      <3>1. refPull'.stage # "writing" /\ Fits(refPull', ref.latest)
        BY <2>e, <3>0
      <3>2. ref'.stored /\ ref'.latest = ref.latest
        <4>1. ref' = ref \/ ref' = [ref EXCEPT !.job = refPull.job]
          BY <2>0, <2>9 DEF ProcessJobMetrics
        <4>2. PICK r \in RefRecord : r = ref
          BY DEF RefTyped
        <4>3. PICK s : s = [r EXCEPT !.job = refPull.job]
          OBVIOUS
        <4>4. s.stored = r.stored /\ s.latest = r.latest
          BY <4>3, RefEdits, RefFacts
        <4> QED
          BY <2>0, <4>1, <4>2, <4>3, <4>4
      <3> QED
        BY <2>0, <2>b, <3>0, <3>1, <3>2 DEF LastWritten, WritePipelineMetrics
    <2>10. CASE PullTestReport
      <3>0. ref' = ref /\ refPull.stage = "report" /\ Busy(refPull) /\ refPull' = NextPipeline
        BY <2>10 DEF PullTestReport, Busy
      <3>1. refPull'.stage # "writing" /\ Fits(refPull', ref.latest)
        BY <2>d, <3>0
      <3> QED
        BY <2>0, <2>b, <3>0, <3>1 DEF LastWritten, WritePipelineMetrics
    <2> QED
      BY <1>2, <2>1, <2>2, <2>3, <2>4, <2>5, <2>6, <2>7, <2>8, <2>9, <2>10 DEF RefPullStep
  <1> QED
    BY <1>1, <1>2 DEF RefStep

\* A set of run counters, each of one pipeline: all but the first one count once.
First(runs, p) == \A n \in runs : p <= n.labels.pipeline_id
CountsIn(runs, p) == {m \in runs : m.labels.pipeline_id = p /\ m.value # 0}
CountsOf(runs, p) ==
    /\ First(runs, p) => CountsIn(runs, p) = {}
    /\ ~First(runs, p) => \E x \in runs : CountsIn(runs, p) = {x} /\ x.value = 1
CountedOnce(runs) == \A m \in runs : CountsOf(runs, m.labels.pipeline_id)

\* A pipeline whose counters stay the same is counted as before.
LEMMA SameCounts ==
    ASSUME NEW runs, NEW more, runs \subseteq more, NEW p, CountsOf(runs, p),
           CountsIn(more, p) = CountsIn(runs, p), First(more, p) <=> First(runs, p)
    PROVE  CountsOf(more, p)
  BY DEF CountsOf

\* A counter of 0 more of a pipeline that has one, or the first of all.
LEMMA OneMoreOfNone ==
    ASSUME NEW runs, NEW x, CountedOnce(runs), x.value = 0, x.labels.pipeline_id \in Nat,
           \A m \in runs : m.labels.pipeline_id \in Nat,
           runs = {} \/ \E m \in runs : m.labels.pipeline_id = x.labels.pipeline_id
    PROVE  CountedOnce(runs \cup {x})
  <1> DEFINE more == runs \cup {x}
  <1>1. CASE runs = {}
    <2>1. \A p : CountsIn(more, p) = {}
      BY <1>1 DEF CountsIn
    <2>2. \A m \in more : First(more, m.labels.pipeline_id)
      BY <1>1 DEF First
    <2> HIDE DEF more
    <2>3. \A m \in more : CountsOf(more, m.labels.pipeline_id)
      BY <2>1, <2>2 DEF CountsOf
    <2> QED
      BY <2>3 DEF CountedOnce, more
  <1>2. CASE \E m \in runs : m.labels.pipeline_id = x.labels.pipeline_id
    <2>1. \A p : CountsIn(more, p) = CountsIn(runs, p)
      BY DEF CountsIn
    <2>2. \A p : First(more, p) <=> First(runs, p)
      BY <1>2 DEF First
    <2>3. \A m \in more : \E n \in runs : n.labels.pipeline_id = m.labels.pipeline_id
      BY <1>2
    <2>4. runs \subseteq more
      OBVIOUS
    <2> HIDE DEF more
    <2>5. ASSUME NEW m \in more
          PROVE  CountsOf(more, m.labels.pipeline_id)
      <3>1. PICK n \in runs : n.labels.pipeline_id = m.labels.pipeline_id
        BY <2>3
      <3>2. CountsOf(runs, m.labels.pipeline_id)
        BY <3>1 DEF CountedOnce
      <3> QED
        BY <2>1, <2>2, <2>4, <3>2, SameCounts
    <2> QED
      BY <2>5 DEF CountedOnce, more
  <1> QED
    BY <1>1, <1>2

\* A counter of 1 of a pipeline after all others.
LEMMA OneMoreRun ==
    ASSUME NEW runs, NEW x, CountedOnce(runs), x.value = 1, x.labels.pipeline_id \in Nat,
           \A m \in runs : m.labels.pipeline_id \in Nat /\ m.labels.pipeline_id < x.labels.pipeline_id,
           runs # {}
    PROVE  CountedOnce(runs \cup {x})
  <1> DEFINE more == runs \cup {x}
             last == x.labels.pipeline_id
  <1>1. CountsIn(more, last) = {x} /\ ~First(more, last)
    BY DEF CountsIn, First
  <1>2. ASSUME NEW m \in runs
        PROVE  /\ CountsIn(more, m.labels.pipeline_id) = CountsIn(runs, m.labels.pipeline_id)
               /\ First(more, m.labels.pipeline_id) <=> First(runs, m.labels.pipeline_id)
    BY DEF CountsIn, First
  <1>3. \A m \in more : m \in runs \/ m.labels.pipeline_id = last
    OBVIOUS
  <1>4. x \in more /\ runs \subseteq more
    OBVIOUS
  <1>5. x.value = 1
    OBVIOUS
  <1> HIDE DEF more, last
  <1>6. CountsOf(more, last)
    BY <1>1, <1>4, <1>5 DEF CountsOf
  <1>7. ASSUME NEW m \in runs
        PROVE  CountsOf(more, m.labels.pipeline_id)
    <2>1. CountsOf(runs, m.labels.pipeline_id)
      BY DEF CountedOnce
    <2> QED
      BY <1>2, <1>4, <2>1, SameCounts
  <1>8. \A m \in more : CountsOf(more, m.labels.pipeline_id)
    BY <1>3, <1>6, <1>7
  <1> QED
    BY <1>8 DEF CountedOnce, more

RunsInv ==
    Undisturbed =>
        /\ \A m \in Runs(metrics) : m.labels.pipeline_id <= LastWritten
        /\ LastWritten = 0 => Runs(metrics) = {}
        /\ ~robbed => /\ CountedOnce(Runs(metrics))
                      /\ LastWritten # 0 /\ "RunCount" \in Kept =>
                            \E m \in Runs(metrics) : m.labels.pipeline_id = LastWritten

\* At first there are no runs.
LEMMA RunsInvInit ==
    ASSUME RefInit, metrics = {}
    PROVE  RunsInv
  <1>1. Runs(metrics) = {} /\ LastWritten = 0
    BY PullInvInit DEF Runs, OfKinds
  <1> QED
    BY <1>1 DEF RunsInv, CountedOnce

\* A step of the ref counts no run twice and misses none (pipelines.go:153): a pipeline is counted
\* when the stored ref had an older one, and stored before it is counted.
LEMMA RunsInvStep ==
    ASSUME RefTyped, RefRelated, Right(metrics), VariablesInv, PullInv, RunsInv, RefStep, robbed' = robbed
    PROVE  RunsInv'
  <1> SUFFICES ASSUME Undisturbed'
               PROVE  RunsInv'
    BY DEF RunsInv
  <1>1. /\ Undisturbed
        /\ ~WritePipelineMetrics => LastWritten' = LastWritten
        /\ WritePipelineMetrics => /\ refPull.copy.latest.id <= refPull.pipeline.id
                                   /\ LastWritten = refPull.copy.latest.id /\ LastWritten' = refPull.pipeline.id
    BY PullInvStep
  <1>2. CASE ~WritePipelineMetrics
    <2>1. Runs(metrics') = Runs(metrics) /\ LastWritten' = LastWritten
      BY <1>1, <1>2, RefTableStep DEF Runs
    <2> QED
      BY <1>1, <2>1 DEF RunsInv
  <1>3. CASE WritePipelineMetrics
    <2>1. PICK former \in Pipeline, pipeline \in Pipeline : former = refPull.copy.latest /\ pipeline = refPull.pipeline
      BY RefFacts
    <2>2. /\ former.id \in Nat /\ pipeline.id \in Nat /\ pipeline.id # 0 /\ former.id <= pipeline.id
          /\ LastWritten = former.id /\ LastWritten' = pipeline.id
      <3>1. Busy(refPull) /\ HasRead(refPull)
        BY <1>3 DEF WritePipelineMetrics, Busy, HasRead
      <3>2. refPull.pipeline.id \in 1..Len(pipelines)
        BY <3>1, RefTodo DEF RefRelated, OfPipelines, Current
      <3>3. former.id \in Nat /\ pipeline.id \in Nat
        BY <2>1, RefFacts
      <3> QED
        BY <1>1, <1>3, <2>1, <3>2, <3>3
    <2>3. PICK x : x = CountedRun
      OBVIOUS
    <2>4. /\ Sound(x) /\ x.kind = "RunCount" /\ x.labels.pipeline_id = pipeline.id
          /\ \/ /\ \A m \in metrics : Key(m) # Key(x)
                /\ x.value = IF CountRun(former, pipeline) THEN 1 ELSE 0
             \/ /\ StoredRun \in metrics /\ StoredRun.kind = "RunCount" /\ Key(StoredRun) = Key(x)
                /\ ~CountRun(former, pipeline) => x = StoredRun
      BY <2>1, <2>3, CountedRunIs DEF Right
    <2>5. \A m : m.kind = "RunCount" =>
             (m \in metrics' <=> \/ m = x /\ "RunCount" \in Kept
                                 \/ m \in metrics /\ ("RunCount" \in Kept => Key(x) # Key(m)))
      BY <1>3, <2>3, PipelineWrite
    <2>6. \A m \in Runs(metrics) : /\ m \in metrics /\ m.kind = "RunCount" /\ m.labels.pipeline_id \in Nat
                                   /\ m.labels.pipeline_id <= former.id
      <3>1. \A m \in Runs(metrics) : m.labels.pipeline_id <= LastWritten
        BY <1>1 DEF RunsInv
      <3>2. \A m \in Runs(metrics) : m.labels.pipeline_id \in 1..Len(pipelines)
        BY DEF VariablesInv
      <3> QED
        BY <2>2, <3>1, <3>2, RefFacts DEF Runs, OfKinds, OneRun
    <2>7. CASE "RunCount" \notin Kept
      <3>1. Runs(metrics) = {}
        BY <2>7 DEF Runs, OfKinds, OneRun, Right, Table
      <3>2. Runs(metrics') = {}
        BY <2>5, <2>7, <3>1 DEF Runs, OfKinds, OneRun
      <3> QED
        BY <2>2, <2>7, <3>2 DEF RunsInv, CountedOnce
    <2>8. CASE "RunCount" \in Kept
      <3>1. \A m : m \in Runs(metrics') <=> m = x \/ (m \in Runs(metrics) /\ Key(x) # Key(m))
        BY <2>4, <2>5, <2>8 DEF Runs, OfKinds, OneRun
      <3>2. x \in Runs(metrics') /\ \A m \in Runs(metrics') : m.labels.pipeline_id <= pipeline.id
        BY <2>2, <2>4, <2>6, <3>1
      <3>3. ASSUME ~robbed
            PROVE  CountedOnce(Runs(metrics'))
        <4>0. /\ CountedOnce(Runs(metrics))
              /\ former.id = 0 => Runs(metrics) = {}
              /\ former.id # 0 => \E m \in Runs(metrics) : m.labels.pipeline_id = former.id
          BY <1>1, <2>2, <2>8, <3>3 DEF RunsInv
        <4>1. CASE CountRun(former, pipeline)
          <5>1. former.id # 0 /\ former.id < pipeline.id
            BY <2>2, <4>1 DEF CountRun
          <5>2. "pipeline_id" \in KeyLabels("RunCount")
            BY RunIsKeyed
          <5>3. \A m \in Runs(metrics) : Key(m) # Key(x)
            <6> SUFFICES ASSUME NEW m \in Runs(metrics), Key(m) = Key(x)
                         PROVE  FALSE
              OBVIOUS
            <6>1. LabelOf(m, "pipeline_id") = LabelOf(x, "pipeline_id")
              BY <2>6, <5>2, KeyLabel
            <6>2. Sound(m) /\ m.kind = "RunCount"
              BY <2>6 DEF Right, Table
            <6>3. "pipeline_id" \in DOMAIN m.labels /\ "pipeline_id" \in DOMAIN x.labels
              BY <2>4, <6>2, RunIsKeyed DEF Sound, Exported
            <6>4. m.labels.pipeline_id = pipeline.id
              BY <2>4, <6>1, <6>3 DEF LabelOf
            <6> QED
              BY <2>2, <2>6, <5>1, <6>4
          <5>4. x.value = 1
            BY <2>4, <4>1, <5>3 DEF Runs, OfKinds, OneRun
          <5>5. Runs(metrics') = Runs(metrics) \cup {x}
            BY <3>1, <5>3
          <5>6. \A m \in Runs(metrics) : m.labels.pipeline_id \in Nat /\ m.labels.pipeline_id < x.labels.pipeline_id
            BY <2>2, <2>4, <2>6, <5>1
          <5> QED
            BY <2>2, <2>4, <4>0, <5>1, <5>4, <5>5, <5>6, OneMoreRun
        <4>2. CASE ~CountRun(former, pipeline)
          <5>1. former.id = 0 \/ former.id = pipeline.id
            BY <4>2 DEF CountRun
          <5>2. CASE x = StoredRun /\ StoredRun \in metrics
            <6>1. x \in Runs(metrics)
              BY <2>4, <5>2 DEF Runs, OfKinds, OneRun
            <6>2. \A m \in Runs(metrics) : Key(m) = Key(x) => m = x
              BY <2>4, <2>6, <5>2 DEF Right, Table, KeysDiffer
            <6>3. Runs(metrics') = Runs(metrics)
              BY <3>1, <6>1, <6>2
            <6> QED
              BY <4>0, <6>3
          <5>3. CASE (\A m \in metrics : Key(m) # Key(x)) /\ x.value = 0
            <6>1. Runs(metrics') = Runs(metrics) \cup {x}
              BY <2>6, <3>1, <5>3
            <6>2. Runs(metrics) = {} \/ \E m \in Runs(metrics) : m.labels.pipeline_id = x.labels.pipeline_id
              BY <2>2, <2>4, <4>0, <5>1
            <6>3. PICK runs : runs = Runs(metrics)
              OBVIOUS
            <6>4. x.value = 0 /\ x.labels.pipeline_id \in Nat
              BY <2>2, <2>4, <5>3
            <6>5. \A m \in runs : m.labels.pipeline_id \in Nat
              BY <2>6, <6>3
            <6>6. CountedOnce(runs)
              BY <4>0, <6>3
            <6>7. runs = {} \/ \E m \in runs : m.labels.pipeline_id = x.labels.pipeline_id
              BY <6>2, <6>3
            <6>8. CountedOnce(runs \cup {x})
              BY <6>4, <6>5, <6>6, <6>7, OneMoreOfNone
            <6> QED
              BY <6>1, <6>3, <6>8
          <5> QED
            BY <2>4, <4>2, <5>2, <5>3
        <4> QED
          BY <4>1, <4>2
      <3> QED
        BY <2>2, <2>4, <3>2, <3>3 DEF RunsInv
    <2> QED
      BY <2>7, <2>8
  <1> QED
    BY <1>2, <1>3


\* So runs are counted once.
LEMMA RunsAreCounted ==
    ASSUME VariablesInv, RunsInv
    PROVE  RunsCountedOnce
  <1> DEFINE runs == Runs(metrics)
             counted == {p \in 1..Len(pipelines) : OfPipeline("RunCount", p) # {}}
  <1>1. \A p : OfPipeline("RunCount", p) = {m \in runs : m.labels.pipeline_id = p}
    BY DEF OfPipeline, Runs, OfKinds, OneRun
  <1>2. \A p : Counts(p) = CountsIn(runs, p)
    BY <1>1 DEF Counts, CountsIn
  <1>3. \A m \in runs : m.labels.pipeline_id \in 1..Len(pipelines)
    BY DEF VariablesInv
  <1>4. \A p : p \in counted <=> \E m \in runs : m.labels.pipeline_id = p
    BY <1>1, <1>3
  <1>5. \A p : (\A q \in counted : p <= q) <=> First(runs, p)
    BY <1>4 DEF First
  <1>6. ASSUME settings.perRef = 1, ~disturbed, ~robbed, NEW p \in counted
        PROVE  IF \A q \in counted : p <= q THEN Counts(p) = {}
               ELSE \E m \in Counts(p) : Counts(p) = {m} /\ m.value = 1
    <2>1. CountedOnce(runs)
      BY <1>6 DEF RunsInv, Undisturbed
    <2>2. PICK m \in runs : m.labels.pipeline_id = p
      BY <1>4
    <2>3. CountsOf(runs, p)
      BY <2>1, <2>2 DEF CountedOnce
    <2>4. CASE First(runs, p)
      <3>1. Counts(p) = {}
        BY <1>2, <2>3, <2>4 DEF CountsOf
      <3> QED
        BY <1>5, <2>4, <3>1
    <2>5. CASE ~First(runs, p)
      <3>1. PICK x \in runs : CountsIn(runs, p) = {x} /\ x.value = 1
        BY <2>3, <2>5 DEF CountsOf
      <3>2. x \in Counts(p) /\ Counts(p) = {x}
        BY <1>2, <3>1
      <3> QED
        BY <1>5, <2>5, <3>1, <3>2
    <2> QED
      BY <2>4, <2>5
  <1>7. ASSUME NEW p \in counted
        PROVE  Cardinality({m.labels.variables : m \in OfPipeline("RunCount", p)}) = 1
    <2>1. PICK v : v = IF settings.variables THEN variables[p] ELSE ""
      OBVIOUS
    <2>2. \A m \in OfPipeline("RunCount", p) : m.labels.variables = v
      BY <1>1, <2>1 DEF VariablesInv, HasVariables
    <2>3. {m.labels.variables : m \in OfPipeline("RunCount", p)} = {v}
      BY <2>2
    <2> QED
      BY <2>3, FS_Singleton
  <1> QED
    BY <1>6, <1>7 DEF RunsCountedOnce

\* So the type invariant of refs holds.
LEMMA RefsAreTyped ==
    ASSUME RefTyped, RefRelated
    PROVE  RefTypeOK
  <1>1. refPull.todo \in Seq(Nat) /\ Len(refPull.todo) \in Nat /\ DOMAIN refPull.todo = 1..Len(refPull.todo)
    BY RefFacts, LenProperties
  <1>2. \A i \in DOMAIN refPull.todo : refPull.todo[i] \in 1..Len(pipelines)
    BY <1>1 DEF RefRelated, OfPipelines
  <1>3. refPull.stage \notin {"idle", "queued", "listing"} => refPull.todo # <<>>
    BY DEF RefRelated, OfPipelines, Busy
  <1>4. ref.latest.id \in 0..Len(pipelines)
    <2>1. PICK id, n : id = ref.latest.id /\ n = Len(pipelines)
      OBVIOUS
    <2>2. id \in Nat /\ n \in Nat
      BY <2>1, RefFacts
    <2>3. id <= n
      BY <2>1 DEF RefRelated
    <2> QED
      BY <2>1, <2>2, <2>3
  <1>5. refPull.stage \in RefStages /\ pipelines \in Seq(Job) /\ drops \in 0..MaxDrops
    BY RefFacts DEF RefTyped
  <1> QED
    BY <1>2, <1>3, <1>4, <1>5 DEF RefTypeOK, RefRelated, RefStages

\* What others do.
LEMMA RefTypesStay ==
    ASSUME RefTyped, RefRelated, UNCHANGED refVars
    PROVE  RefTyped' /\ RefRelated'
  BY DEF refVars, RefTyped, RefRelated, OfPipelines, Busy, HasRead

\* A step of others leaves the pull as it is.
LEMMA PullInvStays ==
    ASSUME PullInv, UNCHANGED refVars
    PROVE  PullInv'
  BY DEF refVars, PullInv, Undisturbed, Busy, Current

\* Deleting runs leaves the variables of the others.
LEMMA VariablesInvLess ==
    ASSUME VariablesInv, UNCHANGED refVars, Runs(metrics') \subseteq Runs(metrics)
    PROVE  VariablesInv'
  BY DEF refVars, VariablesInv, HasVariables

\* What deletes run counters deletes those of a ref that is not stored, or robs it.
LEMMA RunsInvLess ==
    ASSUME PullInv, RunsInv, UNCHANGED refVars, Runs(metrics') \subseteq Runs(metrics),
           ~robbed' => ~robbed /\ (~ref.stored \/ Runs(metrics') = Runs(metrics))
    PROVE  RunsInv'
  <1>1. LastWritten' = LastWritten /\ (Undisturbed' <=> Undisturbed)
    BY DEF refVars, LastWritten, Undisturbed
  <1> SUFFICES ASSUME Undisturbed
               PROVE  RunsInv'
    BY <1>1 DEF RunsInv
  <1>2. /\ \A m \in Runs(metrics') : m.labels.pipeline_id <= LastWritten'
        /\ LastWritten' = 0 => Runs(metrics') = {}
    BY <1>1 DEF RunsInv
  <1>3. CASE robbed'
    BY <1>2, <1>3 DEF RunsInv
  <1>4. CASE ~robbed /\ Runs(metrics') = Runs(metrics)
    BY <1>1, <1>2, <1>4 DEF RunsInv
  <1>5. CASE ~ref.stored
    <2>1. LastWritten = 0
      BY <1>5, RefRecords DEF PullInv, LastWritten
    <2>2. Runs(metrics') = {}
      BY <1>1, <1>2, <2>1
    <2> QED
      BY <1>1, <1>2, <2>1, <2>2 DEF RunsInv, CountedOnce
  <1> QED
    BY <1>3, <1>4, <1>5

-----------------------------------------------------------------------------
\* The statuses of pipelines and jobs.

StatusesOf(table) == OfKinds(table, {"Status", "JobStatus"})

\* The IDs of the attempts at the job of a pipeline.
JobsOf(p) == {2 * p, 2 * p + 1}

\* A status is of the ref, of a pipeline with the variables it was first seen with, or of a job
\* of the pipeline it is labelled with.
StatusLabelled(m) ==
    /\ m.labels.project = "p" /\ m.labels.kind = settings.kind /\ m.labels.ref = "r"
    /\ m.kind = "Status" =>
          m.labels.source = "push" /\ HasVariables(variables, m.labels.pipeline_id, m.labels.variables)
    /\ m.kind = "JobStatus" =>
          /\ m.labels.stage = "s" /\ m.labels.job_name = "j" /\ m.labels.tag_list = ""
          /\ m.labels.pipeline_id \in Nat /\ m.labels.job_id \in JobsOf(m.labels.pipeline_id)

StatusesInv ==
    /\ \A m \in StatusesOf(metrics) : StatusLabelled(m)
    /\ \A p \in 1..Len(pipelines) : pipelines[p].id \in JobsOf(p)
    /\ refPull.stage = "job" => refPull.job.id \in JobsOf(refPull.pipeline.id)

\* No status at first, and no pipeline.
LEMMA StatusesInit ==
    ASSUME RefInit, metrics = {}
    PROVE  StatusesInv
  <1>1. Len(pipelines) = 0 /\ refPull.stage = "idle"
    BY RefRecords DEF RefInit, NoRefPull
  <1>2. 1..Len(pipelines) = {}
    BY <1>1
  <1> QED
    BY <1>1, <1>2 DEF StatusesInv, StatusesOf, OfKinds

\* A status that emitStatusMetric writes has the labels it is given and a status of the list.
LEMMA EmittedLabels ==
    ASSUME NEW table, NEW kind, NEW labels, NEW status, NEW sparse,
           NEW m \in EmitStatus(table, kind, labels, status, sparse)
    PROVE  m \in table \/ (m.kind = kind /\ \E s \in statusesList : m.labels = WithStatus(labels, s))
  <1> DEFINE Of(s) == Metric(kind, WithStatus(labels, s), IF s = status THEN 1 ELSE 0)
  <1>1. \A s : Of(s).kind = kind /\ Of(s).labels = WithStatus(labels, s)
    BY Fields
  <1>2. m \in table \/ \E s \in statusesList : m = Of(s)
    BY InEmitStatus
  <1> HIDE DEF Of
  <1> QED
    BY <1>1, <1>2

\* The status of a pipeline that is written is that of the pipeline the pull has read ...
LEMMA PipelineStatus ==
    ASSUME RefTyped, Right(metrics), WritePipelineMetrics, NEW m \in StatusesOf(metrics')
    PROVE  \/ m \in StatusesOf(metrics)
           \/ /\ m.kind = "Status"
              /\ \E s \in statusesList : m.labels = WithStatus(PipelineLabelsValues(refPull.pipeline), s)
  <1> DEFINE labels == PipelineLabelsValues(refPull.pipeline)
             new == {CountedRun} \cup PipelineGaugesWritten
  <1>1. m \in metrics' /\ m.kind \in {"Status", "JobStatus"}
    BY DEF StatusesOf, OfKinds
  <1>2. \/ m \in SetMetrics(metrics, new)
        \/ m.kind = "Status" /\ \E s \in statusesList : m.labels = WithStatus(labels, s)
    BY <1>1, PipelineWriteIs, EmittedLabels
  <1>3. ASSUME NEW x \in new
        PROVE  x.kind \notin {"Status", "JobStatus"}
    <2>1. CASE x = CountedRun
      BY <2>1, CountedRunIs DEF Right
    <2>2. CASE x \in PipelineGaugesWritten
      <3>1. x.kind \in PipelineGaugeKinds \cup {"ID", "Timestamp"}
        BY <2>2, Fields DEF PipelineGaugesWritten, Gauges
      <3> QED
        BY <3>1 DEF PipelineGaugeKinds
    <2> QED
      BY <1>3, <2>1, <2>2
  <1>4. m \in SetMetrics(metrics, new) => m \in metrics
    BY <1>1, <1>3, InSetMetrics
  <1> QED
    BY <1>1, <1>2, <1>4 DEF StatusesOf, OfKinds

\* ... and that of a job is of the job it has read.
LEMMA JobStatus ==
    ASSUME RefTyped, Right(metrics), ProcessJobMetrics, NEW m \in StatusesOf(metrics')
    PROVE  \/ m \in StatusesOf(metrics)
           \/ /\ m.kind = "JobStatus"
              /\ \E s \in statusesList : m.labels = WithStatus(JobLabelsValues(refPull.pipeline, refPull.job), s)
  <1>0. m \in metrics' /\ m.kind \in {"Status", "JobStatus"}
    BY DEF StatusesOf, OfKinds
  <1>1. CASE metrics' = metrics
    BY <1>0, <1>1 DEF StatusesOf, OfKinds
  <1>2. CASE metrics' # metrics
    <2>1. PICK labels : labels = JobLabelsValues(refPull.pipeline, refPull.job)
      OBVIOUS
    <2>2. PICK none : none = Metric("JobRunCount", labels, 0)
      OBVIOUS
    <2>3. PICK new, sparse :
             /\ \A x \in new : x.kind \notin {"Status", "JobStatus"}
             /\ metrics' = EmitStatus(SetMetrics(metrics, new), "JobStatus", labels, refPull.job.status, sparse)
      <3> DEFINE current == IF ref.stored THEN ref ELSE PulledRef
                 exists == MetricExists(metrics, none)
                 count == IF exists /\ CountJob(current.job, refPull.job)
                          THEN [none EXCEPT !.value = GetMetric(metrics, none).value + 1] ELSE none
                 gauges == Gauges(JobKinds \ {"JobRunCount", "JobStatus"}, labels, refPull.job.id)
      <3>1. metrics' = EmitStatus(SetMetrics(metrics, {count} \cup gauges), "JobStatus", labels,
                                  refPull.job.status, current.sparse)
        BY <1>2, <2>1, <2>2 DEF ProcessJobMetrics
      <3>2. count.kind = "JobRunCount"
        <4>1. none.kind = "JobRunCount"
          BY <2>2, Fields
        <4>2. ASSUME NEW value
              PROVE  [none EXCEPT !.value = value].kind = "JobRunCount"
          BY <2>2 DEF Metric
        <4> QED
          BY <4>1, <4>2
      <3>3. ASSUME NEW x \in gauges
            PROVE  x.kind \in JobKinds \ {"JobRunCount", "JobStatus"}
        BY <3>3, Fields DEF Gauges
      <3>4. "Status" \notin JobKinds
        BY DEF JobKinds
      <3>5. \A x \in {count} \cup gauges : x.kind \notin {"Status", "JobStatus"}
        BY <3>2, <3>3, <3>4
      <3> HIDE DEF count, gauges, current
      <3> QED
        BY <3>1, <3>5
    <2>4. m \in SetMetrics(metrics, new) => m \in metrics
      BY <1>0, <2>3, InSetMetrics
    <2>5. \/ m \in SetMetrics(metrics, new)
          \/ m.kind = "JobStatus" /\ \E s \in statusesList : m.labels = WithStatus(labels, s)
      BY <1>0, <2>3, EmittedLabels
    <2> QED
      BY <1>0, <2>1, <2>4, <2>5 DEF StatusesOf, OfKinds
  <1> QED
    BY <1>1, <1>2

\* The labels that are written with a pipeline's status, whichever it is.
LEMMA PipelineStatusLabels ==
    ASSUME NEW pipeline, NEW s, NEW m, m.labels = WithStatus(PipelineLabelsValues(pipeline), s)
    PROVE  /\ m.labels.project = "p" /\ m.labels.kind = settings.kind /\ m.labels.ref = "r"
           /\ m.labels.source = "push" /\ m.labels.pipeline_id = pipeline.id
           /\ m.labels.variables = pipeline.variables
  BY DEF WithStatus, PipelineLabelsValues

\* Every attempt at a job has an ID of its pipeline's.
LEMMA JobIDsStep ==
    ASSUME RefTyped, RefTyped', StatusesInv, RefStep
    PROVE  \A p \in 1..Len(pipelines') : pipelines'[p].id \in JobsOf(p)
  <1>1. pipelines \in Seq(Job) /\ Len(pipelines) \in Nat /\ \A p \in 1..Len(pipelines) : pipelines[p].id \in JobsOf(p)
    BY LenProperties DEF RefTyped, StatusesInv
  <1>2. CASE CreatePipeline
    <2>1. PICK status : pipelines' = Append(pipelines, [JobOf(Len(pipelines) + 1, 0) EXCEPT !.status = status])
      BY <1>2 DEF CreatePipeline
    <2>2. PICK job : job = [JobOf(Len(pipelines) + 1, 0) EXCEPT !.status = status]
      OBVIOUS
    <2>3. job.id = 2 * (Len(pipelines) + 1) + 0
      BY <2>2 DEF JobOf
    <2>4. job.id \in JobsOf(Len(pipelines) + 1)
      BY <1>1, <2>3 DEF JobsOf
    <2>5. /\ Len(pipelines') = Len(pipelines) + 1 /\ pipelines'[Len(pipelines) + 1] = job
          /\ \A p \in 1..Len(pipelines) : pipelines'[p] = pipelines[p]
      BY <1>1, <2>1, <2>2
    <2> QED
      BY <1>1, <2>4, <2>5
  <1>3. ASSUME NEW q \in DOMAIN pipelines, ChangeJob(q)
        PROVE  \A p \in 1..Len(pipelines') : pipelines'[p].id \in JobsOf(p)
    <2>1. q \in 1..Len(pipelines) /\ pipelines[q] \in Job /\ q \in Nat
      BY <1>1, <1>3, ElementOfSeq
    <2>2. PICK job : pipelines' = [pipelines EXCEPT ![q] = job] /\ (job.id = pipelines[q].id \/ job.id = 2 * q + 1)
      <3>1. PICK old \in Job : old = pipelines[q]
        BY <2>1
      <3>2. \/ pipelines' = [pipelines EXCEPT ![q] = [old EXCEPT !.status = "running"]]
            \/ pipelines' = [pipelines EXCEPT ![q] = [old EXCEPT !.status = "success"]]
            \/ pipelines' = [pipelines EXCEPT ![q] = [old EXCEPT !.status = "failed", !.reason = "script_failure"]]
            \/ pipelines' = [pipelines EXCEPT ![q] = JobOf(q, 1)]
        BY <1>3, <3>1 DEF ChangeJob
      <3>3. \A status, reason : /\ [old EXCEPT !.status = status].id = old.id
                                /\ [old EXCEPT !.status = status, !.reason = reason].id = old.id
        BY DEF Job
      <3>4. JobOf(q, 1).id = 2 * q + 1
        BY DEF JobOf
      <3>5. PICK running, success, failed, retried :
               /\ running = [old EXCEPT !.status = "running"] /\ success = [old EXCEPT !.status = "success"]
               /\ failed = [old EXCEPT !.status = "failed", !.reason = "script_failure"]
               /\ retried = JobOf(q, 1)
        OBVIOUS
      <3>6. running.id = old.id /\ success.id = old.id /\ failed.id = old.id /\ retried.id = 2 * q + 1
        BY <3>3, <3>4, <3>5
      <3>7. pipelines' \in {[pipelines EXCEPT ![q] = job] : job \in {running, success, failed, retried}}
        BY <3>2, <3>5
      <3> QED
        BY <3>1, <3>6, <3>7
    <2>3. Len(pipelines') = Len(pipelines) /\ pipelines'[q] = job
          /\ \A p \in 1..Len(pipelines) : p # q => pipelines'[p] = pipelines[p]
      BY <1>1, <2>1, <2>2
    <2>4. job.id \in JobsOf(q)
      BY <1>1, <2>1, <2>2 DEF JobsOf
    <2> QED
      BY <1>1, <2>3, <2>4
  <1>4. CASE RefPullStep \/ DiscoverRef \/ DropRef \/ SnapshotRef \/ WriteSnapshotBack
    <2>1. pipelines' = pipelines
      BY <1>4 DEF RefPullStep, DiscoverRef, DropRef, SnapshotRef, WriteSnapshotBack, ScheduleRefMetrics,
          RefreshRef, GetProjectPipelines, GetRefPipeline, PullVariables, StorePipeline, WritePipelineMetrics,
          PullRefPipelineJobsMetrics, ProcessJobMetrics, PullTestReport, pulledVars
    <2> QED
      BY <1>1, <2>1
  <1> QED
    BY <1>2, <1>3, <1>4 DEF RefStep, RefOthers

\* The pull gets to a job by reading it.
LEMMA JobIsRead ==
    ASSUME RefTyped, RefRelated, RefStep, refPull'.stage = "job"
    PROVE  refPull' = refPull \/ PullRefPipelineJobsMetrics
  <1>1. CASE RefOthers
    BY <1>1 DEF RefOthers, CreatePipeline, ChangeJob, DiscoverRef, DropRef, SnapshotRef, WriteSnapshotBack
  <1>2. ASSUME Busy(refPull), refPull' = NextPipeline
        PROVE  FALSE
    BY <1>2, NextStages
  <1>3. ASSUME Busy(refPull), refPull' = ReportOrNext
        PROVE  FALSE
    BY <1>3, ReportStages
  <1>4. CASE ScheduleRefMetrics
    BY <1>4, ScheduleShape, PullOf
  <1>5. CASE RefreshRef
    <2>1. PICK copy : copy = IF ref.stored THEN ref ELSE refPull.copy
      OBVIOUS
    <2>2. refPull' = Pull("listing", copy, refPull.todo, refPull.pipeline, refPull.job)
      BY <1>5, <2>1, RefreshShape
    <2> QED
      BY <2>2, PullOf
  <1>6. CASE GetProjectPipelines
    <2>1. CASE refPull' = NoRefPull
      BY <2>1, RefRecords DEF NoRefPull
    <2>2. CASE refPull' = Pull("reading", refPull.copy, ListPipelines, refPull.pipeline, refPull.job)
      BY <2>2, PullOf
    <2> QED
      BY <1>6, <2>1, <2>2, ListShape
  <1>7. CASE GetRefPipeline
    <2>1. CASE refPull' = NextPipeline
      BY <1>2, <1>7, <2>1 DEF GetRefPipeline, Busy
    <2>2. CASE refPull' # NextPipeline
      <3>1. PICK pipeline \in Pipeline :
               refPull' = Pull(IF settings.variables THEN "variables" ELSE "storing",
                               refPull.copy, refPull.todo, pipeline, refPull.job)
        BY <1>7, <2>2, GetShape
      <3>2. PICK stage : stage = IF settings.variables THEN "variables" ELSE "storing"
        OBVIOUS
      <3>3. refPull' = Pull(stage, refPull.copy, refPull.todo, pipeline, refPull.job)
        BY <3>1, <3>2
      <3> QED
        BY <3>2, <3>3, PullOf
    <2> QED
      BY <2>1, <2>2
  <1>8. CASE PullVariables
    <2>1. CASE refPull' = NextPipeline
      BY <1>2, <1>8, <2>1 DEF PullVariables, Busy
    <2>2. CASE refPull' # NextPipeline
      <3>1. PICK pipeline \in Pipeline :
               refPull' = Pull("storing", refPull.copy, refPull.todo, pipeline, refPull.job)
        BY <1>8, <2>2, VariablesShape
      <3> QED
        BY <3>1, PullOf
    <2> QED
      BY <2>1, <2>2
  <1>9. CASE StorePipeline
    <2>1. refPull' = Moved("writing")
      BY <1>9, MovedStage DEF StorePipeline
    <2> QED
      BY <2>1, PullOf DEF Moved
  <1>10. CASE WritePipelineMetrics
    <2>1. CASE refPull' = Moved("jobs")
      BY <2>1, PullOf DEF Moved
    <2>2. CASE refPull' = ReportOrNext
      BY <1>3, <1>10, <2>2 DEF WritePipelineMetrics, Busy
    <2> QED
      BY <1>10, <2>1, <2>2, MovedStage DEF WritePipelineMetrics
  <1>11. CASE ProcessJobMetrics
    BY <1>3, <1>11 DEF ProcessJobMetrics, Busy
  <1>12. CASE PullTestReport
    BY <1>2, <1>12 DEF PullTestReport, Busy
  <1> QED
    BY <1>1, <1>4, <1>5, <1>6, <1>7, <1>8, <1>9, <1>10, <1>11, <1>12 DEF RefStep, RefPullStep

\* A step of the ref keeps the labels of the statuses.
LEMMA StatusesStep ==
    ASSUME RefTyped, RefRelated, RefTyped', Right(metrics), VariablesInv, StatusesInv, RefStep
    PROVE  StatusesInv'
  <1>1. settings' = settings
    BY PipelinesGrow
  <1>2. \A p, v : HasVariables(variables, p, v) => HasVariables(variables', p, v)
    BY <1>1, VariablesStay
  <1>3. ASSUME NEW m, StatusLabelled(m)
        PROVE  StatusLabelled(m)'
    <2>1. \A p, v : HasVariables(variables, p, v) => HasVariables(variables, p, v)'
      BY <1>1, <1>2 DEF HasVariables
    <2> QED
      BY <1>1, <1>3, <2>1 DEF StatusLabelled
  <1>4. ASSUME NEW m \in StatusesOf(metrics'), m \notin StatusesOf(metrics)
        PROVE  StatusLabelled(m)
    <2>1. CASE WritePipelineMetrics
      <3>1. m.kind = "Status" /\ \E s \in statusesList : m.labels = WithStatus(PipelineLabelsValues(refPull.pipeline), s)
        BY <1>4, <2>1, PipelineStatus
      <3>2. HasVariables(variables, refPull.pipeline.id, refPull.pipeline.variables)
        BY <2>1 DEF WritePipelineMetrics, VariablesInv
      <3>3. /\ m.labels.project = "p" /\ m.labels.kind = settings.kind /\ m.labels.ref = "r"
            /\ m.labels.source = "push" /\ m.labels.pipeline_id = refPull.pipeline.id
            /\ m.labels.variables = refPull.pipeline.variables
        BY <3>1, PipelineStatusLabels
      <3> QED
        BY <3>1, <3>2, <3>3 DEF StatusLabelled
    <2>2. CASE ProcessJobMetrics
      <3>1. /\ m.kind = "JobStatus"
            /\ \E s \in statusesList : m.labels = WithStatus(JobLabelsValues(refPull.pipeline, refPull.job), s)
        BY <1>4, <2>2, JobStatus
      <3>2. refPull.job.id \in JobsOf(refPull.pipeline.id)
        BY <2>2 DEF ProcessJobMetrics, StatusesInv
      <3>3. refPull.pipeline.id \in Nat
        BY RefFacts
      <3>4. /\ m.labels.project = "p" /\ m.labels.kind = settings.kind /\ m.labels.ref = "r"
            /\ m.labels.stage = "s" /\ m.labels.job_name = "j" /\ m.labels.tag_list = ""
            /\ m.labels.pipeline_id = refPull.pipeline.id /\ m.labels.job_id = refPull.job.id
        <4>1. PICK pipeline, job, status :
                 /\ pipeline = refPull.pipeline /\ job = refPull.job
                 /\ m.labels = WithStatus(JobLabelsValues(pipeline, job), status)
          BY <3>1
        <4>2. /\ m.labels.project = "p" /\ m.labels.kind = settings.kind /\ m.labels.ref = "r"
              /\ m.labels.stage = "s" /\ m.labels.job_name = "j" /\ m.labels.tag_list = ""
              /\ m.labels.pipeline_id = pipeline.id /\ m.labels.job_id = job.id
          BY <4>1 DEF WithStatus, JobLabelsValues
        <4> QED
          BY <4>1, <4>2
      <3> QED
        BY <3>1, <3>2, <3>3, <3>4 DEF StatusLabelled
    <2>3. CASE PullTestReport
      <3>1. {"Status", "JobStatus"} \cap TestKinds = {}
        BY DEF TestKinds, TestReportKinds, TestSuiteKinds, TestCaseKinds
      <3>2. StatusesOf(metrics') = StatusesOf(metrics)
        BY <2>3, <3>1, ReportWrite DEF StatusesOf
      <3> QED
        BY <1>4, <3>2
    <2>4. CASE metrics' = metrics
      BY <1>4, <2>4
    <2> QED
      BY <2>1, <2>2, <2>3, <2>4, RefWrites
  <1>5. refPull'.stage = "job" => refPull'.job.id \in JobsOf(refPull'.pipeline.id)
    <2> SUFFICES ASSUME refPull'.stage = "job"
                 PROVE  refPull'.job.id \in JobsOf(refPull'.pipeline.id)
      OBVIOUS
    <2>1. CASE refPull' = refPull
      BY <2>1 DEF StatusesInv
    <2>2. CASE PullRefPipelineJobsMetrics
      <3>1. PICK pull \in RefTask : pull = refPull
        BY DEF RefTyped
      <3>2. Busy(refPull) /\ HasRead(refPull)
        BY <2>2 DEF PullRefPipelineJobsMetrics, Busy, HasRead
      <3>3. Current \in 1..Len(pipelines) /\ refPull.pipeline.id = Current
        BY <3>2, RefTodo DEF RefRelated, OfPipelines, Current
      <3>4. PICK job : job = pipelines[Current]
        OBVIOUS
      <3>5. job.id \in JobsOf(pull.pipeline.id)
        BY <3>1, <3>3, <3>4 DEF StatusesInv
      <3>6. refPull' # NextPipeline
        BY <3>2, NextStages
      <3>7. refPull' = [pull EXCEPT !.stage = "job", !.job = job]
        BY <2>2, <3>1, <3>4, <3>6 DEF PullRefPipelineJobsMetrics
      <3>8. refPull'.job = job /\ refPull'.pipeline = pull.pipeline
        BY <3>7 DEF RefTask
      <3> QED
        BY <3>5, <3>8
    <2> QED
      BY <2>1, <2>2, JobIsRead
  <1>6. \A m \in StatusesOf(metrics') : StatusLabelled(m)'
    BY <1>3, <1>4 DEF StatusesInv
  <1>7. \A p \in 1..Len(pipelines') : pipelines'[p].id \in JobsOf(p)
    BY JobIDsStep
  <1> QED
    BY <1>5, <1>6, <1>7 DEF StatusesInv

\* Deleting statuses leaves the labels of the others.
LEMMA StatusesInvLess ==
    ASSUME StatusesInv, UNCHANGED refVars, StatusesOf(metrics') \subseteq StatusesOf(metrics)
    PROVE  StatusesInv'
  BY DEF refVars, StatusesInv, StatusLabelled, HasVariables

\* The labels that tell statuses apart, but for the status itself.
LEMMA StatusKeyLabels ==
    /\ KeyLabels("Status") \ {"status"} = {"project", "kind", "ref", "source", "variables", "pipeline_id"}
    /\ KeyLabels("JobStatus") \ {"status"}
         = {"project", "kind", "ref", "stage", "tag_list", "job_name", "job_id", "pipeline_id", "failure_reason"}
    /\ KeyLabels("TestCaseStatus") \ {"status"} = IdentityLabels("TestCaseStatus")
    /\ KeyLabels("EnvironmentDeploymentStatus") \ {"status"} = IdentityLabels("EnvironmentDeploymentStatus")
  BY DEF KeyLabels, IdentityLabels, PipelineKinds, PipelineGaugeKinds, RunKinds, JobKinds, TestReportKinds,
         TestSuiteKinds, TestCaseKinds, EnvironmentKinds, EnvironmentLabels, TestSuiteLabels, TestCaseLabels

\* A pipeline, a job with one failure reason, an environment and a test case have one status each
\* that is 1 at most: all other labels of a status are those of the thing.
LEMMA StatusesAreOne ==
    ASSUME Right(metrics), StatusesInv
    PROVE  OneStatusPerReason
  <1> SUFFICES ASSUME NEW m \in StatusesSet, NEW n \in StatusesSet, SameThing(m, n),
                      m.kind = "JobStatus" => LabelOf(m, "failure_reason") = LabelOf(n, "failure_reason")
               PROVE  m = n
    BY DEF OneStatusPerReason
  <1>1. /\ m \in metrics /\ n \in metrics /\ m.kind \in StatusKinds /\ n.kind = m.kind
        /\ m.value = 1 /\ n.value = 1
        /\ \A label \in IdentityLabels(m.kind) : LabelOf(m, label) = LabelOf(n, label)
    BY DEF StatusesSet, SameThing
  <1>2. DOMAIN m.labels = NewRegistry[m.kind] /\ DOMAIN n.labels = NewRegistry[m.kind]
    BY <1>1 DEF Right, Table, Sound, Exported
  <1>3. \A label \in NewRegistry[m.kind] : LabelOf(m, label) = m.labels[label] /\ LabelOf(n, label) = n.labels[label]
    BY <1>2 DEF LabelOf
  <1>4. \A label \in KeyLabels(m.kind) \ {"status"} : LabelOf(m, label) = LabelOf(n, label)
    <2>1. CASE m.kind = "Status"
      <3>1. NewRegistry["Status"] = {"project", "topics", "kind", "ref", "source", "variables", "pipeline_id", "status"}
        BY RefCollectors DEF PipelineKinds, RunKinds
      <3>2. StatusLabelled(m) /\ StatusLabelled(n)
        BY <1>1, <2>1 DEF StatusesInv, StatusesOf, OfKinds
      <3>3. m.labels.pipeline_id = n.labels.pipeline_id
        BY <1>1, <1>3, <2>1, <3>1 DEF IdentityLabels
      <3>4. m.labels.variables = n.labels.variables
        BY <1>1, <2>1, <3>2, <3>3 DEF StatusLabelled, HasVariables
      <3>5. m.labels.project = n.labels.project /\ m.labels.kind = n.labels.kind /\ m.labels.ref = n.labels.ref
            /\ m.labels.source = n.labels.source
        BY <1>1, <2>1, <3>2 DEF StatusLabelled
      <3> QED
        BY <1>3, <2>1, <3>1, <3>3, <3>4, <3>5, StatusKeyLabels
    <2>2. CASE m.kind = "JobStatus"
      <3>1. NewRegistry["JobStatus"]
              = {"project", "topics", "kind", "ref", "source", "variables", "stage", "job_name",
                 "runner_description", "tag_list", "pipeline_id", "job_id", "status", "failure_reason"}
        BY RefCollectors DEF JobKinds
      <3>2. StatusLabelled(m) /\ StatusLabelled(n)
        BY <1>1, <2>2 DEF StatusesInv, StatusesOf, OfKinds
      <3>3. m.labels.job_id = n.labels.job_id
        BY <1>1, <1>3, <2>2, <3>1 DEF IdentityLabels
      <3>4. m.labels.pipeline_id = n.labels.pipeline_id
        <4>1. PICK p \in Nat : p = m.labels.pipeline_id /\ m.labels.job_id \in {2 * p, 2 * p + 1}
          BY <1>1, <2>2, <3>2 DEF StatusLabelled, JobsOf
        <4>2. PICK q \in Nat : q = n.labels.pipeline_id /\ n.labels.job_id \in {2 * q, 2 * q + 1}
          BY <1>1, <2>2, <3>2 DEF StatusLabelled, JobsOf
        <4>3. p = q
          BY <3>3, <4>1, <4>2
        <4> QED
          BY <4>1, <4>2, <4>3
      <3>5. m.labels.project = n.labels.project /\ m.labels.kind = n.labels.kind /\ m.labels.ref = n.labels.ref
            /\ m.labels.stage = n.labels.stage /\ m.labels.job_name = n.labels.job_name
            /\ m.labels.tag_list = n.labels.tag_list
        BY <1>1, <2>2, <3>2 DEF StatusLabelled
      <3> QED
        BY <1>3, <2>2, <3>1, <3>3, <3>4, <3>5, StatusKeyLabels
    <2>3. CASE m.kind \in {"TestCaseStatus", "EnvironmentDeploymentStatus"}
      BY <1>1, <2>3, StatusKeyLabels
    <2> QED
      BY <1>1, <2>1, <2>2, <2>3 DEF StatusKinds
  <1> QED
    BY <1>1, <1>4 DEF Right, OneEach
=============================================================================
