---------------------------- MODULE RefCollection ----------------------------
(***************************************************************************)
(* Which refs (branches, tags, merge requests) the exporter tracks: the    *)
(* discovery of a project and its refs (pkg/controller/projects.go,        *)
(* refs.go), the collection of refs (garbage_collector.go), the webhook    *)
(* events that store or delete a ref (webhooks.go) and the metrics pull    *)
(* that writes a ref back (pipelines.go, jobs.go), all on one store.       *)
(*                                                                         *)
(* Task handlers and webhook goroutines interleave between any two calls   *)
(* of the store or of GitLab.  The task queue runs at most one handler per *)
(* task key (LocalTaskQueue, RedisTaskQueue) and may refuse a task.        *)
(*                                                                         *)
(* One project is enough: no operation relates refs of two projects.  Of a *)
(* stored ref the model keeps the project configuration copied into it.    *)
(* GitLab answers a listing from one state of its own: lists of one page.  *)
(***************************************************************************)
EXTENDS FiniteSets

CONSTANTS Ref,          \* ref keys of the project
          Config,       \* configurations the project may be stored with
          Default,      \* the configuration of schemas.NewProject
          Named,        \* Named[c]: the refs whose name c's regexp for their kind matches
          Matches,      \* Matches[c]: the refs that c is configured to pull
          None,         \* nothing stored
          Stores        \* whether the store may be Redis, with its expiry keys

ASSUME ConfigAssumption ==
    /\ Named \in [Config \cup {Default} -> SUBSET Ref]
    /\ Matches \in [Config \cup {Default} -> SUBSET Ref]
    /\ \A c \in Config \cup {Default} : Matches[c] \subseteq Named[c]
    /\ None \notin Ref \cup Config \cup {Default}

ASSUME StoresAssumption == Stores \subseteq BOOLEAN

VARIABLES
    remote,      \* the refs that exist in GitLab
    deletions,   \* refs whose deletion event has not been processed yet
    project,     \* the stored project's configuration, or None
    refs,        \* Store.refs: the configuration in each stored ref, or None
    ttl,         \* Redis: the refs whose expiry key exists
    discovering, \* configurations whose discovery found no project stored
    dropping,    \* GarbageCollectProjects is about to delete the project
    gc,          \* GarbageCollectRefs: its stage and local variables
    pull,        \* PullRefsFromProject: its stage and local variables
    batch,       \* refs TaskHandlerPullMetrics has read and not scheduled yet
    metrics,     \* metrics[r]: the PullRefMetrics task of ref r
    hook,        \* hook[r]: the webhook event of r being processed
    usesRedis,   \* the store the exporter was started with is Redis
    steady       \* history: refs wanted ever since the collection started

gitlabVars == <<remote, deletions>>
projectTasks == <<discovering, dropping>>
taskVars == <<projectTasks, gc, pull, batch, metrics, hook>>
vars == <<gitlabVars, project, refs, ttl, taskVars, usesRedis, steady>>

Copy == Config \cup {Default, None}

\* No ref left to do in a loop over refs.
Nothing == [r \in Ref |-> None]

GCIdle == [stage |-> "idle", todo |-> Nothing, at |-> None, config |-> None, expected |-> {}]
PullIdle == [stage |-> "idle", config |-> None, todo |-> {}, at |-> None]
NoTask == [stage |-> "none", copy |-> None]

StoreType ==
    /\ remote \in SUBSET Ref
    /\ deletions \in SUBSET Ref
    /\ project \in Config \cup {None}
    /\ refs \in [Ref -> Copy]
    /\ ttl \in SUBSET Ref

GCType ==
    gc \in [stage : {"idle", "checking", "loading", "dropped", "resyncing",
                    "listing", "listed", "sweeping"},
           todo : [Ref -> Copy], at : Ref \cup {None}, config : Copy,
           expected : SUBSET Ref]

TaskType ==
    /\ discovering \in SUBSET Config
    /\ dropping \in BOOLEAN
    /\ pull \in [stage : {"idle", "queued", "storing"}, config : Copy,
                 todo : SUBSET Ref, at : Ref \cup {None}]
    /\ batch \in [Ref -> Copy]
    /\ metrics \in [Ref -> [stage : {"none", "queued", "reading", "pulling"}, copy : Copy]]
    /\ hook \in [Ref -> [stage : {"none", "looking", "storing"}, copy : Copy]]

TypeOK ==
    /\ StoreType
    /\ GCType
    /\ TaskType
    /\ usesRedis \in BOOLEAN
    /\ steady \in SUBSET Ref

Init ==
    /\ remote \in SUBSET Ref
    /\ deletions = {}
    /\ project \in Config \cup {None}
    /\ refs = Nothing
    /\ ttl = {}
    /\ usesRedis \in Stores
    /\ discovering = {}
    /\ dropping = FALSE
    /\ gc = GCIdle
    /\ pull = PullIdle
    /\ batch = Nothing
    /\ metrics = [r \in Ref |-> NoTask]
    /\ hook = [r \in Ref |-> NoTask]
    /\ steady = {}

\* The refs to be tracked: they exist in GitLab and the stored project is
\* configured to pull them.
Wanted == IF project = None THEN {} ELSE remote \cap Matches[project]

\* GetRefs of a project with configuration c.
Listed(c) == IF c = None THEN {} ELSE remote \cap Matches[c]

\* SetRef; with Redis it also sets the expiry key.
SetRef(r, c) ==
    /\ refs' = [refs EXCEPT ![r] = c]
    /\ ttl' = IF usesRedis THEN ttl \cup {r} ELSE ttl

\* DelRef; the expiry key stays.
DelRef(r) ==
    /\ refs' = [refs EXCEPT ![r] = None]
    /\ UNCHANGED ttl

\* Mutant: an error of Redis counts as expired.
HasRefExpiredOrError(r) == usesRedis

\* HasRefExpired: with Redis, whether the expiry key exists.
HasRefExpired(r) == usesRedis /\ r \in ttl

\* ScheduleTask of a PullRefMetrics task: refused when the ref has one or the
\* queue is full.
ScheduleMetrics(r, c) ==
    \/ UNCHANGED metrics
    \/ /\ metrics[r] = NoTask
       /\ metrics' = [metrics EXCEPT ![r] = [stage |-> "queued", copy |-> c]]

\* ScheduleTask of a PullRefsFromProject task.
SchedulePull(c) ==
    \/ UNCHANGED pull
    \/ pull = PullIdle /\ pull' = [PullIdle EXCEPT !.stage = "queued", !.config = c]

-----------------------------------------------------------------------------
\* GitLab.

CreateRef(r) ==
    /\ r \notin remote
    /\ remote' = remote \cup {r}
    /\ UNCHANGED <<deletions, project, refs, ttl, taskVars>>

\* A webhook may be configured for the event.
DeleteRef(r) ==
    /\ r \in remote
    /\ remote' = remote \ {r}
    /\ deletions' \in {deletions, deletions \cup {r}}
    /\ UNCHANGED <<project, refs, ttl, taskVars>>

-----------------------------------------------------------------------------
\* PullProject and PullProjectsFromWildcard: the check and the write are two
\* calls of the store, and wildcards with different settings may find a project.
\* An event of a ref, or of an environment, of a project that is not stored
\* schedules PullProject, at any time, for each wildcard that matches.

FindProject(c) ==
    /\ project = None
    /\ discovering' = discovering \cup {c}
    /\ UNCHANGED <<gitlabVars, project, refs, ttl, dropping, gc, pull, batch, metrics, hook>>

StoreProject(c) ==
    /\ c \in discovering
    /\ project' = c
    /\ discovering' = discovering \ {c}
    /\ SchedulePull(c)
    /\ UNCHANGED <<gitlabVars, refs, ttl, dropping, gc, batch, metrics, hook>>

\* GarbageCollectProjects: the project is stored, not configured by name, and
\* ListProjects has not found it for any wildcard.
MissProject ==
    /\ project # None
    /\ dropping' = TRUE
    /\ UNCHANGED <<gitlabVars, project, refs, ttl, discovering, gc, pull, batch, metrics, hook>>

DropProject ==
    /\ dropping
    /\ project' = None
    /\ dropping' = FALSE
    /\ UNCHANGED <<gitlabVars, refs, ttl, discovering, gc, pull, batch, metrics, hook>>

-----------------------------------------------------------------------------
\* PullRefsFromProject.

\* TaskHandlerPullRefsFromProjects: the project is copied into the task.
QueuePull ==
    /\ project # None
    /\ pull = PullIdle
    /\ pull' = [PullIdle EXCEPT !.stage = "queued", !.config = project]
    /\ UNCHANGED <<gitlabVars, project, refs, ttl, projectTasks, gc, batch, metrics, hook>>

\* A pull without a ref left to look up or to store has ended.
PullOn(p) == IF p.todo = {} /\ p.at = None THEN PullIdle ELSE p

PullRefs ==
    /\ pull.stage = "queued"
    /\ pull' = PullOn([pull EXCEPT !.stage = "storing", !.todo = Listed(pull.config)])
    /\ UNCHANGED <<gitlabVars, project, refs, ttl, projectTasks, gc, batch, metrics, hook>>

\* A call of GitLab, or of Redis, fails: the rest of the pull is dropped.
PullFails ==
    /\ pull.stage = "queued" \/ (pull.stage = "storing" /\ usesRedis)
    /\ pull' = PullIdle
    /\ UNCHANGED <<gitlabVars, project, refs, ttl, projectTasks, gc, batch, metrics, hook>>

\* RefExists.
LookUpRef(r) ==
    /\ pull.stage = "storing"
    /\ pull.at = None
    /\ r \in pull.todo
    /\ pull' = PullOn([pull EXCEPT !.todo = @ \ {r},
                                   !.at = IF refs[r] = None THEN r ELSE None])
    /\ UNCHANGED <<gitlabVars, project, refs, ttl, projectTasks, gc, batch, metrics, hook>>

\* Mutant: the task is scheduled, but the ref is not stored.
StoreNewRefScheduleOnly ==
    /\ pull.at # None
    /\ pull' = PullOn([pull EXCEPT !.at = None])
    /\ ScheduleMetrics(pull.at, pull.config)
    /\ UNCHANGED <<gitlabVars, project, refs, ttl, projectTasks, gc, batch, hook>>

\* A ref not stored before is stored and its metrics are scheduled.
StoreNewRef ==
    /\ pull.at # None
    /\ SetRef(pull.at, pull.config)
    /\ pull' = PullOn([pull EXCEPT !.at = None])
    /\ ScheduleMetrics(pull.at, pull.config)
    /\ UNCHANGED <<gitlabVars, project, projectTasks, gc, batch, hook>>

-----------------------------------------------------------------------------
\* PullRefMetrics.

\* TaskHandlerPullMetrics reads the stored refs and schedules one by one.
ReadRefs ==
    /\ batch = Nothing
    /\ refs # Nothing
    /\ batch' = refs
    /\ UNCHANGED <<gitlabVars, project, refs, ttl, projectTasks, gc, pull, metrics, hook>>

QueueMetrics(r) ==
    /\ batch[r] # None
    /\ batch' = [batch EXCEPT ![r] = None]
    /\ ScheduleMetrics(r, batch[r])
    /\ UNCHANGED <<gitlabVars, project, refs, ttl, projectTasks, gc, pull, hook>>

\* GetRef, at the start of the pull and again for each job: the existence of the
\* ref and its value are read one after the other.
LookUpCopy(r) ==
    /\ metrics[r].stage \in {"queued", "pulling"}
    /\ metrics' = [metrics EXCEPT ![r] =
                     IF refs[r] = None THEN [@ EXCEPT !.stage = "pulling"]
                     ELSE [stage |-> "reading", copy |-> None]]
    /\ UNCHANGED <<gitlabVars, project, refs, ttl, projectTasks, gc, pull, batch, hook>>

\* A ref deleted in between is a zero Ref for the local store, an error for Redis.
ReadCopy(r) ==
    /\ metrics[r].stage = "reading"
    /\ metrics' = [metrics EXCEPT ![r] =
                     IF refs[r] = None /\ usesRedis THEN NoTask
                     ELSE [stage |-> "pulling", copy |-> refs[r]]]
    /\ UNCHANGED <<gitlabVars, project, refs, ttl, projectTasks, gc, pull, batch, hook>>

\* SetRef, for each pipeline and each job that has changed.  A zero Ref goes to a
\* key of its own, which no project has and the next collection deletes.
WriteCopyBack(r) ==
    /\ metrics[r].stage = "pulling"
    /\ metrics[r].copy # None
    /\ SetRef(r, metrics[r].copy)
    /\ UNCHANGED <<gitlabVars, project, taskVars>>

MetricsEnd(r) ==
    /\ metrics[r].stage = "pulling"
    /\ metrics' = [metrics EXCEPT ![r] = NoTask]
    /\ UNCHANGED <<gitlabVars, project, refs, ttl, projectTasks, gc, pull, batch, hook>>

-----------------------------------------------------------------------------
\* Webhook events, in any order.

\* processPushEvent, processTagEvent, processMergeEvent.
ProcessDeletion(r) ==
    /\ r \in deletions
    /\ deletions' = deletions \ {r}
    /\ DelRef(r)
    /\ UNCHANGED <<remote, project, taskVars>>

\* triggerRefMetricsPull: a known ref is scheduled, with a copy that has no
\* configuration.  Pipelines and jobs change at any time, even after their ref.
ProcessPipelineEvent(r) ==
    /\ hook[r] = NoTask
    /\ IF refs[r] # None
       THEN ScheduleMetrics(r, Default) /\ UNCHANGED hook
       ELSE hook' = [hook EXCEPT ![r].stage = "looking"] /\ UNCHANGED metrics
    /\ UNCHANGED <<gitlabVars, project, refs, ttl, projectTasks, gc, pull, batch>>

\* An unknown ref is stored if the project wants it.
MatchEventRef(r) ==
    /\ hook[r].stage = "looking"
    /\ hook' = [hook EXCEPT ![r] =
                  IF project # None /\ r \in Matches[project]
                  THEN [stage |-> "storing", copy |-> project] ELSE NoTask]
    /\ UNCHANGED <<gitlabVars, project, refs, ttl, projectTasks, gc, pull, batch, metrics>>

StoreEventRef(r) ==
    /\ hook[r].stage = "storing"
    /\ SetRef(r, hook[r].copy)
    /\ hook' = [hook EXCEPT ![r] = NoTask]
    /\ ScheduleMetrics(r, hook[r].copy)
    /\ UNCHANGED <<gitlabVars, project, projectTasks, gc, pull, batch>>

-----------------------------------------------------------------------------
\* GarbageCollectRefs.

CollectRefs ==
    /\ gc.stage = "idle"
    /\ gc' = [GCIdle EXCEPT !.stage = "checking", !.todo = refs]
    /\ UNCHANGED <<gitlabVars, project, refs, ttl, projectTasks, pull, batch, metrics, hook>>

\* One turn of the first loop, up to GetProject.  There is no continue after the
\* deletion of a ref whose name the regexp of its own configuration does not match.
CheckRef(r) ==
    /\ gc.stage = "checking"
    /\ gc.todo[r] # None
    /\ LET copy == gc.todo[r]
           gone == HasRefExpired(r) \/ project = None
           named == r \in Named[copy]
       IN /\ IF gone \/ ~named THEN DelRef(r) ELSE UNCHANGED <<refs, ttl>>
          /\ gc' = IF gone THEN [gc EXCEPT !.todo[r] = None]
                   ELSE [gc EXCEPT !.todo[r] = None, !.at = r, !.config = copy,
                                   !.stage = IF named THEN "loading" ELSE "dropped"]
    /\ UNCHANGED <<gitlabVars, project, projectTasks, pull, batch, metrics, hook>>

NextRef == [gc EXCEPT !.stage = "checking", !.at = None, !.config = None]

\* Mutant: a continue after that deletion, as after the two others.
LoadProjectOrContinue ==
    /\ gc.stage \in {"loading", "dropped"}
    /\ gc' = IF gc.stage = "dropped" \/ project \in {None, gc.config} THEN NextRef
             ELSE [gc EXCEPT !.stage = "resyncing", !.config = project]
    /\ UNCHANGED <<gitlabVars, project, refs, ttl, projectTasks, pull, batch, metrics, hook>>

\* GetProject, which leaves the ref's own configuration if there is no project.
LoadProject ==
    /\ gc.stage \in {"loading", "dropped"}
    /\ gc' = IF project \in {None, gc.config} THEN NextRef
             ELSE [gc EXCEPT !.stage = "resyncing", !.config = project]
    /\ UNCHANGED <<gitlabVars, project, refs, ttl, projectTasks, pull, batch, metrics, hook>>

\* The ref is stored again with the project's present configuration.
ResyncRef ==
    /\ gc.stage = "resyncing"
    /\ SetRef(gc.at, gc.config)
    /\ gc' = NextRef
    /\ UNCHANGED <<gitlabVars, project, projectTasks, pull, batch, metrics, hook>>

\* Store.Projects.
ReadProjects ==
    /\ gc.stage = "checking"
    /\ gc.todo = Nothing
    /\ gc' = [gc EXCEPT !.stage = "listing", !.config = project]
    /\ UNCHANGED <<gitlabVars, project, refs, ttl, projectTasks, pull, batch, metrics, hook>>

\* Mutant: what is stored counts as expected.
ListRefsAndStored ==
    /\ gc.stage = "listing"
    /\ gc' = [gc EXCEPT !.stage = "listed", !.config = None,
                        !.expected = Listed(gc.config) \cup {r \in Ref : refs[r] # None}]
    /\ UNCHANGED <<gitlabVars, project, refs, ttl, projectTasks, pull, batch, metrics, hook>>

\* Mutant: an error of GetRefs is logged and the collection goes on.
ListRefsOrError ==
    /\ gc.stage = "listing"
    /\ gc' \in {[gc EXCEPT !.stage = "listed", !.config = None, !.expected = x] :
                   x \in {Listed(gc.config), {}}}
    /\ UNCHANGED <<gitlabVars, project, refs, ttl, projectTasks, pull, batch, metrics, hook>>

\* GetRefs of the project.
ListRefs ==
    /\ gc.stage = "listing"
    /\ gc' = [gc EXCEPT !.stage = "listed", !.config = None, !.expected = Listed(gc.config)]
    /\ UNCHANGED <<gitlabVars, project, refs, ttl, projectTasks, pull, batch, metrics, hook>>

\* A call of GitLab, or of Redis, fails: the collection ends.
CollectionFails ==
    /\ gc.stage = "listing" \/ (gc.stage # "idle" /\ usesRedis)
    /\ gc' = GCIdle
    /\ UNCHANGED <<gitlabVars, project, refs, ttl, projectTasks, pull, batch, metrics, hook>>

\* A collection without a ref left to delete has ended.
SweepOn(todo) ==
    IF todo = Nothing THEN GCIdle ELSE [GCIdle EXCEPT !.stage = "sweeping", !.todo = todo]

\* The stored refs are read again, and those not listed are deleted one by one.
ReloadRefs ==
    /\ gc.stage = "listed"
    /\ gc' = SweepOn([r \in Ref |-> IF r \in gc.expected THEN None ELSE refs[r]])
    /\ UNCHANGED <<gitlabVars, project, refs, ttl, projectTasks, pull, batch, metrics, hook>>

SweepRef(r) ==
    /\ gc.stage = "sweeping"
    /\ gc.todo[r] # None
    /\ gc' = SweepOn([gc.todo EXCEPT ![r] = None])
    /\ DelRef(r)
    /\ UNCHANGED <<gitlabVars, project, projectTasks, pull, batch, metrics, hook>>

\* Redis removes an expiry key.
ExpiryKeyEnds(r) ==
    /\ r \in ttl
    /\ ttl' = ttl \ {r}
    /\ UNCHANGED <<gitlabVars, project, refs, taskVars>>

-----------------------------------------------------------------------------
PullStep == PullRefs \/ StoreNewRef \/ \E r \in Ref : LookUpRef(r)

GCStep ==
    \/ CollectRefs
    \/ \E r \in Ref : CheckRef(r) \/ SweepRef(r)
    \/ LoadProject \/ ResyncRef
    \/ ReadProjects
    \/ ListRefs
    \/ ReloadRefs

Step ==
    \/ \E r \in Ref : CreateRef(r) \/ DeleteRef(r)
    \/ \E c \in Config : FindProject(c) \/ StoreProject(c)
    \/ MissProject \/ DropProject
    \/ QueuePull \/ PullStep \/ PullFails
    \/ ReadRefs
    \/ \E r \in Ref :
        \/ QueueMetrics(r) \/ LookUpCopy(r) \/ ReadCopy(r) \/ WriteCopyBack(r) \/ MetricsEnd(r)
        \/ ProcessDeletion(r) \/ ProcessPipelineEvent(r) \/ MatchEventRef(r) \/ StoreEventRef(r)
        \/ ExpiryKeyEnds(r)
    \/ GCStep \/ CollectionFails

Remember ==
    /\ steady' = IF gc.stage = "idle" THEN Wanted' ELSE steady \cap Wanted'
    /\ UNCHANGED usesRedis

Next == Step /\ Remember

Spec == Init /\ [][Next]_vars

(***************************************************************************)
(* The tickers schedule pulls and collections again and again, their       *)
(* handlers run, and GetRefs does not fail for ever.  Nothing is assumed   *)
(* of GitLab, of webhooks or of metrics pulls.                             *)
(***************************************************************************)
Fairness ==
    /\ WF_vars(QueuePull /\ Remember)
    /\ WF_vars(PullStep /\ Remember)
    /\ SF_vars(PullRefs /\ Remember)
    /\ WF_vars(GCStep /\ Remember)
    /\ SF_vars(ListRefs /\ Remember)

FairSpec == Spec /\ Fairness

-----------------------------------------------------------------------------
\* Safety.

\* Whether the collection drops r now because r's own configuration does not match.
Drops(r) == gc'.stage = "dropped" /\ gc'.at = r

\* "cleans up stored refs that are no longer valid or configured": a ref that
\* was in GitLab and configured all the time since the collection started is
\* deleted by it only if its own, older configuration does not match it.
CollectionSparesWanted ==
    [][\A r \in Ref :
          gc' # gc /\ refs[r] # None /\ refs'[r] = None => r \notin steady \/ Drops(r)]_vars

\* So it is with the local store.  With Redis, where HasRefExpired comes in, the
\* collection also deletes a wanted ref in its first loop if its expiry key exists.
CollectionSparesUnmarked ==
    [][\A r \in Ref :
          gc' # gc /\ refs[r] # None /\ refs'[r] = None
             => \/ r \notin steady
                \/ Drops(r)
                \/ usesRedis /\ gc.stage = "checking" /\ r \in ttl]_vars

\* A wanted ref that the collection has dropped for its own configuration it does
\* not leave before it has stored the ref again, with a configuration that matches
\* it.  With Redis GetProject or SetRef may fail in between, which ends the
\* collection: then the wanted ref stays deleted until it is discovered again.
DroppedRefsReturn ==
    [][gc.stage \in {"dropped", "resyncing"} /\ gc' # gc /\ gc.at \in steady
          => \/ gc'.stage = "resyncing" /\ gc'.at = gc.at
             \/ refs'[gc.at] # None /\ gc.at \in Matches[refs'[gc.at]]
             \/ usesRedis /\ gc' = GCIdle]_vars

(***************************************************************************)
(* An inductive invariant that implies these: a ref wanted all along is    *)
(* wanted now, matches the configuration the collection is about to list   *)
(* or to store it with, and is among the refs it has listed; what it has   *)
(* dropped does not match its own configuration.                           *)
(***************************************************************************)
SteadyWanted == steady \subseteq Wanted

SteadyListed ==
    /\ gc.stage = "listing" => steady \subseteq Listed(gc.config)
    /\ gc.stage = "listed" => steady \subseteq gc.expected
    /\ gc.stage = "sweeping" => \A r \in steady : gc.todo[r] = None

AtHasRef ==
    gc.stage \in {"loading", "dropped", "resyncing"} => gc.at \in Ref /\ gc.config # None

DroppedUnnamed == gc.stage = "dropped" => gc.at \notin Named[gc.config]

ResyncMatches ==
    gc.stage = "resyncing" /\ gc.at \in steady => gc.at \in Matches[gc.config]

CollectionInv ==
    /\ TypeOK
    /\ SteadyWanted
    /\ SteadyListed
    /\ AtHasRef
    /\ DroppedUnnamed
    /\ ResyncMatches

-----------------------------------------------------------------------------
\* Liveness.

\* With the local store, a ref that stays in GitLab and configured is in the end
\* tracked for good, whatever webhooks, pulls and collections did before, but for
\* the moments between the collection's dropping it and its storing it again.
RefsTracked ==
    ~usesRedis =>
        \A r \in Ref :
            <>[](r \in Wanted)
              => <>[](refs[r] # None \/ (gc.stage \in {"dropped", "resyncing"} /\ gc.at = r))

\* With the local store, a ref that GitLab has no more, or whose project is stored
\* no more or configured not to pull it, leaves the store again and again.  For good
\* it need not: a metrics pull that read it before its deletion writes it back.
RefsDropped ==
    ~usesRedis =>
        \A r \in Ref :
            \/ <>[](r \notin remote)
            \/ <>[](project = None)
            \/ <>[](project # None /\ r \notin Matches[project])
          => []<>(refs[r] = None)
=============================================================================
