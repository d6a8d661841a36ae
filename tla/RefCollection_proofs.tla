------------------------ MODULE RefCollection_proofs ------------------------
(***************************************************************************)
(* Theorems about RefCollection for every set of refs, every set of        *)
(* project configurations and whatever each of them matches: the           *)
(* collection of refs deletes no ref that was wanted all along, except     *)
(* those it stores again at once and, with Redis, those whose expiry key   *)
(* exists.                                                                 *)
(***************************************************************************)
EXTENDS RefCollection, TLAPS

-----------------------------------------------------------------------------
\* Type correctness.

\* A store without refs is a store.
LEMMA NothingType == Nothing \in [Ref -> Copy]
BY DEF Nothing, Copy

\* The types hold at first.
LEMMA InitType == Init => TypeOK
<1> SUFFICES ASSUME Init PROVE TypeOK
  OBVIOUS
<1>1. StoreType
  BY NothingType DEF Init, StoreType
<1>2. GCType
  BY NothingType DEF Init, GCType, GCIdle, Copy
<1>3. pull \in [stage : {"idle", "queued", "storing"}, config : Copy,
              todo : SUBSET Ref, at : Ref \cup {None}]
  BY DEF Init, PullIdle, Copy
<1>4. /\ metrics \in [Ref -> [stage : {"none", "queued", "reading", "pulling"}, copy : Copy]]
      /\ hook \in [Ref -> [stage : {"none", "looking", "storing"}, copy : Copy]]
  BY DEF Init, NoTask, Copy
<1>5. QED
  BY <1>1, <1>2, <1>3, <1>4, NothingType, StoresAssumption DEF Init, TypeOK, TaskType

\* Scheduling a task keeps the types of the tasks.
LEMMA ScheduleMetricsType ==
    ASSUME TaskType, NEW r \in Ref, NEW c \in Copy, ScheduleMetrics(r, c)
    PROVE  metrics' \in [Ref -> [stage : {"none", "queued", "reading", "pulling"}, copy : Copy]]
BY DEF TaskType, ScheduleMetrics

\* Scheduling a pull keeps the type of the pull.
LEMMA SchedulePullType ==
    ASSUME TaskType, NEW c \in Copy, SchedulePull(c)
    PROVE  pull' \in [stage : {"idle", "queued", "storing"}, config : Copy,
                      todo : SUBSET Ref, at : Ref \cup {None}]
BY DEF TaskType, SchedulePull, PullIdle

\* Writing and deleting a ref keep the types of the store.
LEMMA SetRefType ==
    ASSUME StoreType, NEW r \in Ref, NEW c \in Copy, SetRef(r, c)
    PROVE  refs' \in [Ref -> Copy] /\ ttl' \in SUBSET Ref
BY DEF StoreType, SetRef

\* Deleting a ref keeps the types of the store.
LEMMA DelRefType ==
    ASSUME StoreType, NEW r \in Ref, DelRef(r)
    PROVE  refs' \in [Ref -> Copy] /\ ttl' \in SUBSET Ref
BY DEF StoreType, DelRef, Copy

\* What GitLab lists are refs.
LEMMA ListedType == remote \in SUBSET Ref => \A c : Listed(c) \in SUBSET Ref
BY DEF Listed

\* What happens in GitLab keeps the types.
LEMMA GitLabType ==
    ASSUME TypeOK, NEW r \in Ref, CreateRef(r) \/ DeleteRef(r) \/ ExpiryKeyEnds(r)
    PROVE  (StoreType /\ GCType /\ TaskType)'
<1> USE DEF TypeOK, StoreType, GCType, TaskType, taskVars, projectTasks, gitlabVars
<1>1. CASE CreateRef(r)
  BY <1>1 DEF CreateRef
<1>2. CASE DeleteRef(r)
  BY <1>2 DEF DeleteRef
<1>3. CASE ExpiryKeyEnds(r)
  BY <1>3 DEF ExpiryKeyEnds
<1>4. QED
  BY <1>1, <1>2, <1>3

\* Discovering and dropping the project keep the types.
LEMMA ProjectType ==
    ASSUME TypeOK, \/ \E c \in Config : FindProject(c) \/ StoreProject(c)
                   \/ MissProject \/ DropProject
    PROVE  (StoreType /\ GCType /\ TaskType)'
<1> USE DEF TypeOK, StoreType, GCType, TaskType, gitlabVars
<1>1. ASSUME NEW c \in Config, FindProject(c) PROVE (StoreType /\ GCType /\ TaskType)'
  BY <1>1 DEF FindProject
<1>2. ASSUME NEW c \in Config, StoreProject(c) PROVE (StoreType /\ GCType /\ TaskType)'
  <2>1. c \in Copy
    BY DEF Copy
  <2>2. QED
    BY <1>2, <2>1, SchedulePullType DEF StoreProject
<1>3. CASE MissProject
  BY <1>3 DEF MissProject
<1>4. CASE DropProject
  BY <1>4 DEF DropProject
<1>5. QED
  BY <1>1, <1>2, <1>3, <1>4

\* A pull of refs keeps the types.
LEMMA PullType ==
    ASSUME TypeOK, QueuePull \/ PullStep \/ PullFails
    PROVE  (StoreType /\ GCType /\ TaskType)'
<1> USE DEF TypeOK, StoreType, GCType, TaskType, gitlabVars, projectTasks
<1>0. PullIdle \in [stage : {"idle", "queued", "storing"}, config : Copy,
                    todo : SUBSET Ref, at : Ref \cup {None}]
  BY DEF PullIdle, Copy
<1>1. CASE QueuePull
  BY <1>1 DEF QueuePull, PullIdle, Copy
<1>2. CASE PullRefs
  BY <1>0, <1>2, ListedType DEF PullRefs, PullOn
<1>3. CASE StoreNewRef
  <2>1. pull.at \in Ref /\ pull.config \in Copy
    BY <1>3 DEF StoreNewRef
  <2>2. QED
    BY <1>0, <1>3, <2>1, SetRefType, ScheduleMetricsType DEF StoreNewRef, PullOn
<1>4. CASE PullFails
  BY <1>4, <1>0 DEF PullFails
<1>5. ASSUME NEW r \in Ref, LookUpRef(r) PROVE (StoreType /\ GCType /\ TaskType)'
  BY <1>0, <1>5 DEF LookUpRef, PullOn
<1>6. QED
  BY <1>1, <1>2, <1>3, <1>4, <1>5 DEF PullStep

\* The metrics pulls keep the types.
LEMMA MetricsType ==
    ASSUME TypeOK, NEW r \in Ref,
           QueueMetrics(r) \/ LookUpCopy(r) \/ ReadCopy(r) \/ WriteCopyBack(r)
             \/ MetricsEnd(r)
    PROVE  (StoreType /\ GCType /\ TaskType)'
<1> USE DEF TypeOK, StoreType, GCType, TaskType, gitlabVars, projectTasks, taskVars
<1>0. NoTask \in [stage : {"none", "queued", "reading", "pulling"}, copy : Copy]
  BY DEF NoTask, Copy
<1>2. CASE QueueMetrics(r)
  <2>1. batch[r] \in Copy /\ batch' \in [Ref -> Copy]
    BY <1>2 DEF QueueMetrics, Copy
  <2>2. QED
    BY <1>2, <2>1, ScheduleMetricsType DEF QueueMetrics
<1>3. CASE LookUpCopy(r)
  <2>0. metrics[r] \in [stage : {"none", "queued", "reading", "pulling"}, copy : Copy]
    OBVIOUS
  <2>1. /\ [metrics[r] EXCEPT !.stage = "pulling"]
             \in [stage : {"none", "queued", "reading", "pulling"}, copy : Copy]
        /\ [stage |-> "reading", copy |-> None]
             \in [stage : {"none", "queued", "reading", "pulling"}, copy : Copy]
    BY <2>0 DEF Copy
  <2>2. metrics' \in [Ref -> [stage : {"none", "queued", "reading", "pulling"}, copy : Copy]]
    BY <1>3, <2>1 DEF LookUpCopy
  <2>3. QED
    BY <1>3, <2>2 DEF LookUpCopy
<1>4. CASE ReadCopy(r)
  BY <1>4, <1>0 DEF ReadCopy
<1>5. CASE WriteCopyBack(r)
  BY <1>5, SetRefType DEF WriteCopyBack
<1>6. CASE MetricsEnd(r)
  BY <1>6, <1>0 DEF MetricsEnd
<1>7. QED
  BY <1>2, <1>3, <1>4, <1>5, <1>6

\* Reading the refs to be pulled keeps the types.
LEMMA ReadRefsType == TypeOK /\ ReadRefs => (StoreType /\ GCType /\ TaskType)'
BY DEF TypeOK, StoreType, GCType, TaskType, ReadRefs, gitlabVars, projectTasks

\* An event keeps the types.
LEMMA EventType ==
    ASSUME TypeOK, NEW r \in Ref,
           ProcessDeletion(r) \/ ProcessPipelineEvent(r) \/ MatchEventRef(r) \/ StoreEventRef(r)
    PROVE  (StoreType /\ GCType /\ TaskType)'
<1> USE DEF TypeOK, StoreType, GCType, TaskType, gitlabVars, projectTasks, taskVars
<1>0. NoTask \in [stage : {"none", "looking", "storing"}, copy : Copy] /\ Default \in Copy
  BY DEF NoTask, Copy
<1>1. CASE ProcessDeletion(r)
  BY <1>1, DelRefType DEF ProcessDeletion
<1>2. CASE ProcessPipelineEvent(r)
  <2>1. metrics' \in [Ref -> [stage : {"none", "queued", "reading", "pulling"}, copy : Copy]]
    BY <1>0, <1>2, ScheduleMetricsType DEF ProcessPipelineEvent
  <2>2. [hook[r] EXCEPT !.stage = "looking"]
          \in [stage : {"none", "looking", "storing"}, copy : Copy]
    OBVIOUS
  <2>3. hook' \in [Ref -> [stage : {"none", "looking", "storing"}, copy : Copy]]
    BY <1>2, <2>2 DEF ProcessPipelineEvent
  <2>4. QED
    BY <1>2, <2>1, <2>3 DEF ProcessPipelineEvent
<1>3. CASE MatchEventRef(r)
  BY <1>0, <1>3 DEF MatchEventRef, Copy
<1>4. CASE StoreEventRef(r)
  <2>1. hook[r].copy \in Copy
    OBVIOUS
  <2>2. QED
    BY <1>0, <1>4, <2>1, SetRefType, ScheduleMetricsType DEF StoreEventRef
<1>5. QED
  BY <1>1, <1>2, <1>3, <1>4

\* The collection keeps the types.
LEMMA CollectionType ==
    ASSUME TypeOK, AtHasRef, GCStep \/ CollectionFails
    PROVE  (StoreType /\ GCType /\ TaskType)'
<1> USE DEF TypeOK, StoreType, GCType, TaskType, gitlabVars, projectTasks
<1>0. GCIdle \in [stage : {"idle"}, todo : [Ref -> Copy], at : {None}, config : Copy,
                  expected : SUBSET Ref]
  BY NothingType DEF GCIdle, Copy
<1>1. CASE CollectRefs
  BY <1>0, <1>1 DEF CollectRefs
<1>2. ASSUME NEW r \in Ref, CheckRef(r) PROVE (StoreType /\ GCType /\ TaskType)'
  <2>1. refs' \in [Ref -> Copy] /\ ttl' \in SUBSET Ref
    BY <1>2, DelRefType DEF CheckRef
  <2>2. GCType'
    BY <1>2 DEF CheckRef, Copy
  <2>3. QED
    BY <1>2, <2>1, <2>2 DEF CheckRef
<1>10. NextRef \in [stage : {"checking"}, todo : [Ref -> Copy], at : {None}, config : Copy,
                    expected : SUBSET Ref]
  BY DEF NextRef, Copy
<1>11. CASE LoadProject
  <2>1. GCType'
    BY <1>10, <1>11 DEF LoadProject, Copy
  <2>2. QED
    BY <1>11, <2>1 DEF LoadProject
<1>3. CASE ResyncRef
  <2>1. gc.at \in Ref /\ gc.config \in Copy
    BY <1>3 DEF ResyncRef, AtHasRef
  <2>2. GCType'
    BY <1>3, <1>10 DEF ResyncRef
  <2>3. QED
    BY <1>3, <2>1, <2>2, SetRefType DEF ResyncRef
<1>4. CASE ReadProjects
  BY <1>4 DEF ReadProjects, Copy
<1>5. CASE ListRefs
  BY <1>5, ListedType DEF ListRefs, Copy
<1>12. ASSUME NEW todo \in [Ref -> Copy], gc' = SweepOn(todo) PROVE GCType'
  BY <1>0, <1>12 DEF SweepOn
<1>6. CASE ReloadRefs
  <2>1. [r \in Ref |-> IF r \in gc.expected THEN None ELSE refs[r]] \in [Ref -> Copy]
    BY DEF Copy
  <2>2. GCType'
    BY <1>6, <1>12, <2>1 DEF ReloadRefs
  <2>3. QED
    BY <1>6, <2>2 DEF ReloadRefs
<1>7. ASSUME NEW r \in Ref, SweepRef(r) PROVE (StoreType /\ GCType /\ TaskType)'
  <2>1. refs' \in [Ref -> Copy] /\ ttl' \in SUBSET Ref
    BY <1>7, DelRefType DEF SweepRef
  <2>2. [gc.todo EXCEPT ![r] = None] \in [Ref -> Copy]
    BY DEF Copy
  <2>3. GCType'
    BY <1>7, <1>12, <2>2 DEF SweepRef
  <2>4. QED
    BY <1>7, <2>1, <2>3 DEF SweepRef
<1>8. CASE CollectionFails
  BY <1>0, <1>8 DEF CollectionFails
<1>9. QED
  BY <1>1, <1>2, <1>3, <1>4, <1>5, <1>6, <1>7, <1>8, <1>11 DEF GCStep

\* Every step keeps the types.
LEMMA StepType ==
    ASSUME TypeOK, AtHasRef, Step, Remember
    PROVE  TypeOK'
<1>1. (StoreType /\ GCType /\ TaskType)'
  <2>1. ASSUME NEW r \in Ref, CreateRef(r) \/ DeleteRef(r) \/ ExpiryKeyEnds(r)
        PROVE  (StoreType /\ GCType /\ TaskType)'
    BY <2>1, GitLabType
  <2>2. CASE (\E c \in Config : FindProject(c) \/ StoreProject(c)) \/ MissProject \/ DropProject
    BY <2>2, ProjectType
  <2>3. CASE QueuePull \/ PullStep \/ PullFails
    BY <2>3, PullType
  <2>4. ASSUME NEW r \in Ref,
               QueueMetrics(r) \/ LookUpCopy(r) \/ ReadCopy(r) \/ WriteCopyBack(r)
                 \/ MetricsEnd(r)
        PROVE  (StoreType /\ GCType /\ TaskType)'
    BY <2>4, MetricsType
  <2>5. CASE ReadRefs
    BY <2>5, ReadRefsType
  <2>6. ASSUME NEW r \in Ref,
               ProcessDeletion(r) \/ ProcessPipelineEvent(r) \/ MatchEventRef(r)
                 \/ StoreEventRef(r)
        PROVE  (StoreType /\ GCType /\ TaskType)'
    BY <2>6, EventType
  <2>7. CASE GCStep \/ CollectionFails
    BY <2>7, CollectionType
  <2>8. QED
    BY <2>1, <2>2, <2>3, <2>4, <2>5, <2>6, <2>7 DEF Step
<1>2. steady' \in SUBSET Ref /\ usesRedis' \in BOOLEAN
  BY <1>1 DEF TypeOK, Remember, Wanted, StoreType
<1>3. QED
  BY <1>1, <1>2 DEF TypeOK

\* A step that changes nothing keeps the types.
LEMMA StutterType == TypeOK /\ UNCHANGED vars => TypeOK'
BY DEF TypeOK, StoreType, GCType, TaskType, vars, gitlabVars, taskVars, projectTasks
-----------------------------------------------------------------------------
\* The collection.

\* What the invariant says besides the types.
CollectionParts ==
    SteadyWanted /\ SteadyListed /\ AtHasRef /\ DroppedUnnamed /\ ResyncMatches

\* A step that leaves gc alone keeps what the collection knows of steady refs.
LEMMA OthersKeepInv ==
    ASSUME CollectionInv, UNCHANGED gc, Remember
    PROVE  CollectionParts'
<1>1. SteadyWanted'
  BY DEF Remember, SteadyWanted
<1>2. AtHasRef' /\ DroppedUnnamed'
  BY DEF CollectionInv, AtHasRef, DroppedUnnamed
<1>3. gc.stage # "idle" => steady' \subseteq steady
  BY DEF Remember
<1>4. steady' \subseteq remote'
  BY <1>1 DEF SteadyWanted, Wanted
<1>5. SteadyListed'
  BY <1>3, <1>4 DEF CollectionInv, SteadyListed, Listed
<1>6. ResyncMatches'
  BY <1>3 DEF CollectionInv, ResyncMatches
<1>7. QED
  BY <1>1, <1>2, <1>5, <1>6 DEF CollectionParts

\* A step of the collection hands the steady refs from stage to stage.
LEMMA CollectionKeepsInv ==
    ASSUME CollectionInv, GCStep \/ CollectionFails, Remember
    PROVE  CollectionParts'
<1> USE DEF CollectionInv, TypeOK, GCType, gitlabVars
<1> USE DEF CollectionParts
<1>1. SteadyWanted'
  BY DEF Remember, SteadyWanted
<1>2. gc.stage # "idle" => steady' \subseteq steady
  BY DEF Remember
<1>a. ASSUME gc'.stage \in {"idle", "checking"} PROVE CollectionParts'
  BY <1>1, <1>a DEF SteadyListed, AtHasRef, DroppedUnnamed, ResyncMatches
<1>3. CASE CollectRefs
  BY <1>3, <1>a DEF CollectRefs, GCIdle
<1>4. ASSUME NEW r \in Ref, CheckRef(r)
      PROVE  CollectionParts'
  <2>1. CASE gc'.stage = "checking"
    BY <1>a, <2>1
  <2>2. CASE gc'.stage # "checking"
    <3>1. /\ gc'.stage \in {"loading", "dropped"}
          /\ gc'.at = r /\ gc'.config = gc.todo[r] /\ gc.todo[r] # None
          /\ gc'.stage = "dropped" => r \notin Named[gc.todo[r]]
      BY <1>4, <2>2 DEF CheckRef
    <3>2. QED
      BY <1>1, <3>1 DEF SteadyListed, AtHasRef, DroppedUnnamed, ResyncMatches
  <2>3. QED
    BY <2>1, <2>2
<1>12. CASE LoadProject
  <2>1. CASE project \in {None, gc.config}
    BY <1>12, <1>a, <2>1 DEF LoadProject, NextRef
  <2>2. CASE project \notin {None, gc.config}
    <3>1. /\ gc'.stage = "resyncing" /\ gc'.at = gc.at /\ gc'.config = project
          /\ project # None /\ gc.at \in Ref
      BY <1>12, <2>2 DEF LoadProject, AtHasRef
    <3>2. steady' \subseteq Wanted
      BY <1>2, <1>12 DEF LoadProject, SteadyWanted
    <3>3. gc.at \in steady' => gc.at \in Matches[project]
      BY <3>1, <3>2 DEF Wanted
    <3>4. QED
      BY <1>1, <3>1, <3>3 DEF SteadyListed, AtHasRef, DroppedUnnamed, ResyncMatches
  <2>3. QED
    BY <2>1, <2>2
<1>5. CASE ResyncRef
  BY <1>5, <1>a DEF ResyncRef, NextRef
<1>6. CASE ReadProjects
  <2>1. gc'.stage = "listing" /\ gc'.config = project /\ steady' \subseteq Wanted
    BY <1>2, <1>6 DEF ReadProjects, SteadyWanted
  <2>2. SteadyListed'
    BY <1>6, <2>1 DEF ReadProjects, SteadyListed, Listed, Wanted
  <2>3. QED
    BY <1>1, <2>1, <2>2 DEF AtHasRef, DroppedUnnamed, ResyncMatches
<1>7. CASE ListRefs
  <2>1. gc'.stage = "listed" /\ gc'.expected = Listed(gc.config)
    BY <1>7 DEF ListRefs
  <2>2. steady' \subseteq Listed(gc.config)
    BY <1>2, <1>7 DEF ListRefs, SteadyListed
  <2>3. QED
    BY <1>1, <2>1, <2>2 DEF SteadyListed, AtHasRef, DroppedUnnamed, ResyncMatches
<1>13. ASSUME NEW todo \in [Ref -> Copy], gc' = SweepOn(todo),
              \A r \in steady : todo[r] = None, gc.stage # "idle"
       PROVE  CollectionParts'
  <2>1. CASE gc'.stage = "idle"
    BY <1>a, <2>1
  <2>2. CASE gc'.stage # "idle"
    <3>1. gc'.stage = "sweeping" /\ gc'.todo = todo
      BY <1>13, <2>2 DEF SweepOn, GCIdle
    <3>2. QED
      BY <1>1, <1>2, <1>13, <3>1 DEF SteadyListed, AtHasRef, DroppedUnnamed, ResyncMatches
  <2>3. QED
    BY <2>1, <2>2
<1>8. CASE ReloadRefs
  <2> DEFINE todo == [r \in Ref |-> IF r \in gc.expected THEN None ELSE refs[r]]
  <2>1. todo \in [Ref -> Copy]
    BY DEF StoreType, Copy
  <2>2. \A r \in steady : todo[r] = None
    BY <1>8 DEF ReloadRefs, SteadyListed
  <2>3. QED
    BY <1>8, <1>13, <2>1, <2>2 DEF ReloadRefs
<1>9. ASSUME NEW r \in Ref, SweepRef(r)
      PROVE  CollectionParts'
  <2>1. [gc.todo EXCEPT ![r] = None] \in [Ref -> Copy]
    BY DEF Copy
  <2>2. \A x \in steady : [gc.todo EXCEPT ![r] = None][x] = None
    BY <1>9 DEF SweepRef, SteadyListed
  <2>3. QED
    BY <1>9, <1>13, <2>1, <2>2 DEF SweepRef
<1>10. CASE CollectionFails
  BY <1>10, <1>a DEF CollectionFails, GCIdle
<1>11. QED
  BY <1>3, <1>4, <1>5, <1>6, <1>7, <1>8, <1>9, <1>10, <1>12 DEF GCStep

\* Every other step leaves gc alone.
LEMMA OnlyCollectionChangesGC ==
    ASSUME Step, ~(GCStep \/ CollectionFails)
    PROVE  UNCHANGED gc
<1> USE DEF taskVars
<1>1. ASSUME NEW r \in Ref, CreateRef(r) \/ DeleteRef(r) \/ ExpiryKeyEnds(r) PROVE UNCHANGED gc
  BY <1>1 DEF CreateRef, DeleteRef, ExpiryKeyEnds
<1>2. ASSUME NEW c \in Config, FindProject(c) \/ StoreProject(c) PROVE UNCHANGED gc
  BY <1>2 DEF FindProject, StoreProject
<1>3. CASE MissProject \/ DropProject
  BY <1>3 DEF MissProject, DropProject
<1>4. CASE QueuePull \/ PullStep \/ PullFails
  BY <1>4 DEF QueuePull, PullStep, PullRefs, StoreNewRef, LookUpRef, PullFails
<1>5. CASE ReadRefs
  BY <1>5 DEF ReadRefs
<1>6. ASSUME NEW r \in Ref,
             QueueMetrics(r) \/ LookUpCopy(r) \/ ReadCopy(r) \/ WriteCopyBack(r)
               \/ MetricsEnd(r)
      PROVE  UNCHANGED gc
  BY <1>6 DEF QueueMetrics, LookUpCopy, ReadCopy, WriteCopyBack, MetricsEnd
<1>7. ASSUME NEW r \in Ref,
             ProcessDeletion(r) \/ ProcessPipelineEvent(r) \/ MatchEventRef(r)
               \/ StoreEventRef(r)
      PROVE  UNCHANGED gc
  BY <1>7 DEF ProcessDeletion, ProcessPipelineEvent, MatchEventRef, StoreEventRef
<1>8. QED
  BY <1>1, <1>2, <1>3, <1>4, <1>5, <1>6, <1>7 DEF Step

\* Every step keeps the invariant.
LEMMA StepKeepsInv ==
    ASSUME CollectionInv, [Next]_vars
    PROVE  CollectionInv'
<1>0. CollectionInv <=> TypeOK /\ CollectionParts
  BY DEF CollectionInv, CollectionParts
<1>1. CASE Next
  <2>1. TypeOK'
    BY <1>1, StepType DEF Next, CollectionInv
  <2>2. CollectionParts'
    <3>1. CASE GCStep \/ CollectionFails
      BY <1>1, <3>1, CollectionKeepsInv DEF Next
    <3>2. CASE ~(GCStep \/ CollectionFails)
      BY <1>1, <3>2, OnlyCollectionChangesGC, OthersKeepInv DEF Next
    <3>3. QED
      BY <3>1, <3>2
  <2>3. QED
    BY <2>1, <2>2 DEF CollectionInv, CollectionParts
<1>2. CASE UNCHANGED vars
  <2>1. TypeOK'
    BY <1>2, StutterType DEF CollectionInv
  <2>2. CollectionParts'
    BY <1>2 DEF CollectionInv, CollectionParts, SteadyWanted, SteadyListed, AtHasRef,
                DroppedUnnamed, ResyncMatches, Wanted, Listed, vars, gitlabVars, taskVars
  <2>3. QED
    BY <2>1, <2>2 DEF CollectionInv, CollectionParts
<1>3. QED
  BY <1>1, <1>2

\* The invariant holds at first.
LEMMA InitInv == Init => CollectionInv
<1> SUFFICES ASSUME Init PROVE CollectionInv
  OBVIOUS
<1>1. CollectionParts
  BY DEF Init, GCIdle, CollectionParts, SteadyWanted, SteadyListed, AtHasRef,
         DroppedUnnamed, ResyncMatches
<1>2. QED
  BY <1>1, InitType DEF CollectionInv, CollectionParts

\* The strengthened invariant of the collection holds in every reachable state:
\* what was wanted all along is among what the collection expects.
THEOREM Inductive == Spec => []CollectionInv
<1>1. Init => CollectionInv
  BY InitInv
<1>2. CollectionInv /\ [Next]_vars => CollectionInv'
  BY StepKeepsInv
<1>3. QED
  BY <1>1, <1>2, PTL DEF Spec

\* Type correctness of the projects, the refs and the tasks about them.
THEOREM TypeCorrect == Spec => []TypeOK
<1>1. CollectionInv => TypeOK
  BY DEF CollectionInv
<1>2. QED
  BY <1>1, Inductive, PTL

\* What one step of GarbageCollectRefs may delete.
LEMMA StepSpares ==
    ASSUME CollectionInv, [Next]_vars,
           NEW r \in Ref, gc' # gc, refs[r] # None, refs'[r] = None
    PROVE  \/ r \notin steady
           \/ Drops(r)
           \/ usesRedis /\ gc.stage = "checking" /\ r \in ttl
<1> USE DEF CollectionInv, TypeOK, StoreType, GCType
<1>1. GCStep \/ CollectionFails
  BY OnlyCollectionChangesGC DEF Next, vars, taskVars
<1>2. CASE UNCHANGED refs
  BY <1>2
<1>3. ASSUME NEW s \in Ref, CheckRef(s), refs' # refs
      PROVE  \/ r \notin steady
             \/ Drops(r)
             \/ usesRedis /\ gc.stage = "checking" /\ r \in ttl
  <2>1. gc.stage = "checking" /\ DelRef(s) /\ r = s
    BY <1>3 DEF CheckRef, DelRef
  <2>2. CASE HasRefExpired(r)
    BY <2>1, <2>2 DEF HasRefExpired
  <2>3. CASE project = None
    BY <2>3 DEF SteadyWanted, Wanted
  <2>4. CASE ~HasRefExpired(r) /\ project # None
    BY <1>3, <2>1, <2>4 DEF CheckRef, Drops
  <2>5. QED
    BY <2>2, <2>3, <2>4
<1>4. CASE ResyncRef
  BY <1>4 DEF ResyncRef, AtHasRef, SetRef
<1>5. ASSUME NEW s \in Ref, SweepRef(s), refs' # refs
      PROVE  r \notin steady
  <2>1. gc.stage = "sweeping" /\ gc.todo[s] # None /\ r = s
    BY <1>5 DEF SweepRef, DelRef
  <2>2. QED
    BY <2>1 DEF SteadyListed
<1>6. QED
  BY <1>1, <1>2, <1>3, <1>4, <1>5
     DEF GCStep, CollectRefs, LoadProject, ReadProjects, ListRefs, ReloadRefs, CollectionFails

\* With either store, the only refs wanted all along that GarbageCollectRefs
\* deletes are those whose own configuration does not match them and, with Redis,
\* those whose expiry key exists.
THEOREM SparesUnmarked == Spec => CollectionSparesUnmarked
<1>1. CollectionInv /\ [Next]_vars =>
        [\A r \in Ref :
            gc' # gc /\ refs[r] # None /\ refs'[r] = None
              => \/ r \notin steady
                 \/ Drops(r)
                 \/ usesRedis /\ gc.stage = "checking" /\ r \in ttl]_vars
  BY StepSpares
<1>2. QED
  BY <1>1, Inductive, PTL DEF Spec, CollectionSparesUnmarked

\* What a step does with a wanted ref that the collection has dropped.
LEMMA StepReturns ==
    ASSUME CollectionInv, [Next]_vars,
           gc.stage \in {"dropped", "resyncing"}, gc' # gc, gc.at \in steady
    PROVE  \/ gc'.stage = "resyncing" /\ gc'.at = gc.at
           \/ refs'[gc.at] # None /\ gc.at \in Matches[refs'[gc.at]]
           \/ usesRedis /\ gc' = GCIdle
<1> USE DEF CollectionInv, TypeOK, StoreType, GCType
<1>1. GCStep \/ CollectionFails
  BY OnlyCollectionChangesGC DEF Next, vars, taskVars
<1>2. CASE LoadProject
  <2>1. gc.stage = "dropped"
    BY <1>2 DEF LoadProject
  <2>2. gc.at \in Ref /\ project # None /\ gc.at \in Matches[project]
    BY DEF SteadyWanted, Wanted, AtHasRef
  <2>3. gc.at \notin Named[gc.config]
    BY <2>1 DEF DroppedUnnamed
  <2>4. project # gc.config
    BY <2>2, <2>3, ConfigAssumption
  <2>5. QED
    BY <1>2, <2>2, <2>4 DEF LoadProject
<1>3. CASE ResyncRef
  <2>1. gc.at \in Ref /\ gc.config # None /\ gc.at \in Matches[gc.config]
    BY <1>3 DEF ResyncRef, AtHasRef, ResyncMatches
  <2>2. refs'[gc.at] = gc.config
    BY <1>3, <2>1 DEF ResyncRef, SetRef
  <2>3. QED
    BY <2>1, <2>2
<1>4. CASE CollectionFails
  BY <1>4 DEF CollectionFails
<1>5. QED
  BY <1>1, <1>2, <1>3, <1>4
     DEF GCStep, CollectRefs, CheckRef, SweepRef, ReadProjects, ListRefs, ReloadRefs

\* A wanted ref that GarbageCollectRefs drops for its own configuration it stores
\* again with one that matches, before it goes on; only a failing call of Redis
\* leaves the ref deleted.
THEOREM DroppedReturn == Spec => DroppedRefsReturn
<1>1. CollectionInv /\ [Next]_vars =>
        [gc.stage \in {"dropped", "resyncing"} /\ gc' # gc /\ gc.at \in steady
           => \/ gc'.stage = "resyncing" /\ gc'.at = gc.at
              \/ refs'[gc.at] # None /\ gc.at \in Matches[refs'[gc.at]]
              \/ usesRedis /\ gc' = GCIdle]_vars
  BY StepReturns
<1>2. QED
  BY <1>1, Inductive, PTL DEF Spec, DroppedRefsReturn
=============================================================================
