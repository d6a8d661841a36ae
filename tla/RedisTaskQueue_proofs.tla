------------------------ MODULE RedisTaskQueue_proofs ------------------------
(***************************************************************************)
(* Theorems about RedisTaskQueue for every set of keys, replicas and       *)
(* workers and every capacity.  The limit and the count hold whatever      *)
(* fails; that a key has one live job needs keepalives in time, single     *)
(* delivery and no lost command, as the run "recovery" has it.             *)
(***************************************************************************)
EXTENDS RedisTaskQueue, FiniteSetTheorems, TLAPS

-----------------------------------------------------------------------------
\* Type correctness.

BusyHasJob == \A w \in Worker : step[w] # "idle" => job[w] \in Reservation

TypeInv == TypeOK /\ BusyHasJob

\* The types hold at first.
LEMMA InitType == Init => TypeInv
<1> SUFFICES ASSUME Init PROVE TypeInv
  OBVIOUS
<1>1. executed \in 0 .. (CounterModulus - 1)
  BY BoundAssumption DEF Init
<1>2. /\ task \in [Key -> Reservation \cup {None}]
      /\ job \in [Worker -> Reservation \cup {None}]
      /\ site \in [Worker -> Replica \cup {None}]
  BY DEF Init
<1>3. /\ keepalive \in SUBSET Replica /\ stream \in SUBSET Reservation /\ up \in SUBSET Replica
      /\ call \in [Reservation -> {"none", "reserving", "reserved", "rollback"}]
      /\ step \in [Worker -> {"idle", "checking", "handling", "settling"}]
      /\ counted \in [Reservation -> Nat]
  BY DEF Init
<1>4. BusyHasJob
  BY DEF Init, BusyHasJob
<1>5. QED
  BY <1>1, <1>2, <1>3, <1>4 DEF TypeInv, TypeOK

\* What replicas do keeps the types.
LEMMA ReplicaType ==
    ASSUME TypeInv, NEW x \in Replica, Start(x) \/ Crash(x) \/ Refresh(x) \/ Expire(x)
    PROVE  TypeInv'
<1> USE DEF TypeInv, TypeOK, BusyHasJob, redisVars, workerVars
<1>1. CASE Start(x)
  BY <1>1 DEF Start
<1>2. CASE Crash(x)
  <2>1. call' \in [Reservation -> {"none", "reserving", "reserved", "rollback"}]
    BY <1>2 DEF Crash
  <2>2. /\ step' \in [Worker -> {"idle", "checking", "handling", "settling"}]
        /\ job' \in [Worker -> Reservation \cup {None}]
        /\ site' \in [Worker -> Replica \cup {None}]
    BY <1>2 DEF Crash
  <2>3. BusyHasJob'
    BY <1>2 DEF Crash
  <2>4. QED
    BY <1>2, <2>1, <2>2, <2>3 DEF Crash
<1>3. CASE Refresh(x)
  BY <1>3 DEF Refresh
<1>4. CASE Expire(x)
  BY <1>4 DEF Expire
<1>5. QED
  BY <1>1, <1>2, <1>3, <1>4

\* A reservation has a key and an owner.
LEMMA KeyOf == \A r \in Reservation : r.key \in Key /\ r.owner \in Replica
BY DEF Reservation

\* Every step of a call keeps the types.
LEMMA CallType ==
    ASSUME TypeInv, NEW r \in Reservation, Schedule(r) \/ CallStep(r)
    PROVE  TypeInv'
<1> USE DEF TypeInv, TypeOK, BusyHasJob, redisVars, workerVars
<1>k. r.key \in Key
  BY KeyOf
<1>1. CASE Schedule(r)
  BY <1>1 DEF Schedule
<1>2. CASE QueueTaskLimited(r)
  BY <1>2, <1>k DEF QueueTaskLimited
<1>3. CASE QueueTaskLimitedFails(r)
  BY <1>3, <1>k DEF QueueTaskLimitedFails
<1>4. CASE Publish(r)
  BY <1>4 DEF Publish
<1>5. CASE PublishFails(r)
  BY <1>5 DEF PublishFails
<1>6. CASE CancelTask(r)
  BY <1>6, <1>k DEF CancelTask
<1>7. QED
  BY <1>1, <1>2, <1>3, <1>4, <1>5, <1>6 DEF CallStep

\* Delivering a job keeps the types.
LEMMA DeliverType ==
    ASSUME TypeInv, NEW w \in Worker, NEW x \in Replica, NEW r \in Reservation, Deliver(w, x, r)
    PROVE  TypeInv'
BY DEF TypeInv, TypeOK, BusyHasJob, Deliver, redisVars

\* A worker that is done with a job leaves its types right.
LEMMA LeaveType ==
    ASSUME TypeInv, NEW w \in Worker, Leave(w)
    PROVE  /\ step' \in [Worker -> {"idle", "checking", "handling", "settling"}]
           /\ job' \in [Worker -> Reservation \cup {None}]
           /\ site' \in [Worker -> Replica \cup {None}]
           /\ BusyHasJob'
BY DEF TypeInv, TypeOK, BusyHasJob, Leave

\* Every step of a worker keeps the types.
LEMMA WorkerType ==
    ASSUME TypeInv, NEW w \in Worker, WorkerStep(w)
    PROVE  TypeInv'
<1> USE DEF TypeInv, TypeOK, redisVars
<1>1. CASE EnterHandler(w)
  BY <1>1 DEF EnterHandler, BusyHasJob
<1>2. CASE SkipJob(w)
  BY <1>2, LeaveType DEF SkipJob
<1>3. CASE CheckFails(w)
  BY <1>3, LeaveType DEF CheckFails
<1>4. CASE DequeueTask(w)
  <2>1. job[w] \in Reservation /\ job[w].key \in Key
    BY <1>4, KeyOf DEF DequeueTask, BusyHasJob
  <2>2. executed' \in 0 .. (CounterModulus - 1)
    BY <1>4, BoundAssumption DEF DequeueTask
  <2>3. task' \in [Key -> Reservation \cup {None}] /\ counted' \in [Reservation -> Nat]
    BY <1>4, <2>1 DEF DequeueTask
  <2>4. QED
    BY <1>4, <2>2, <2>3 DEF DequeueTask, BusyHasJob
<1>5. CASE DequeueTaskFails(w)
  BY <1>5 DEF DequeueTaskFails, BusyHasJob
<1>6. CASE Acknowledge(w)
  BY <1>6, LeaveType DEF Acknowledge
<1>7. CASE KeepForRetry(w)
  BY <1>7, LeaveType DEF KeepForRetry
<1>8. QED
  BY <1>1, <1>2, <1>3, <1>4, <1>5, <1>6, <1>7 DEF WorkerStep

\* Every step keeps the types.
LEMMA NextType == TypeInv /\ [Next]_vars => TypeInv'
<1> SUFFICES ASSUME TypeInv, [Next]_vars PROVE TypeInv'
  OBVIOUS
<1>1. CASE UNCHANGED vars
  BY <1>1 DEF vars, redisVars, workerVars, TypeInv, TypeOK, BusyHasJob
<1>2. CASE Next
  BY <1>2, ReplicaType, CallType, WorkerType, DeliverType DEF Next
<1>3. QED
  BY <1>1, <1>2

\* What Redis, the calls and the workers keep stays well typed, and a worker that is
\* not idle has a job.
THEOREM TypeCorrect == Spec => []TypeOK
<1>1. Spec => []TypeInv
  BY InitType, NextType, PTL DEF Spec
<1>2. TypeInv => TypeOK
  BY DEF TypeInv
<1>3. QED
  BY <1>1, <1>2, PTL

-----------------------------------------------------------------------------
\* The count of executed tasks.

\* A reservation that may still be made, or completed, has not been counted.  Once it
\* is counted it is not in Redis, and its call, the only one that could put it there
\* again, has gone on.
CountInv ==
    \A r \in Reservation :
        /\ call[r] = "reserving" => task[r.key] # r
        /\ call[r] = "reserving" \/ task[r.key] = r => counted[r] = 0
        /\ counted[r] <= 1

\* Nothing is counted at first.
LEMMA InitCount == Init => CountInv
BY KeyOf, NoneAssumption DEF Init, CountInv

\* Every step counts a reservation at most once.
LEMMA NextCount == TypeInv /\ CountInv /\ [Next]_vars => CountInv'
<1> SUFFICES ASSUME TypeInv, CountInv, [Next]_vars PROVE CountInv'
  OBVIOUS
<1> USE DEF CountInv
<1>1. CASE UNCHANGED vars
  BY <1>1 DEF vars, redisVars
<1>2. ASSUME NEW x \in Replica, Start(x) \/ Crash(x) \/ Refresh(x) \/ Expire(x)
      PROVE  CountInv'
  BY <1>2 DEF Start, Crash, Refresh, Expire, redisVars, TypeInv, TypeOK
<1>3. ASSUME NEW r \in Reservation, Schedule(r) \/ CallStep(r)
      PROVE  CountInv'
  <2> SUFFICES ASSUME NEW q \in Reservation
               PROVE  /\ call'[q] = "reserving" => task'[q.key] # q
                      /\ call'[q] = "reserving" \/ task'[q.key] = q => counted'[q] = 0
                      /\ counted'[q] <= 1
    OBVIOUS
  <2>k. r.key \in Key /\ q.key \in Key
    BY KeyOf
  <2> USE DEF TypeInv, TypeOK, redisVars
  <2>1. CASE Schedule(r)
    BY <2>1 DEF Schedule, InUse
  <2>2. CASE QueueTaskLimited(r)
    BY <2>2, <2>k DEF QueueTaskLimited
  <2>3. CASE QueueTaskLimitedFails(r)
    BY <2>3, <2>k DEF QueueTaskLimitedFails
  <2>4. CASE Publish(r)
    BY <2>4 DEF Publish
  <2>5. CASE PublishFails(r)
    BY <2>5 DEF PublishFails
  <2>6. CASE CancelTask(r)
    BY <2>6, <2>k, NoneAssumption DEF CancelTask
  <2>7. QED
    BY <1>3, <2>1, <2>2, <2>3, <2>4, <2>5, <2>6 DEF CallStep
<1>4. ASSUME NEW w \in Worker, WorkerStep(w)
      PROVE  CountInv'
  <2>1. CASE DequeueTask(w)
    <3>1. job[w] \in Reservation /\ job[w].key \in Key
      BY <2>1, KeyOf DEF DequeueTask, TypeInv, TypeOK, BusyHasJob
    <3>2. CASE task[job[w].key] = job[w]
      <4> SUFFICES ASSUME NEW q \in Reservation
                   PROVE  /\ call'[q] = "reserving" => task'[q.key] # q
                          /\ call'[q] = "reserving" \/ task'[q.key] = q => counted'[q] = 0
                          /\ counted'[q] <= 1
        OBVIOUS
      <4>1. q.key \in Key
        BY KeyOf
      <4>2. CASE q = job[w]
        <5>1. counted[q] = 0 /\ call[q] # "reserving"
          BY <3>2, <4>2, <2>1 DEF DequeueTask
        <5>2. counted'[q] = 1
          BY <2>1, <3>1, <3>2, <4>2, <5>1 DEF DequeueTask, TypeInv, TypeOK
        <5>3. task'[q.key] = None
          BY <2>1, <3>1, <3>2, <4>2 DEF DequeueTask, TypeInv, TypeOK
        <5>4. call' = call
          BY <2>1 DEF DequeueTask
        <5>5. QED
          BY <5>1, <5>2, <5>3, <5>4, NoneAssumption
      <4>3. CASE q # job[w]
        BY <2>1, <3>1, <3>2, <4>1, <4>3, NoneAssumption DEF DequeueTask, TypeInv, TypeOK
      <4>4. QED
        BY <4>2, <4>3
    <3>3. CASE task[job[w].key] # job[w]
      BY <2>1, <3>3 DEF DequeueTask
    <3>4. QED
      BY <3>2, <3>3
  <2>2. CASE ~DequeueTask(w)
    BY <1>4, <2>2 DEF WorkerStep, EnterHandler, SkipJob, CheckFails, DequeueTaskFails, Acknowledge,
                      KeepForRetry, redisVars
  <2>3. QED
    BY <2>1, <2>2
<1>5. ASSUME NEW w \in Worker, NEW x \in Replica, NEW r \in Reservation, Deliver(w, x, r)
      PROVE  CountInv'
  BY <1>5 DEF Deliver, redisVars
<1>6. QED
  BY <1>1, <1>2, <1>3, <1>4, <1>5 DEF Next

\* Whatever fails, and however often a job is delivered, a reservation is counted as
\* executed at most once.
THEOREM CompletionsCountOnce == Spec => []CountedOnce
<1>1. Spec => [](TypeInv /\ CountInv)
  BY InitType, InitCount, NextType, NextCount, PTL DEF Spec
<1>2. TypeInv /\ CountInv => CountedOnce
  BY DEF CountInv, CountedOnce
<1>3. QED
  BY <1>1, <1>2, PTL

-----------------------------------------------------------------------------
\* The limit on reservations.

\* The reserved keys are finitely many.
LEMMA ReservedFinite == IsFiniteSet(Reserved) /\ Cardinality(Reserved) \in Nat
<1>1. Reserved \subseteq Key
  BY DEF Reserved
<1>2. QED
  BY <1>1, FiniteAssumption, FS_Subset, FS_CardinalityType

\* The script adds a key to the reserved ones only below the limit; a takeover
\* leaves them as they are.
LEMMA GrantBounded ==
    ASSUME TypeInv, CapacityBound, NEW r \in Reservation, Grants(r.key),
           task' = [task EXCEPT ![r.key] = r]
    PROVE  CapacityBound'
<1>k. r.key \in Key /\ r # None
  BY KeyOf, NoneAssumption
<1>1. Reserved' = Reserved \cup {r.key}
  BY <1>k DEF Reserved, TypeInv, TypeOK
<1>2. CASE task[r.key] = None
  <2>1. Cardinality(Reserved) < Capacity
    BY <1>2 DEF Grants
  <2>2. r.key \notin Reserved
    BY <1>2 DEF Reserved
  <2>3. Cardinality(Reserved') = Cardinality(Reserved) + 1
    BY <1>1, <2>2, ReservedFinite, FS_AddElement
  <2>4. QED
    BY <2>1, <2>3, ReservedFinite, BoundAssumption DEF CapacityBound
<1>3. CASE task[r.key] # None
  <2>1. Reserved' = Reserved
    BY <1>1, <1>3, <1>k DEF Reserved
  <2>2. QED
    BY <2>1 DEF CapacityBound
<1>4. QED
  BY <1>2, <1>3

\* Whatever else happens, reservations only go.
LEMMA FewerBounded ==
    ASSUME CapacityBound, Reserved' \subseteq Reserved
    PROVE  CapacityBound'
<1>1. /\ IsFiniteSet(Reserved') /\ Cardinality(Reserved') <= Cardinality(Reserved)
      /\ Cardinality(Reserved') \in Nat
  BY ReservedFinite, FS_Subset, FS_CardinalityType
<1>2. QED
  BY <1>1, ReservedFinite, BoundAssumption DEF CapacityBound

\* The limit is kept at first.
LEMMA InitBounded == Init => CapacityBound
<1> SUFFICES ASSUME Init PROVE CapacityBound
  OBVIOUS
<1>1. Reserved = {}
  BY DEF Init, Reserved
<1>2. QED
  BY <1>1, FS_EmptySet, BoundAssumption DEF CapacityBound

\* Every step keeps the limit.
LEMMA NextBounded == TypeInv /\ CapacityBound /\ [Next]_vars => CapacityBound'
<1> SUFFICES ASSUME TypeInv, CapacityBound, [Next]_vars PROVE CapacityBound'
  OBVIOUS
<1>s. ASSUME task' = task PROVE CapacityBound'
  BY <1>s, FewerBounded DEF Reserved
<1>1. CASE UNCHANGED vars
  BY <1>1, <1>s DEF vars, redisVars
<1>2. ASSUME NEW x \in Replica, Start(x) \/ Crash(x) \/ Refresh(x) \/ Expire(x)
      PROVE  CapacityBound'
  BY <1>2, <1>s DEF Start, Crash, Refresh, Expire, redisVars
<1>3. ASSUME NEW r \in Reservation, Schedule(r) \/ CallStep(r)
      PROVE  CapacityBound'
  <2>1. CASE QueueTaskLimited(r)
    BY <2>1, <1>s, GrantBounded DEF QueueTaskLimited
  <2>2. CASE QueueTaskLimitedFails(r)
    BY <2>2, <1>s, GrantBounded DEF QueueTaskLimitedFails
  <2>3. CASE CancelTask(r)
    <3>1. r.key \in Key
      BY KeyOf
    <3>2. Reserved' \subseteq Reserved
      BY <2>3, <3>1 DEF CancelTask, Reserved, TypeInv, TypeOK
    <3>3. QED
      BY <3>2, FewerBounded
  <2>4. CASE Schedule(r) \/ Publish(r) \/ PublishFails(r)
    BY <2>4, <1>s DEF Schedule, Publish, PublishFails, redisVars
  <2>5. QED
    BY <1>3, <2>1, <2>2, <2>3, <2>4 DEF CallStep
<1>4. ASSUME NEW w \in Worker, WorkerStep(w)
      PROVE  CapacityBound'
  <2>1. CASE DequeueTask(w)
    <3>1. Reserved' \subseteq Reserved
      BY <2>1 DEF DequeueTask, Reserved, TypeInv, TypeOK
    <3>2. QED
      BY <3>1, FewerBounded
  <2>2. CASE ~DequeueTask(w)
    BY <1>4, <2>2, <1>s DEF WorkerStep, EnterHandler, SkipJob, CheckFails, DequeueTaskFails,
                            Acknowledge, KeepForRetry, redisVars
  <2>3. QED
    BY <2>1, <2>2
<1>5. ASSUME NEW w \in Worker, NEW x \in Replica, NEW r \in Reservation, Deliver(w, x, r)
      PROVE  CapacityBound'
  BY <1>5, <1>s DEF Deliver, redisVars
<1>6. QED
  BY <1>1, <1>2, <1>3, <1>4, <1>5 DEF Next

\* Whatever fails and whoever takes reservations over, never more keys are reserved
\* than maximum_jobs_queue_size.
THEOREM LimitHolds == Spec => []CapacityBound
<1>1. Spec => [](TypeInv /\ CapacityBound)
  BY InitType, InitBounded, NextType, NextBounded, PTL DEF Spec
<1>2. QED
  BY <1>1, PTL

-----------------------------------------------------------------------------
\* One live job of a key.

\* A running replica has its keepalive, and a call belongs to a running replica.
KeepaliveInTime == up \subseteq keepalive
CallsOfRunning == \A r \in Reservation : call[r] # "none" => r.owner \in up

\* One worker has a job, and none has one that is not published.
OneWorkerPerJob == \A v, w \in Worker : job[v] = job[w] /\ job[v] # None => v = w
NotYetPublished ==
    \A r \in Reservation : call[r] # "none" => r \notin stream /\ \A w \in Worker : job[w] # r

\* The reservation in Redis is the one about to be published, or the one handled.
LiveIsReserved ==
    /\ \A r \in Reservation : call[r] = "reserved" => task[r.key] = r
    /\ \A w \in Worker : step[w] = "handling" /\ job[w].owner \in up => task[job[w].key] = job[w]

LiveInv ==
    KeepaliveInTime /\ CallsOfRunning /\ OneWorkerPerJob /\ NotYetPublished /\ LiveIsReserved

\* No job is live at first.
LEMMA InitLive == Init => LiveInv
BY DEF Init, LiveInv, KeepaliveInTime, CallsOfRunning, OneWorkerPerJob, NotYetPublished, LiveIsReserved

\* Replicas come with a keepalive and a new UUID, and go with their calls.
LEMMA ReplicaLive ==
    ASSUME TypeInv, LiveInv, Lapses = FALSE,
           NEW x \in Replica, Start(x) \/ Crash(x) \/ Refresh(x) \/ Expire(x)
    PROVE  LiveInv'
<1> USE DEF LiveInv, TypeInv, TypeOK, BusyHasJob, redisVars, workerVars
<1>1. CASE Start(x)
  <2>1. \A w \in Worker : step[w] = "handling" => job[w].owner # x
    BY <1>1 DEF Start, FreshReplica, InUse
  <2>2. LiveIsReserved'
    BY <1>1, <2>1 DEF Start, LiveIsReserved
  <2>3. QED
    BY <1>1, <2>2 DEF Start, KeepaliveInTime, CallsOfRunning, OneWorkerPerJob, NotYetPublished
<1>2. CASE Crash(x)
  <2>1. KeepaliveInTime' /\ CallsOfRunning'
    BY <1>2 DEF Crash, KeepaliveInTime, CallsOfRunning
  <2>2. OneWorkerPerJob' /\ NotYetPublished'
    BY <1>2, NoneAssumption DEF Crash, OneWorkerPerJob, NotYetPublished
  <2>3. LiveIsReserved'
    BY <1>2 DEF Crash, LiveIsReserved
  <2>4. QED
    BY <2>1, <2>2, <2>3
<1>3. CASE Refresh(x)
  BY <1>3 DEF Refresh, KeepaliveInTime, CallsOfRunning, OneWorkerPerJob, NotYetPublished, LiveIsReserved
<1>4. CASE Expire(x)
  BY <1>4 DEF Expire, KeepaliveInTime, CallsOfRunning, OneWorkerPerJob, NotYetPublished, LiveIsReserved
<1>5. QED
  BY <1>1, <1>2, <1>3, <1>4

\* What is live is not taken over: its owner has a keepalive.
LEMMA NoTakeoverOfLive ==
    ASSUME TypeInv, LiveInv, NEW k \in Key, Grants(k)
    PROVE  task[k] = None \/ task[k].owner \notin up
BY DEF Grants, LiveInv, KeepaliveInTime

\* A step of a call keeps every live job reserved, if no command is lost.
LEMMA CallLive ==
    ASSUME TypeInv, LiveInv, Fails = FALSE, NEW r \in Reservation, Schedule(r) \/ CallStep(r)
    PROVE  LiveInv'
<1> USE DEF LiveInv, TypeInv, TypeOK, BusyHasJob, redisVars, workerVars
<1>k. r.key \in Key /\ r # None /\ \A q \in Reservation : q.key \in Key /\ q # None
  BY KeyOf, NoneAssumption
<1>1. CASE Schedule(r)
  BY <1>1 DEF Schedule, InUse, KeepaliveInTime, CallsOfRunning, OneWorkerPerJob, NotYetPublished,
              LiveIsReserved
<1>2. CASE QueueTaskLimited(r)
  <2>1. KeepaliveInTime' /\ CallsOfRunning' /\ OneWorkerPerJob' /\ NotYetPublished'
    BY <1>2 DEF QueueTaskLimited, KeepaliveInTime, CallsOfRunning, OneWorkerPerJob, NotYetPublished
  <2>2. CASE Grants(r.key)
    <3>1. task[r.key] = None \/ task[r.key].owner \notin up
      BY <2>2, <1>k, NoTakeoverOfLive
    <3>2. ASSUME NEW q \in Reservation, call'[q] = "reserved" PROVE task'[q.key] = q
      BY <1>2, <2>2, <3>1, <3>2, <1>k DEF QueueTaskLimited, LiveIsReserved, CallsOfRunning
    <3>3. ASSUME NEW w \in Worker, step'[w] = "handling", job'[w].owner \in up'
          PROVE  task'[job'[w].key] = job'[w]
      BY <1>2, <2>2, <3>1, <3>3, <1>k DEF QueueTaskLimited, LiveIsReserved
    <3>4. QED
      BY <2>1, <3>2, <3>3 DEF LiveIsReserved
  <2>3. CASE ~Grants(r.key)
    BY <1>2, <2>1, <2>3 DEF QueueTaskLimited, LiveIsReserved
  <2>4. QED
    BY <2>2, <2>3
<1>3. CASE QueueTaskLimitedFails(r)
  BY <1>3 DEF QueueTaskLimitedFails
<1>4. CASE Publish(r)
  BY <1>4 DEF Publish, KeepaliveInTime, CallsOfRunning, OneWorkerPerJob, NotYetPublished, LiveIsReserved
<1>5. CASE PublishFails(r)
  BY <1>5 DEF PublishFails, KeepaliveInTime, CallsOfRunning, OneWorkerPerJob, NotYetPublished, LiveIsReserved
<1>6. CASE CancelTask(r)
  <2>1. KeepaliveInTime' /\ CallsOfRunning' /\ OneWorkerPerJob' /\ NotYetPublished'
    BY <1>6 DEF CancelTask, KeepaliveInTime, CallsOfRunning, OneWorkerPerJob, NotYetPublished
  <2>2. \A w \in Worker : job[w] # r
    BY <1>6 DEF CancelTask, NotYetPublished
  <2>3. ASSUME NEW q \in Reservation, call'[q] = "reserved" PROVE task'[q.key] = q
    BY <1>6, <2>3, <1>k DEF CancelTask, LiveIsReserved
  <2>4. ASSUME NEW w \in Worker, step'[w] = "handling", job'[w].owner \in up'
        PROVE  task'[job'[w].key] = job'[w]
    BY <1>6, <2>2, <2>4, <1>k DEF CancelTask, LiveIsReserved
  <2>5. QED
    BY <2>1, <2>3, <2>4 DEF LiveIsReserved
<1>7. QED
  BY <1>1, <1>2, <1>3, <1>4, <1>5, <1>6 DEF CallStep

\* So does a delivery, if a job is delivered to one worker at a time.
LEMMA DeliverLive ==
    ASSUME TypeInv, LiveInv, Redelivers = FALSE,
           NEW w \in Worker, NEW x \in Replica, NEW r \in Reservation, Deliver(w, x, r)
    PROVE  LiveInv'
<1> USE DEF LiveInv, TypeInv, TypeOK, Deliver, redisVars
<1>1. KeepaliveInTime' /\ CallsOfRunning'
  BY DEF KeepaliveInTime, CallsOfRunning
<1>2. OneWorkerPerJob'
  BY DEF OneWorkerPerJob
<1>3. NotYetPublished'
  BY DEF NotYetPublished
<1>4. LiveIsReserved'
  BY DEF LiveIsReserved
<1>5. QED
  BY <1>1, <1>2, <1>3, <1>4

\* A worker that leaves takes nothing from the others.
LEMMA LeaveLive ==
    ASSUME TypeInv, LiveInv, NEW w \in Worker, Leave(w),
           stream' \subseteq stream, UNCHANGED <<task, keepalive, up, call>>
    PROVE  LiveInv'
<1> USE DEF LiveInv, TypeInv, TypeOK, Leave
<1>1. OneWorkerPerJob'
  BY DEF OneWorkerPerJob
<1>2. NotYetPublished'
  BY NoneAssumption DEF NotYetPublished
<1>3. LiveIsReserved'
  BY DEF LiveIsReserved
<1>4. QED
  BY <1>1, <1>2, <1>3 DEF KeepaliveInTime, CallsOfRunning

\* So does a step of a worker, if no command is lost.
LEMMA WorkerLive ==
    ASSUME TypeInv, LiveInv, Fails = FALSE, NEW w \in Worker, WorkerStep(w)
    PROVE  LiveInv'
<1>1. CASE EnterHandler(w)
  BY <1>1 DEF EnterHandler, redisVars, LiveInv, TypeInv, TypeOK, KeepaliveInTime, CallsOfRunning,
              OneWorkerPerJob, NotYetPublished, LiveIsReserved
<1>2. CASE DequeueTask(w)
  <2> USE DEF LiveInv, TypeInv, TypeOK
  <2>1. job[w] \in Reservation /\ job[w].key \in Key /\ job[w] # None
    BY <1>2, KeyOf, NoneAssumption DEF DequeueTask, BusyHasJob
  <2>2. KeepaliveInTime' /\ CallsOfRunning' /\ OneWorkerPerJob' /\ NotYetPublished'
    BY <1>2 DEF DequeueTask, KeepaliveInTime, CallsOfRunning, OneWorkerPerJob, NotYetPublished
  <2>3. ASSUME NEW q \in Reservation, call'[q] = "reserved" PROVE task'[q.key] = q
    <3>1. call[q] = "reserved" /\ task[q.key] = q /\ job[w] # q /\ q.key \in Key
      BY <1>2, <2>3, KeyOf DEF DequeueTask, LiveIsReserved, NotYetPublished
    <3>2. QED
      BY <1>2, <2>1, <3>1 DEF DequeueTask
  <2>4. ASSUME NEW v \in Worker, step'[v] = "handling", job'[v].owner \in up'
        PROVE  task'[job'[v].key] = job'[v]
    <3>1. v # w /\ step[v] = "handling" /\ job[v].owner \in up /\ job'[v] = job[v]
      BY <1>2, <2>4 DEF DequeueTask
    <3>2. task[job[v].key] = job[v] /\ job[v] # job[w]
      BY <2>1, <3>1 DEF LiveIsReserved, OneWorkerPerJob
    <3>3. job[v].key \in Key
      BY <3>1, KeyOf DEF BusyHasJob
    <3>4. QED
      BY <1>2, <2>1, <3>1, <3>2, <3>3 DEF DequeueTask
  <2>5. QED
    BY <2>2, <2>3, <2>4 DEF LiveIsReserved
<1>3. CASE SkipJob(w) \/ Acknowledge(w) \/ KeepForRetry(w)
  BY <1>3, LeaveLive DEF SkipJob, Acknowledge, KeepForRetry, redisVars
<1>4. CASE CheckFails(w) \/ DequeueTaskFails(w)
  BY <1>4 DEF CheckFails, DequeueTaskFails
<1>5. QED
  BY <1>1, <1>2, <1>3, <1>4 DEF WorkerStep

\* So does every step, if keepalives are in time as well.
LEMMA NextLive ==
    ASSUME Lapses = FALSE, Redelivers = FALSE, Fails = FALSE
    PROVE  TypeInv /\ LiveInv /\ [Next]_vars => LiveInv'
<1> SUFFICES ASSUME TypeInv, LiveInv, [Next]_vars PROVE LiveInv'
  OBVIOUS
<1>1. CASE UNCHANGED vars
  BY <1>1 DEF vars, redisVars, workerVars, LiveInv, KeepaliveInTime, CallsOfRunning,
              OneWorkerPerJob, NotYetPublished, LiveIsReserved
<1>2. CASE Next
  BY <1>2, ReplicaLive, CallLive, WorkerLive, DeliverLive DEF Next
<1>3. QED
  BY <1>1, <1>2

\* Every live job of a key is the reservation that Redis holds for it.
LEMMA LiveAtMostOne == TypeInv /\ LiveInv => OneLiveJobPerKey
<1> SUFFICES ASSUME TypeInv, LiveInv, NEW k \in Key PROVE Cardinality(LiveJobs(k)) <= 1
  BY DEF OneLiveJobPerKey
<1>1. LiveJobs(k) \subseteq {task[k]}
  BY DEF LiveJobs, LiveInv, LiveIsReserved
<1>2. IsFiniteSet({task[k]}) /\ Cardinality({task[k]}) = 1
  BY FS_Singleton
<1>3. QED
  BY <1>1, <1>2, FS_Subset

\* As long as keepalives are refreshed in time, jobs are delivered to one worker at a
\* time and no command is lost, a key has at most one live job, although replicas
\* crash at any point and others take their reservations over.
THEOREM OneLiveJob ==
    ASSUME Lapses = FALSE, Redelivers = FALSE, Fails = FALSE
    PROVE  Spec => []OneLiveJobPerKey
<1>1. TypeInv /\ LiveInv /\ [Next]_vars => LiveInv'
  BY NextLive
<1>2. Spec => [](TypeInv /\ LiveInv)
  BY <1>1, InitType, InitLive, NextType, PTL DEF Spec
<1>3. QED
  BY <1>2, LiveAtMostOne, PTL

=============================================================================
