--------------------------- MODULE RedisTaskQueue ---------------------------
(***************************************************************************)
(* The task queue of exporters that share a Redis: ScheduleTask, the owner *)
(* check of ownedTaskHandler and the deferred dequeueTask (pkg/controller),*)
(* the Lua scripts that reserve, complete and cancel a task (pkg/store/    *)
(* redis.go), and the keepalive keys that tell a live publisher from a     *)
(* dead one.  The job stream is a library (redisq): it keeps a job until   *)
(* it is acknowledged and may deliver it again.                            *)
(*                                                                         *)
(* A replica is one run of the program (New draws its UUID).  Replicas     *)
(* crash at any point; Redis commands fail before or after taking effect.  *)
(***************************************************************************)
EXTENDS Integers, FiniteSets

CONSTANTS Key,             \* task keys: (task type, unique ID)
          Replica,         \* runs of the program, named by their UUID
          Nonce,           \* the random half of a reservation ID
          Worker,          \* goroutines that handle jobs, on any replica
          None,            \* no reservation, no job, no replica
          Capacity,        \* maximum_jobs_queue_size
          CounterModulus,  \* the executed-tasks counter wraps here
          Lapses,          \* a running replica's keepalive key may expire
          Redelivers,      \* a job may be delivered while a worker has it
          Fails            \* Redis commands and their replies may be lost

ASSUME BoundAssumption ==
    /\ Capacity \in Nat \ {0}       \* NewTaskController raises it to 1
    /\ CounterModulus \in Nat \ {0}

ASSUME FaultAssumption == {Lapses, Redelivers, Fails} \subseteq BOOLEAN

ASSUME FiniteAssumption == IsFiniteSet(Key)

(***************************************************************************)
(* "<controller UUID>|<UUID>": the publisher is part of the ID, and so is, *)
(* in the marker of the job, the key.                                      *)
(***************************************************************************)
Reservation == [owner : Replica, key : Key, nonce : Nonce]

ASSUME NoneAssumption == None \notin Reservation \cup Replica

VARIABLES
    task,         \* task[k]: the value of the Redis key task:<type>:<id>
    keepalive,    \* the replicas whose keepalive key exists
    executed,     \* the Redis counter tasksExecutedCount
    stream,       \* jobs in the Redis stream, not acknowledged
    up,           \* the replicas that are running
    call,         \* call[r]: where the ScheduleTask with reservation r stands
    step,         \* step[w]: what worker w is doing
    job,          \* job[w]: the job it has
    site,         \* site[w]: the replica it belongs to
    counted       \* history: how often reservation r was counted as executed

redisVars == <<task, keepalive, executed, stream>>
workerVars == <<step, job, site>>
vars == <<redisVars, up, call, workerVars, counted>>

TypeOK ==
    /\ task \in [Key -> Reservation \cup {None}]
    /\ keepalive \in SUBSET Replica
    /\ executed \in 0 .. (CounterModulus - 1)
    /\ stream \in SUBSET Reservation
    /\ up \in SUBSET Replica
    /\ call \in [Reservation -> {"none", "reserving", "reserved", "rollback"}]
    /\ step \in [Worker -> {"idle", "checking", "handling", "settling"}]
    /\ job \in [Worker -> Reservation \cup {None}]
    /\ site \in [Worker -> Replica \cup {None}]
    /\ counted \in [Reservation -> Nat]

Init ==
    /\ task = [k \in Key |-> None]
    /\ keepalive = {}
    /\ executed = 0
    /\ stream = {}
    /\ up = {}
    /\ call = [r \in Reservation |-> "none"]
    /\ step = [w \in Worker |-> "idle"]
    /\ job = [w \in Worker |-> None]
    /\ site = [w \in Worker |-> None]
    /\ counted = [r \in Reservation |-> 0]

-----------------------------------------------------------------------------
\* UUIDs are never drawn twice: one may be used only when no trace of it is left.

InUse(r) ==
    \/ task[r.key] = r
    \/ r \in stream
    \/ call[r] # "none"
    \/ \E w \in Worker : job[w] = r

FreshReplica(x) ==
    /\ x \notin up \cup keepalive
    /\ \A r \in Reservation : r.owner = x => ~InUse(r)
    /\ \A w \in Worker : site[w] # x

-----------------------------------------------------------------------------
\* Replicas.

\* New sets the keepalive key before the consumers and schedulers start.
Start(x) ==
    /\ FreshReplica(x)
    /\ up' = up \cup {x}
    /\ keepalive' = keepalive \cup {x}
    /\ UNCHANGED <<task, executed, stream, call, workerVars, counted>>

\* The process ends without cleaning up: its calls and handlers are gone, what
\* is in Redis stays.
Crash(x) ==
    /\ x \in up
    /\ up' = up \ {x}
    /\ call' = [r \in Reservation |-> IF r.owner = x THEN "none" ELSE call[r]]
    /\ step' = [w \in Worker |-> IF site[w] = x THEN "idle" ELSE step[w]]
    /\ job' = [w \in Worker |-> IF site[w] = x THEN None ELSE job[w]]
    /\ site' = [w \in Worker |-> IF site[w] = x THEN None ELSE site[w]]
    /\ UNCHANGED <<redisVars, counted>>

\* setKeepaliveWithRetry, once a second.
Refresh(x) ==
    /\ x \in up
    /\ keepalive' = keepalive \cup {x}
    /\ UNCHANGED <<task, executed, stream, up, call, workerVars, counted>>

\* Ten seconds without a refresh.
Expire(x) ==
    /\ x \in keepalive
    /\ x \in up => Lapses
    /\ keepalive' = keepalive \ {x}
    /\ UNCHANGED <<task, executed, stream, up, call, workerVars, counted>>

-----------------------------------------------------------------------------
\* ScheduleTask, on the replica r.owner for the key r.key.

Schedule(r) ==
    /\ r.owner \in up
    /\ ~InUse(r)
    /\ call' = [call EXCEPT ![r] = "reserving"]
    /\ counted' = [counted EXCEPT ![r] = 0]
    /\ UNCHANGED <<redisVars, up, workerVars>>

Reserved == {k \in Key : task[k] # None}

\* Mutant: a reservation is taken over without looking at the keepalive.
GrantsAnyTakeover(k) ==
    task[k] = None => Cardinality(Reserved) < Capacity

\* Mutant: the limit is compared with > instead of >=.
GrantsOneMore(k) ==
    IF task[k] = None THEN Cardinality(Reserved) <= Capacity
                      ELSE task[k].owner \notin keepalive

\* Mutant: the limit applies to takeovers too.
GrantsLimitFirst(k) ==
    /\ Cardinality(Reserved) < Capacity
    /\ task[k] # None => task[k].owner \notin keepalive

\* The script of QueueTaskLimited returns 1: the key is free and the limit not
\* reached, or its publisher's keepalive is gone.
Grants(k) ==
    IF task[k] = None THEN Cardinality(Reserved) < Capacity
                      ELSE task[k].owner \notin keepalive

\* Mutant: the value stored is the controller's UUID alone.
QueueTaskLimitedBareUUID(r) ==
    /\ call[r] = "reserving"
    /\ IF Grants(r.key)
       THEN /\ task' = [task EXCEPT ![r.key] = r.owner]
            /\ call' = [call EXCEPT ![r] = "reserved"]
       ELSE /\ call' = [call EXCEPT ![r] = "none"]
            /\ UNCHANGED task
    /\ UNCHANGED <<keepalive, executed, stream, up, workerVars, counted>>

QueueTaskLimited(r) ==
    /\ call[r] = "reserving"
    /\ IF Grants(r.key)
       THEN /\ task' = [task EXCEPT ![r.key] = r]
            /\ call' = [call EXCEPT ![r] = "reserved"]
       ELSE /\ call' = [call EXCEPT ![r] = "none"]
            /\ UNCHANGED task
    /\ UNCHANGED <<keepalive, executed, stream, up, workerVars, counted>>

\* The client reports an error, or repeats the script after a lost reply and is
\* told 0 because the reservation is its own: ScheduleTask returns either way.
QueueTaskLimitedFails(r) ==
    /\ Fails
    /\ call[r] = "reserving"
    /\ call' = [call EXCEPT ![r] = "none"]
    /\ \/ UNCHANGED task
       \/ Grants(r.key) /\ task' = [task EXCEPT ![r.key] = r]
    /\ UNCHANGED <<keepalive, executed, stream, up, workerVars, counted>>

\* Queue.AddJob, with the reservation as the job's last argument.
Publish(r) ==
    /\ call[r] = "reserved"
    /\ stream' = stream \cup {r}
    /\ call' = [call EXCEPT ![r] = "none"]
    /\ UNCHANGED <<task, keepalive, executed, up, workerVars, counted>>

\* The context is cancelled or AddJob returns an error; the job may be in the
\* stream all the same.
PublishFails(r) ==
    /\ call[r] = "reserved"
    /\ call' = [call EXCEPT ![r] = "rollback"]
    /\ stream' \in {stream} \cup (IF Fails THEN {stream \cup {r}} ELSE {})
    /\ UNCHANGED <<task, keepalive, executed, up, workerVars, counted>>

\* rollbackTaskReservation: the script of CancelTask; an error is only logged.
CancelTask(r) ==
    /\ call[r] = "rollback"
    /\ call' = [call EXCEPT ![r] = "none"]
    /\ \/ task' = IF task[r.key] = r THEN [task EXCEPT ![r.key] = None] ELSE task
       \/ Fails /\ UNCHANGED task
    /\ UNCHANGED <<keepalive, executed, stream, up, workerVars, counted>>

-----------------------------------------------------------------------------
\* Workers.

\* A job is delivered to a worker of some replica.
Deliver(w, x, r) ==
    /\ step[w] = "idle"
    /\ x \in up
    /\ r \in stream
    /\ (\E v \in Worker : job[v] = r) => Redelivers
    /\ step' = [step EXCEPT ![w] = "checking"]
    /\ job' = [job EXCEPT ![w] = r]
    /\ site' = [site EXCEPT ![w] = x]
    /\ UNCHANGED <<redisVars, up, call, counted>>

\* The worker is done with its job.
Leave(w) ==
    /\ step' = [step EXCEPT ![w] = "idle"]
    /\ job' = [job EXCEPT ![w] = None]
    /\ site' = [site EXCEPT ![w] = None]

\* ownedTaskHandler.HandleJob runs the handler only while the reservation in
\* Redis is the one in the job.
EnterHandler(w) ==
    /\ step[w] = "checking"
    /\ task[job[w].key] = job[w]
    /\ step' = [step EXCEPT ![w] = "handling"]
    /\ UNCHANGED <<redisVars, up, call, job, site, counted>>

\* Otherwise it returns nil and the job is acknowledged.
SkipJob(w) ==
    /\ step[w] = "checking"
    /\ task[job[w].key] # job[w]
    /\ stream' = stream \ {job[w]}
    /\ Leave(w)
    /\ UNCHANGED <<task, keepalive, executed, up, call, counted>>

\* The GET fails and HandleJob returns the error: the queue keeps the job for a
\* retry, or has retried it as often as it may and drops it.
CheckFails(w) ==
    /\ Fails
    /\ step[w] = "checking"
    /\ stream' \in {stream, stream \ {job[w]}}
    /\ Leave(w)
    /\ UNCHANGED <<task, keepalive, executed, up, call, counted>>

\* Mutant: any reservation of the key is removed and counted.
DequeueTaskOfAnyone(w) ==
    /\ step[w] = "handling"
    /\ task' = [task EXCEPT ![job[w].key] = None]
    /\ executed' = (executed + 1) % CounterModulus
    /\ counted' = [counted EXCEPT ![job[w]] = @ + 1]
    /\ step' = [step EXCEPT ![w] = "settling"]
    /\ UNCHANGED <<keepalive, stream, up, call, job, site>>

\* The deferred dequeueTask: the script of DequeueTask.
DequeueTask(w) ==
    /\ step[w] = "handling"
    /\ IF task[job[w].key] = job[w]
       THEN /\ task' = [task EXCEPT ![job[w].key] = None]
            /\ executed' = (executed + 1) % CounterModulus
            /\ counted' = [counted EXCEPT ![job[w]] = @ + 1]
       ELSE UNCHANGED <<task, executed, counted>>
    /\ step' = [step EXCEPT ![w] = "settling"]
    /\ UNCHANGED <<keepalive, stream, up, call, job, site>>

\* Redis does not answer within five seconds: the error is logged.
DequeueTaskFails(w) ==
    /\ Fails
    /\ step[w] = "handling"
    /\ step' = [step EXCEPT ![w] = "settling"]
    /\ UNCHANGED <<redisVars, up, call, job, site, counted>>

\* The handler returned nil: the queue acknowledges the job.
Acknowledge(w) ==
    /\ step[w] = "settling"
    /\ stream' = stream \ {job[w]}
    /\ Leave(w)
    /\ UNCHANGED <<task, keepalive, executed, up, call, counted>>

\* The handler returned an error: the queue keeps the job for a retry.
KeepForRetry(w) ==
    /\ step[w] = "settling"
    /\ Leave(w)
    /\ UNCHANGED <<redisVars, up, call, counted>>

-----------------------------------------------------------------------------
CallStep(r) ==
    \/ QueueTaskLimited(r)
    \/ QueueTaskLimitedFails(r)
    \/ Publish(r)
    \/ PublishFails(r)
    \/ CancelTask(r)

WorkerStep(w) ==
    \/ EnterHandler(w)
    \/ SkipJob(w)
    \/ CheckFails(w)
    \/ DequeueTask(w)
    \/ DequeueTaskFails(w)
    \/ Acknowledge(w)
    \/ KeepForRetry(w)

Next ==
    \/ \E x \in Replica : Start(x) \/ Crash(x) \/ Refresh(x) \/ Expire(x)
    \/ \E r \in Reservation : Schedule(r) \/ CallStep(r)
    \/ \E w \in Worker : WorkerStep(w)
    \/ \E w \in Worker, x \in Replica, r \in Reservation : Deliver(w, x, r)

Spec == Init /\ [][Next]_vars

(***************************************************************************)
(* While a replica runs, its calls and handlers go on, its tickers keep    *)
(* calling ScheduleTask for every key, and the stream delivers every job   *)
(* to some running replica.  The keepalive of a dead replica expires.      *)
(* Nothing forces a replica to start or to crash.                          *)
(***************************************************************************)
Fairness ==
    /\ \A r \in Reservation :
        /\ WF_vars(CallStep(r))
        /\ SF_vars(\E w \in Worker, x \in Replica : Deliver(w, x, r))
    /\ \A w \in Worker : WF_vars(WorkerStep(w))
    /\ \A x \in Replica :
        /\ WF_vars(x \notin up /\ Expire(x))
        /\ \A k \in Key : SF_vars(\E n \in Nonce :
                                   Schedule([owner |-> x, key |-> k, nonce |-> n]))

FairSpec == Spec /\ Fairness

-----------------------------------------------------------------------------
\* Safety.

\* The reservations of key k whose publisher runs and is about to publish the
\* job, or whose job a worker is handling.
LiveJobs(k) ==
    {r \in Reservation :
        /\ r.key = k
        /\ r.owner \in up
        /\ call[r] = "reserved" \/ \E w \in Worker : step[w] = "handling" /\ job[w] = r}

\* README: "Reservations prevent concurrent scheduling of the same task".  As
\* long as running replicas refresh their keepalive in time, a key has no two
\* jobs of running publishers: the second handler of a key can only start after
\* the publisher of the first one's job has gone.
OneLiveJobPerKey == \A k \in Key : Cardinality(LiveJobs(k)) <= 1

\* "one reservation limit": never more task keys than maximum_jobs_queue_size,
\* whatever fails and whoever takes reservations over.
CapacityBound == Cardinality(Reserved) <= Capacity

\* A reservation adds at most one to tasksExecutedCount, although its job may be
\* delivered, handled and completed several times.
CountedOnce == \A r \in Reservation : counted[r] <= 1


-----------------------------------------------------------------------------
\* Liveness.

\* Every reservation ends, by completion, rollback or takeover, also when its
\* publisher or worker crashed at any point, if from some time on the same
\* replicas, at least one, stay up.
ReservationsEnd ==
    (\E X \in SUBSET Replica \ {{}} : <>[](up = X))
        => \A r \in Reservation : task[r.key] = r ~> task[r.key] # r
=============================================================================
