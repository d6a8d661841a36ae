--------------------------- MODULE LocalTaskQueue ---------------------------
(***************************************************************************)
(* The task queue of an exporter that runs without Redis: ScheduleTask and *)
(* the deferred dequeueTask of the task handlers (pkg/controller), the     *)
(* admission slots that bound outstanding jobs (pkg/controller/            *)
(* admission.go) and the reservations of the in-memory store (pkg/store/   *)
(* local.go).  The memqueue that holds published jobs is a library; of it  *)
(* the model says only that a published job is handed to a worker later,   *)
(* and, when the handler failed, up to MaxAttempts times.                  *)
(*                                                                         *)
(* Every step between two lock acquisitions or channel operations is an    *)
(* action of its own, so all interleavings of goroutines are present.      *)
(***************************************************************************)
EXTENDS Integers, FiniteSets

CONSTANTS Key,             \* task keys: (task type, unique ID)
          NoKey,           \* no key: the process is not in a call
          Caller,          \* goroutines that schedule: tickers and webhooks
          Worker,          \* memqueue workers; a handler may schedule too
          Capacity,        \* cap(admission.slots)
          MaxAttempts,     \* how often the queue runs a job that fails
          MaxHeld,         \* bound: equal jobs the queue holds at a time
          CounterModulus   \* 2^64 in the code: executedTasksCount is uint64

ASSUME KeyAssumption == NoKey \notin Key

ASSUME ProcAssumption == Caller \cap Worker = {} /\ IsFiniteSet(Caller \cup Worker)

ASSUME BoundAssumption ==
    /\ Capacity \in Nat \ {0}       \* newTaskAdmission raises it to 1
    /\ MaxAttempts \in Nat \ {0}
    /\ MaxHeld \in Nat \ {0}
    /\ CounterModulus \in Nat \ {0}

VARIABLES
    slots,        \* number of tokens in admission.slots
    accepted,     \* admission.accepted
    tasks,        \* the keys present in Local.tasks
    executed,     \* Local.executedTasksCount
    held,         \* held[j]: jobs j the memqueue holds, not yet with a worker
    closing,      \* the lifecycle context has been cancelled
    pc,           \* where each process is in ScheduleTask or dequeueTask
    target,       \* the key that call is about
    stage,        \* what each worker is doing
    job           \* the job each worker has taken

queueVars == <<slots, accepted, tasks, executed, held>>
vars == <<slots, accepted, tasks, executed, held, closing, pc, target, stage, job>>

Proc == Caller \cup Worker

Job == [key : Key, attempt : 1 .. MaxAttempts]
NoJob == [key |-> NoKey, attempt |-> 0]
FirstAttempt(k) == [key |-> k, attempt |-> 1]

(***************************************************************************)
(* "acquired"  holds a slot, has not reserved the key yet                  *)
(* "reserved"  QueueTask succeeded, admission.track not called yet         *)
(* "tracked"   about to publish the job                                    *)
(* "rollback"  publication failed, CancelTask not called yet               *)
(* "release"   about to call admission.release                             *)
(* "discard"   about to receive one token from admission.slots             *)
(***************************************************************************)
Label == {"idle", "acquired", "reserved", "tracked", "rollback", "release", "discard"}

TypeOK ==
    /\ slots \in 0 .. Capacity
    /\ accepted \in SUBSET Key
    /\ tasks \in SUBSET Key
    /\ executed \in 0 .. (CounterModulus - 1)
    /\ held \in [Job -> Nat]
    /\ closing \in BOOLEAN
    /\ pc \in [Proc -> Label]
    /\ target \in [Proc -> Key \cup {NoKey}]
    /\ stage \in [Worker -> {"waiting", "handling", "returned"}]
    /\ job \in [Worker -> Job \cup {NoJob}]

Init ==
    /\ slots = 0
    /\ accepted = {}
    /\ tasks = {}
    /\ executed = 0
    /\ held = [j \in Job |-> 0]
    /\ closing = FALSE
    /\ pc = [p \in Proc |-> "idle"]
    /\ target = [p \in Proc |-> NoKey]
    /\ stage = [w \in Worker |-> "waiting"]
    /\ job = [w \in Worker |-> NoJob]

-----------------------------------------------------------------------------
\* Control flow of a call.

Goto(p, label) ==
    /\ pc' = [pc EXCEPT ![p] = label]
    /\ UNCHANGED target

Return(p) ==
    /\ pc' = [pc EXCEPT ![p] = "idle"]
    /\ target' = [target EXCEPT ![p] = NoKey]

\* ctx.Err() == nil.  A handler's context comes from the queue library, so it
\* may or may not have been cancelled once the exporter is closing.
ContextAlive(p) == ~closing \/ p \in Worker

\* A process may call ScheduleTask: callers at any time, a worker from inside
\* the handler it is running.
MayCall(p) == pc[p] = "idle" /\ (p \in Worker => stage[p] = "handling")

-----------------------------------------------------------------------------
\* ScheduleTask.  A call that finds no free slot returns at once and changes
\* nothing, as does one for an unknown task type: neither needs an action.

\* Mutant: a slot is taken without looking at the channel's capacity.
AcquireBeyondCapacity(p, k) ==
    /\ MayCall(p)
    /\ slots <= Capacity
    /\ slots' = slots + 1
    /\ pc' = [pc EXCEPT ![p] = "acquired"]
    /\ target' = [target EXCEPT ![p] = k]
    /\ UNCHANGED <<accepted, tasks, executed, held, closing, stage, job>>

\* admission.acquire: the non-blocking send succeeds.
Acquire(p, k) ==
    /\ MayCall(p)
    /\ slots < Capacity
    /\ slots' = slots + 1
    /\ pc' = [pc EXCEPT ![p] = "acquired"]
    /\ target' = [target EXCEPT ![p] = k]
    /\ UNCHANGED <<accepted, tasks, executed, held, closing, stage, job>>

\* The first ctx.Err() check, before any reservation.
AbandonBeforeReserving(p) ==
    /\ pc[p] = "acquired"
    /\ closing
    /\ Goto(p, "discard")
    /\ UNCHANGED <<slots, accepted, tasks, executed, held, closing, stage, job>>

\* Mutant: a key that is already present is reserved again.
QueueTaskAgain(p) ==
    /\ pc[p] = "acquired"
    /\ ContextAlive(p)
    /\ Goto(p, "reserved")
    /\ tasks' = tasks \cup {target[p]}
    /\ UNCHANGED <<slots, accepted, executed, held, closing, stage, job>>

\* Mutant: the call for a key already queued returns without discarding its slot.
QueueTaskKeepsSlot(p) ==
    /\ pc[p] = "acquired"
    /\ ContextAlive(p)
    /\ IF target[p] \in tasks
       THEN Return(p) /\ UNCHANGED tasks
       ELSE Goto(p, "reserved") /\ tasks' = tasks \cup {target[p]}
    /\ UNCHANGED <<slots, accepted, executed, held, closing, stage, job>>

\* Local.QueueTask, under tasksMutex: FALSE when the key is present.
QueueTask(p) ==
    /\ pc[p] = "acquired"
    /\ ContextAlive(p)
    /\ IF target[p] \in tasks
       THEN Goto(p, "discard") /\ UNCHANGED tasks
       ELSE Goto(p, "reserved") /\ tasks' = tasks \cup {target[p]}
    /\ UNCHANGED <<slots, accepted, executed, held, closing, stage, job>>

\* admission.track, under admission.mu.
Track(p) ==
    /\ pc[p] = "reserved"
    /\ accepted' = accepted \cup {target[p]}
    /\ Goto(p, "tracked")
    /\ UNCHANGED <<slots, tasks, executed, held, closing, stage, job>>

\* Mutant: the slot bounds publication only, and is free again after it.
PublishFreesSlot(p) ==
    /\ pc[p] = "tracked"
    /\ ContextAlive(p)
    /\ LET new == FirstAttempt(target[p]) IN
         /\ held[new] < MaxHeld
         /\ held' = [held EXCEPT ![new] = @ + 1]
    /\ slots > 0
    /\ slots' = slots - 1
    /\ Return(p)
    /\ UNCHANGED <<accepted, tasks, executed, closing, stage, job>>

\* Queue.AddJob accepts the job.
Publish(p) ==
    /\ pc[p] = "tracked"
    /\ ContextAlive(p)
    /\ LET new == FirstAttempt(target[p]) IN
         /\ held[new] < MaxHeld
         /\ held' = [held EXCEPT ![new] = @ + 1]
    /\ Return(p)
    /\ UNCHANGED <<slots, accepted, tasks, executed, closing, stage, job>>

\* Mutant: the error of AddJob is only logged.
PublishFailsSilently(p) ==
    /\ pc[p] = "tracked"
    /\ Return(p)
    /\ UNCHANGED <<slots, accepted, tasks, executed, held, closing, stage, job>>

\* The second ctx.Err() check fails, or AddJob returns an error.
PublishFails(p) ==
    /\ pc[p] = "tracked"
    /\ Goto(p, "rollback")
    /\ UNCHANGED <<slots, accepted, tasks, executed, held, closing, stage, job>>

\* Mutant: the rollback removes the reservation and forgets the slot.
CancelTaskOnly(p) ==
    /\ pc[p] = "rollback"
    /\ tasks' = tasks \ {target[p]}
    /\ Return(p)
    /\ UNCHANGED <<slots, accepted, executed, held, closing, stage, job>>

\* Mutant: the rollback completes the task instead of cancelling it.
CancelTaskCounts(p) ==
    /\ pc[p] = "rollback"
    /\ tasks' = tasks \ {target[p]}
    /\ executed' = (executed + 1) % CounterModulus
    /\ Goto(p, "release")
    /\ UNCHANGED <<slots, accepted, held, closing, stage, job>>

\* Local.CancelTask, called by rollbackTaskReservation; the owner is ignored.
CancelTask(p) ==
    /\ pc[p] = "rollback"
    /\ tasks' = tasks \ {target[p]}
    /\ Goto(p, "release")
    /\ UNCHANGED <<slots, accepted, executed, held, closing, stage, job>>

\* Mutant: release discards a token even when the key is not accepted.
ReleaseAlways(p) ==
    /\ pc[p] = "release"
    /\ accepted' = accepted \ {target[p]}
    /\ Goto(p, "discard")
    /\ UNCHANGED <<slots, tasks, executed, held, closing, stage, job>>

\* admission.release up to the unlock of admission.mu.
Release(p) ==
    /\ pc[p] = "release"
    /\ IF target[p] \in accepted
       THEN accepted' = accepted \ {target[p]} /\ Goto(p, "discard")
       ELSE Return(p) /\ UNCHANGED accepted
    /\ UNCHANGED <<slots, tasks, executed, held, closing, stage, job>>

\* admission.discard: the receive blocks while the channel is empty.
Discard(p) ==
    /\ pc[p] = "discard"
    /\ slots > 0
    /\ slots' = slots - 1
    /\ Return(p)
    /\ UNCHANGED <<accepted, tasks, executed, held, closing, stage, job>>

-----------------------------------------------------------------------------
\* The queue's workers and the task handlers.

\* The queue hands a job to a waiting worker, in any order.
Take(w, j) ==
    /\ stage[w] = "waiting"
    /\ held[j] > 0
    /\ held' = [held EXCEPT ![j] = @ - 1]
    /\ stage' = [stage EXCEPT ![w] = "handling"]
    /\ job' = [job EXCEPT ![w] = j]
    /\ UNCHANGED <<slots, accepted, tasks, executed, closing, pc, target>>

\* The handler's body is over and its deferred dequeueTask calls
\* Local.DequeueTask, which ignores the owner and counts only a present key;
\* admission.release follows as the deferred call of dequeueTask.
DequeueTask(w) ==
    /\ stage[w] = "handling"
    /\ pc[w] = "idle"
    /\ LET k == job[w].key IN
         /\ tasks' = tasks \ {k}
         /\ executed' = IF k \in tasks THEN (executed + 1) % CounterModulus
                                       ELSE executed
         /\ target' = [target EXCEPT ![w] = k]
    /\ pc' = [pc EXCEPT ![w] = "release"]
    /\ stage' = [stage EXCEPT ![w] = "returned"]
    /\ UNCHANGED <<slots, accepted, held, closing, job>>

\* The handler has returned to the queue, which forgets the job.
Settle(w) ==
    /\ stage[w] = "returned"
    /\ pc[w] = "idle"
    /\ stage' = [stage EXCEPT ![w] = "waiting"]
    /\ job' = [job EXCEPT ![w] = NoJob]
    /\ UNCHANGED <<queueVars, closing, pc, target>>

\* The handler returned an error and the queue keeps the job for a retry.
Retry(w) ==
    /\ stage[w] = "returned"
    /\ pc[w] = "idle"
    /\ job[w].attempt < MaxAttempts
    /\ LET again == [job[w] EXCEPT !.attempt = @ + 1] IN
         /\ held[again] < MaxHeld
         /\ held' = [held EXCEPT ![again] = @ + 1]
    /\ stage' = [stage EXCEPT ![w] = "waiting"]
    /\ job' = [job EXCEPT ![w] = NoJob]
    /\ UNCHANGED <<slots, accepted, tasks, executed, closing, pc, target>>

\* backgroundTasks.stop cancels the lifecycle context.
Cancel ==
    /\ ~closing
    /\ closing' = TRUE
    /\ UNCHANGED <<queueVars, pc, target, stage, job>>

-----------------------------------------------------------------------------
CallStep(p) ==
    \/ AbandonBeforeReserving(p)
    \/ QueueTask(p)
    \/ Track(p)
    \/ Publish(p)
    \/ PublishFails(p)
    \/ CancelTask(p)
    \/ Release(p)
    \/ Discard(p)

QueueStep(w) ==
    \/ \E j \in Job : Take(w, j)
    \/ DequeueTask(w)
    \/ Settle(w)
    \/ Retry(w)

Next ==
    \/ \E p \in Proc, k \in Key : Acquire(p, k)
    \/ \E p \in Proc : CallStep(p)
    \/ \E w \in Worker : QueueStep(w)
    \/ Cancel

Spec == Init /\ [][Next]_vars

(***************************************************************************)
(* Goroutines are scheduled and no step of a call waits for anything but   *)
(* the channel, so each call goes on: weak fairness.  The queue is first   *)
(* in, first out, so no held job is passed over for ever.  A handler loops *)
(* over finite lists, so it calls ScheduleTask finitely often and returns: *)
(* strong fairness, because every such call disables the return for a      *)
(* while.                                                                  *)
(***************************************************************************)
Fairness ==
    /\ \A p \in Proc : WF_vars(CallStep(p))
    /\ \A j \in Job : SF_vars(\E w \in Worker : Take(w, j))
    /\ \A w \in Worker : SF_vars(DequeueTask(w)) /\ WF_vars(Settle(w) \/ Retry(w))

FairSpec == Spec /\ Fairness

-----------------------------------------------------------------------------
\* Safety.

\* Goroutines between reserving a key and handing its job to the queue.
Publishing(k) ==
    {p \in Proc : target[p] = k /\ pc[p] \in {"reserved", "tracked", "rollback"}}

\* Workers inside the handler of key k.
Handling(k) == {w \in Worker : stage[w] = "handling" /\ job[w].key = k}

\* When no job is retried, a key is in the store's task map exactly while one
\* job of it exists, whether being published, held by the queue or handled,
\* and there is never a second one: "prevents duplicate work".
ReservationExact ==
    \A k \in Key :
        Cardinality(Publishing(k)) + held[FirstAttempt(k)] + Cardinality(Handling(k))
            = IF k \in tasks THEN 1 ELSE 0

\* When no job is retried, every outstanding job, one being published
\* included, is covered by a slot of its own, in addition to the slots of the
\* calls that are about to reserve or to give back theirs.
SlotOwners == {p \in Proc : pc[p] \in {"acquired", "release", "discard"}}

OutstandingBounded == Cardinality(tasks) + Cardinality(SlotOwners) <= slots

\* admission.discard never finds the channel empty, however often a handler
\* is retried: the tokens cover the calls that will receive one and the
\* accepted keys, whose release will.
Debtors == {p \in Proc : pc[p] \in {"acquired", "reserved", "discard"}}

SlotsCoverDebts == Cardinality(Debtors) + Cardinality(accepted) <= slots

\* No call is under way and no job exists.
Quiet ==
    /\ \A p \in Proc : pc[p] = "idle"
    /\ \A w \in Worker : stage[w] = "waiting"
    /\ \A j \in Job : held[j] = 0

\* Whatever interleaving lost slots before, a queue at rest has nothing
\* reserved or accepted and still admits a job: not all slots can be lost.
QuietAdmits == Quiet => tasks = {} /\ accepted = {} /\ slots < Capacity

\* What taskAdmission is for: at rest no slot is taken.
QuietReturnsSlots == Quiet => slots = 0

-----------------------------------------------------------------------------
(***************************************************************************)
(* An inductive invariant that implies SlotsCoverDebts and QuietAdmits for *)
(* every number of attempts.  A slot is lost only by tracking a key that   *)
(* is accepted already, and then a debtor and an accepted key hold slots   *)
(* that are not lost: so less than Capacity slots are lost, ever.  And     *)
(* whatever is reserved or accepted has a call or a job that will undo it. *)
(***************************************************************************)
CallsHaveKeys == \A p \in Proc : pc[p] # "idle" => target[p] \in Key

WorkersHaveJobs == \A w \in Worker : stage[w] # "waiting" => job[w] \in Job

LostBelowCapacity ==
    slots < Cardinality(Debtors) + Cardinality(accepted) + Capacity

InCall(k, labels) == \E p \in Proc : target[p] = k /\ pc[p] \in labels

HasJob(k) ==
    \/ \E j \in Job : j.key = k /\ held[j] > 0
    \/ \E w \in Worker : stage[w] = "handling" /\ job[w].key = k

AcceptedOwned ==
    \A k \in accepted : InCall(k, {"tracked", "rollback", "release"}) \/ HasJob(k)

TasksOwned ==
    \A k \in tasks : InCall(k, {"reserved", "tracked", "rollback"}) \/ HasJob(k)

TypeInv == TypeOK /\ CallsHaveKeys /\ WorkersHaveJobs

SlotInv == IsFiniteSet(accepted) /\ SlotsCoverDebts /\ LostBelowCapacity

IndInv == TypeInv /\ SlotInv /\ AcceptedOwned /\ TasksOwned

-----------------------------------------------------------------------------
\* Liveness.

\* Every reservation ends: its job is rolled back or runs, so that the key can
\* be scheduled again.
ReservationsEnd == \A k \in Key : k \in tasks ~> k \notin tasks

\* ScheduleTask and dequeueTask always return to their caller.
CallsReturn == \A p \in Proc : pc[p] # "idle" ~> pc[p] = "idle"

-----------------------------------------------------------------------------
\* Without retries the queue implements TaskReservation.

jobPhase ==
    [k \in Key |-> IF k \notin tasks THEN "free"
                   ELSE IF Handling(k) # {} THEN "running" ELSE "reserved"]

Abstract == INSTANCE TaskReservation WITH phase <- jobPhase

\* Every reservation is withdrawn uncounted, or its job runs once, alone, and is
\* counted once; and with fair goroutines and a fair queue it does not stay.
RefinesFairly == Abstract!Spec
=============================================================================
