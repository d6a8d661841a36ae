------------------------ MODULE LocalTaskQueue_proofs ------------------------
(***************************************************************************)
(* Theorems about LocalTaskQueue for every set of keys, callers and        *)
(* workers and every capacity.  The first sections hold for any number of  *)
(* attempts; that a key has one job, a slot of its own, and that the queue *)
(* is a TaskReservation, holds of jobs that run once.                      *)
(***************************************************************************)
EXTENDS LocalTaskQueue, FiniteSetTheorems, TLAPS

-----------------------------------------------------------------------------
\* Type correctness.

\* The types hold at first.
LEMMA InitType == Init => TypeInv
<1> SUFFICES ASSUME Init PROVE TypeInv
  OBVIOUS
<1>1. slots \in 0 .. Capacity /\ executed \in 0 .. (CounterModulus - 1)
  BY BoundAssumption DEF Init
<1>2. accepted \in SUBSET Key /\ tasks \in SUBSET Key /\ closing \in BOOLEAN
  BY DEF Init
<1>3. held \in [Job -> Nat]
  BY DEF Init
<1>4. pc \in [Proc -> Label] /\ target \in [Proc -> Key \cup {NoKey}]
  BY DEF Init, Label
<1>5. /\ stage \in [Worker -> {"waiting", "handling", "returned"}]
      /\ job \in [Worker -> Job \cup {NoJob}]
  BY DEF Init
<1>6. CallsHaveKeys /\ WorkersHaveJobs
  BY DEF Init, CallsHaveKeys, WorkersHaveJobs
<1>7. QED
  BY <1>1, <1>2, <1>3, <1>4, <1>5, <1>6 DEF TypeInv, TypeOK

\* The first attempt at a key is a job.
LEMMA FirstAttemptType == \A k \in Key : FirstAttempt(k) \in Job
BY BoundAssumption DEF FirstAttempt, Job

\* A step of a call moves its process to a label and keeps or forgets its key.
LEMMA GotoType ==
    ASSUME TypeInv, NEW p \in Proc, NEW l \in Label, Goto(p, l), pc[p] # "idle"
    PROVE  /\ pc' \in [Proc -> Label]
           /\ target' \in [Proc -> Key \cup {NoKey}]
           /\ CallsHaveKeys'
BY DEF TypeInv, TypeOK, CallsHaveKeys, Goto

\* Returning from a call keeps the types of what the calls hold.
LEMMA ReturnType ==
    ASSUME TypeInv, NEW p \in Proc, Return(p)
    PROVE  /\ pc' \in [Proc -> Label]
           /\ target' \in [Proc -> Key \cup {NoKey}]
           /\ CallsHaveKeys'
BY DEF TypeInv, TypeOK, CallsHaveKeys, Return, Label

\* Acquiring a slot keeps the types.
LEMMA AcquireType ==
    ASSUME TypeInv, NEW p \in Proc, NEW k \in Key, Acquire(p, k)
    PROVE  TypeInv'
<1>1. slots' \in 0 .. Capacity
  BY BoundAssumption DEF TypeInv, TypeOK, Acquire
<1>2. pc' \in [Proc -> Label] /\ target' \in [Proc -> Key \cup {NoKey}]
  BY DEF TypeInv, TypeOK, Acquire, Label
<1>3. CallsHaveKeys'
  BY DEF TypeInv, TypeOK, Acquire, CallsHaveKeys
<1>4. QED
  BY <1>1, <1>2, <1>3 DEF TypeInv, TypeOK, Acquire, WorkersHaveJobs

\* Every step of a call keeps the types.
LEMMA CallType ==
    ASSUME TypeInv, NEW p \in Proc, CallStep(p)
    PROVE  TypeInv'
<1> USE DEF TypeInv, TypeOK, WorkersHaveJobs
<1>a. {"tracked", "rollback", "release", "discard", "reserved"} \subseteq Label
  BY DEF Label
<1>k. pc[p] # "idle" => target[p] \in Key
  BY DEF CallsHaveKeys
<1>1. CASE AbandonBeforeReserving(p)
  BY <1>1, <1>a, GotoType DEF AbandonBeforeReserving
<1>2. CASE QueueTask(p)
  BY <1>2, <1>a, <1>k, GotoType DEF QueueTask
<1>3. CASE Track(p)
  BY <1>3, <1>a, <1>k, GotoType DEF Track
<1>4. CASE Publish(p)
  <2>1. FirstAttempt(target[p]) \in Job
    BY <1>4, <1>k, FirstAttemptType DEF Publish
  <2>2. held' \in [Job -> Nat]
    BY <1>4, <2>1 DEF Publish
  <2>3. QED
    BY <1>4, <2>2, ReturnType DEF Publish
<1>5. CASE PublishFails(p)
  BY <1>5, <1>a, GotoType DEF PublishFails
<1>6. CASE CancelTask(p)
  BY <1>6, <1>a, GotoType DEF CancelTask
<1>7. CASE Release(p)
  BY <1>7, <1>a, GotoType, ReturnType DEF Release
<1>8. CASE Discard(p)
  <2>1. slots' \in 0 .. Capacity
    BY <1>8, BoundAssumption DEF Discard
  <2>2. QED
    BY <1>8, <2>1, ReturnType DEF Discard
<1>9. QED
  BY <1>1, <1>2, <1>3, <1>4, <1>5, <1>6, <1>7, <1>8 DEF CallStep

\* What a worker puts back into the queue is a job.
LEMMA QueueType ==
    ASSUME TypeInv, NEW w \in Worker, QueueStep(w)
    PROVE  TypeInv'
<1> USE DEF TypeInv, TypeOK
<1>p. w \in Proc
  BY DEF Proc
<1>1. ASSUME NEW j \in Job, Take(w, j)
      PROVE  TypeInv'
  <2>1. held' \in [Job -> Nat]
    BY <1>1 DEF Take
  <2>2. /\ stage' \in [Worker -> {"waiting", "handling", "returned"}]
        /\ job' \in [Worker -> Job \cup {NoJob}]
    BY <1>1 DEF Take
  <2>3. WorkersHaveJobs' /\ CallsHaveKeys'
    BY <1>1 DEF Take, WorkersHaveJobs, CallsHaveKeys
  <2>4. QED
    BY <1>1, <2>1, <2>2, <2>3 DEF Take
<1>2. CASE DequeueTask(w)
  <2>k. job[w] \in Job /\ job[w].key \in Key
    BY <1>2 DEF DequeueTask, WorkersHaveJobs, Job
  <2>1. executed' \in 0 .. (CounterModulus - 1)
    BY <1>2, BoundAssumption DEF DequeueTask
  <2>2. pc' \in [Proc -> Label] /\ target' \in [Proc -> Key \cup {NoKey}]
    BY <1>2, <1>p, <2>k DEF DequeueTask, Label
  <2>3. CallsHaveKeys'
    BY <1>2, <1>p, <2>k DEF DequeueTask, CallsHaveKeys
  <2>4. WorkersHaveJobs' /\ stage' \in [Worker -> {"waiting", "handling", "returned"}]
    BY <1>2, <2>k DEF DequeueTask, WorkersHaveJobs
  <2>5. QED
    BY <1>2, <2>1, <2>2, <2>3, <2>4 DEF DequeueTask
<1>3. CASE Settle(w)
  <2>1. /\ stage' \in [Worker -> {"waiting", "handling", "returned"}]
        /\ job' \in [Worker -> Job \cup {NoJob}]
    BY <1>3 DEF Settle
  <2>2. WorkersHaveJobs' /\ CallsHaveKeys'
    BY <1>3 DEF Settle, WorkersHaveJobs, CallsHaveKeys
  <2>3. QED
    BY <1>3, <2>1, <2>2 DEF Settle, queueVars
<1>4. CASE Retry(w)
  <2> DEFINE again == [job[w] EXCEPT !.attempt = @ + 1]
  <2>1. job[w] \in Job /\ job[w].attempt < MaxAttempts
    BY <1>4 DEF Retry, WorkersHaveJobs
  <2>2. again \in Job
    BY <2>1, BoundAssumption DEF Job
  <2>3. held' \in [Job -> Nat]
    BY <1>4, <2>2 DEF Retry
  <2>4. /\ stage' \in [Worker -> {"waiting", "handling", "returned"}]
        /\ job' \in [Worker -> Job \cup {NoJob}]
    BY <1>4 DEF Retry
  <2>5. WorkersHaveJobs' /\ CallsHaveKeys'
    BY <1>4 DEF Retry, WorkersHaveJobs, CallsHaveKeys
  <2>6. QED
    BY <1>4, <2>3, <2>4, <2>5 DEF Retry
<1>5. QED
  BY <1>1, <1>2, <1>3, <1>4 DEF QueueStep

\* Every step keeps the types.
LEMMA NextType == TypeInv /\ [Next]_vars => TypeInv'
<1> SUFFICES ASSUME TypeInv, [Next]_vars PROVE TypeInv'
  OBVIOUS
<1>1. CASE Cancel
  BY <1>1 DEF Cancel, queueVars, TypeInv, TypeOK, CallsHaveKeys, WorkersHaveJobs
<1>2. CASE UNCHANGED vars
  BY <1>2 DEF vars, TypeInv, TypeOK, CallsHaveKeys, WorkersHaveJobs
<1>3. QED
  BY <1>1, <1>2, AcquireType, CallType, QueueType DEF Next

\* Every variable keeps its type: the slots stay between 0 and the capacity and
\* the executed-tasks counter within its width.
THEOREM TypeCorrect == Spec => []TypeOK
<1>1. TypeInv => TypeOK
  BY DEF TypeInv
<1>2. QED
  BY <1>1, InitType, NextType, PTL DEF Spec

-----------------------------------------------------------------------------
\* Counting the debtors.  A step moves one process, so it adds one debtor,
\* removes one, or leaves the set as it is.

DebtLabel == {"acquired", "reserved", "discard"}

\* The calls that owe a slot are finitely many.
LEMMA DebtorsFinite == IsFiniteSet(Debtors) /\ Cardinality(Debtors) \in Nat
<1>1. IsFiniteSet(Proc)
  BY ProcAssumption DEF Proc
<1>2. Debtors \subseteq Proc
  BY DEF Debtors
<1>3. QED
  BY <1>1, <1>2, FS_Subset, FS_CardinalityType

\* A call that comes to owe a slot is one debtor more.
LEMMA DebtorJoins ==
    ASSUME TypeInv, NEW p \in Proc, pc[p] \notin DebtLabel,
           NEW l \in DebtLabel, pc' = [pc EXCEPT ![p] = l]
    PROVE  Cardinality(Debtors') = Cardinality(Debtors) + 1
<1>1. Debtors' = Debtors \cup {p} /\ p \notin Debtors
  BY DEF Debtors, DebtLabel, TypeInv, TypeOK
<1>2. QED
  BY <1>1, DebtorsFinite, FS_AddElement

\* A call that has paid is one debtor less.
LEMMA DebtorLeaves ==
    ASSUME TypeInv, NEW p \in Proc, pc[p] \in DebtLabel,
           NEW l, l \notin DebtLabel, pc' = [pc EXCEPT ![p] = l]
    PROVE  Cardinality(Debtors') = Cardinality(Debtors) - 1
<1>1. Debtors' = Debtors \ {p} /\ p \in Debtors
  BY DEF Debtors, DebtLabel, TypeInv, TypeOK
<1>2. QED
  BY <1>1, DebtorsFinite, FS_RemoveElement

\* A call that owes as before changes no debt.
LEMMA DebtorStays ==
    ASSUME TypeInv, NEW p \in Proc, NEW l,
           pc[p] \in DebtLabel <=> l \in DebtLabel, pc' = [pc EXCEPT ![p] = l]
    PROVE  Debtors' = Debtors
BY DEF Debtors, DebtLabel, TypeInv, TypeOK

-----------------------------------------------------------------------------
\* The slots pay what will be received from the channel, and less than Capacity
\* slots are held by nobody.

\* The tokens cover the debts at first.
LEMMA InitSlots == Init => SlotInv
<1> SUFFICES ASSUME Init PROVE SlotInv
  OBVIOUS
<1>1. Debtors = {} /\ accepted = {} /\ slots = 0
  BY DEF Init, Debtors
<1>2. QED
  BY <1>1, FS_EmptySet, BoundAssumption DEF SlotInv, SlotsCoverDebts, LostBelowCapacity

\* Acquiring adds a token and a debt.
LEMMA AcquireSlots ==
    ASSUME TypeInv, SlotInv, NEW p \in Proc, NEW k \in Key, Acquire(p, k)
    PROVE  SlotInv'
<1>1. pc[p] \notin DebtLabel /\ "acquired" \in DebtLabel
  BY DEF Acquire, MayCall, DebtLabel
<1>2. Cardinality(Debtors') = Cardinality(Debtors) + 1
  BY <1>1, DebtorJoins DEF Acquire
<1>3. /\ accepted' = accepted
      /\ slots' = slots + 1
  BY DEF Acquire
<1>4. QED
  BY <1>2, <1>3, DebtorsFinite, FS_CardinalityType, BoundAssumption
     DEF SlotInv, SlotsCoverDebts, LostBelowCapacity, TypeInv, TypeOK

\* Tracking turns a debtor into an accepted key, or loses its slot when the key
\* is accepted already; then two slots are certainly not lost.
LEMMA TrackSlots ==
    ASSUME TypeInv, SlotInv, NEW p \in Proc, Track(p)
    PROVE  SlotInv'
<1>1. pc[p] \in DebtLabel /\ "tracked" \notin DebtLabel
  BY DEF Track, DebtLabel
<1>2. Cardinality(Debtors') = Cardinality(Debtors) - 1
  BY <1>1, DebtorLeaves DEF Track, Goto
<1>3. Cardinality(Debtors') \in Nat /\ Cardinality(Debtors) \in Nat
  <2>1. p \in Debtors
    BY <1>1 DEF Debtors, DebtLabel
  <2>2. Cardinality(Debtors) # 0
    BY <2>1, DebtorsFinite, FS_EmptySet
  <2>3. QED
    BY <1>2, <2>2, DebtorsFinite
<1>4. IsFiniteSet(accepted) /\ Cardinality(accepted) \in Nat
  BY FS_CardinalityType DEF SlotInv
<1>5. accepted' = accepted \cup {target[p]} /\ slots' = slots /\ slots \in 0 .. Capacity
  BY DEF Track, TypeInv, TypeOK
<1>6. CASE target[p] \notin accepted
  <2>1. IsFiniteSet(accepted') /\ Cardinality(accepted') = Cardinality(accepted) + 1
    BY <1>4, <1>5, <1>6, FS_AddElement
  <2>2. QED
    BY <1>2, <1>3, <1>4, <1>5, <2>1, BoundAssumption
       DEF SlotInv, SlotsCoverDebts, LostBelowCapacity
<1>7. CASE target[p] \in accepted
  <2>1. accepted' = accepted
    BY <1>5, <1>7
  <2>2. Cardinality(accepted) # 0
    BY <1>4, <1>7, FS_EmptySet
  <2>3. Cardinality(accepted') = Cardinality(accepted) /\ IsFiniteSet(accepted')
    BY <2>1, <1>4
  <2>4. Cardinality(Debtors') + Cardinality(accepted') <= slots'
    BY <1>2, <1>3, <1>4, <1>5, <2>3 DEF SlotInv, SlotsCoverDebts
  <2>5. slots' < Cardinality(Debtors') + Cardinality(accepted') + Capacity
    BY <1>3, <1>4, <1>5, <2>2, <2>3, BoundAssumption
  <2>6. QED
    BY <2>3, <2>4, <2>5 DEF SlotInv, SlotsCoverDebts, LostBelowCapacity
<1>8. QED
  BY <1>6, <1>7

\* Releasing an accepted key makes its slot a debt of the call; another key changes
\* nothing.
LEMMA ReleaseSlots ==
    ASSUME TypeInv, SlotInv, NEW p \in Proc, Release(p)
    PROVE  SlotInv'
<1>1. pc[p] \notin DebtLabel /\ "discard" \in DebtLabel /\ "idle" \notin DebtLabel
  BY DEF Release, DebtLabel
<1>2. IsFiniteSet(accepted) /\ Cardinality(accepted) \in Nat
  BY FS_CardinalityType DEF SlotInv
<1>3. slots' = slots /\ slots \in 0 .. Capacity
  BY DEF Release, TypeInv, TypeOK
<1>4. CASE target[p] \in accepted
  <2>1. Cardinality(Debtors') = Cardinality(Debtors) + 1
    BY <1>1, <1>4, DebtorJoins DEF Release, Goto
  <2>2. IsFiniteSet(accepted') /\ Cardinality(accepted') = Cardinality(accepted) - 1
    BY <1>2, <1>4, FS_RemoveElement DEF Release
  <2>3. QED
    BY <1>2, <1>3, <2>1, <2>2, DebtorsFinite, BoundAssumption
       DEF SlotInv, SlotsCoverDebts, LostBelowCapacity
<1>5. CASE target[p] \notin accepted
  <2>1. Debtors' = Debtors
    BY <1>1, <1>5, DebtorStays DEF Release, Return
  <2>2. QED
    BY <1>3, <1>5, <2>1 DEF Release, SlotInv, SlotsCoverDebts, LostBelowCapacity
<1>6. QED
  BY <1>4, <1>5

\* Discarding takes a token and a debt.
LEMMA DiscardSlots ==
    ASSUME TypeInv, SlotInv, NEW p \in Proc, Discard(p)
    PROVE  SlotInv'
<1>1. pc[p] \in DebtLabel /\ "idle" \notin DebtLabel
  BY DEF Discard, DebtLabel
<1>2. Cardinality(Debtors') = Cardinality(Debtors) - 1
  BY <1>1, DebtorLeaves DEF Discard, Return
<1>3. slots' = slots - 1 /\ accepted' = accepted /\ slots \in 0 .. Capacity
  BY DEF Discard, TypeInv, TypeOK
<1>4. QED
  BY <1>2, <1>3, DebtorsFinite, FS_CardinalityType, BoundAssumption
     DEF SlotInv, SlotsCoverDebts, LostBelowCapacity

\* The other steps move no process across the border of Debtors.
LEMMA OtherSlots ==
    ASSUME SlotInv, UNCHANGED <<slots, accepted>>, Debtors' = Debtors
    PROVE  SlotInv'
BY DEF SlotInv, SlotsCoverDebts, LostBelowCapacity

\* Every step of a call keeps the debts covered.
LEMMA CallSlots ==
    ASSUME TypeInv, SlotInv, NEW p \in Proc, CallStep(p)
    PROVE  SlotInv'
<1>1. CASE AbandonBeforeReserving(p)
  BY <1>1, DebtorStays, OtherSlots DEF AbandonBeforeReserving, Goto, DebtLabel
<1>2. CASE QueueTask(p)
  BY <1>2, DebtorStays, OtherSlots DEF QueueTask, Goto, DebtLabel
<1>3. CASE Publish(p)
  BY <1>3, DebtorStays, OtherSlots DEF Publish, Return, DebtLabel
<1>4. CASE PublishFails(p)
  BY <1>4, DebtorStays, OtherSlots DEF PublishFails, Goto, DebtLabel
<1>5. CASE CancelTask(p)
  BY <1>5, DebtorStays, OtherSlots DEF CancelTask, Goto, DebtLabel
<1>6. QED
  BY <1>1, <1>2, <1>3, <1>4, <1>5, TrackSlots, ReleaseSlots, DiscardSlots DEF CallStep

\* So does every step of the queue and its workers.
LEMMA QueueSlots ==
    ASSUME TypeInv, SlotInv, NEW w \in Worker, QueueStep(w)
    PROVE  SlotInv'
<1>1. CASE DequeueTask(w)
  <2>1. w \in Proc
    BY DEF Proc
  <2>2. Debtors' = Debtors
    BY <1>1, <2>1, DebtorStays DEF DequeueTask, DebtLabel
  <2>3. QED
    BY <1>1, <2>2, OtherSlots DEF DequeueTask
<1>2. CASE UNCHANGED <<slots, accepted, pc>>
  BY <1>2, OtherSlots DEF Debtors
<1>3. QED
  BY <1>1, <1>2 DEF QueueStep, Take, Settle, Retry, queueVars

\* So does every step.
LEMMA NextSlots == TypeInv /\ SlotInv /\ [Next]_vars => SlotInv'
<1> SUFFICES ASSUME TypeInv, SlotInv, [Next]_vars PROVE SlotInv'
  OBVIOUS
<1>1. CASE Cancel \/ UNCHANGED vars
  BY <1>1, OtherSlots DEF Cancel, queueVars, vars, Debtors
<1>2. QED
  BY <1>1, AcquireSlots, CallSlots, QueueSlots DEF Next

\* The receive in admission.discard never finds the channel empty: the tokens
\* cover every call that will receive one and every accepted key, for any
\* number of attempts of a job.
THEOREM DiscardNeverBlocks == Spec => []SlotsCoverDebts
<1>1. SlotInv => SlotsCoverDebts
  BY DEF SlotInv
<1>2. QED
  BY <1>1, InitType, NextType, InitSlots, NextSlots, PTL DEF Spec

-----------------------------------------------------------------------------
\* Ownership: what is accepted or reserved has a call or a job that undoes it.

\* A process that keeps its key moves from one owning label to another.
LEMMA CallKept ==
    ASSUME TypeInv, NEW p \in Proc, NEW l \in Label, Goto(p, l),
           NEW k \in Key, NEW S, InCall(k, S), l \in S \/ pc[p] \notin S
    PROVE  InCall(k, S)'
BY DEF InCall, Goto, TypeInv, TypeOK

\* A process that forgets its key owned nothing of another key.
LEMMA CallKeptOnReturn ==
    ASSUME TypeInv, NEW p \in Proc, Return(p),
           NEW k \in Key, NEW S, InCall(k, S), pc[p] \notin S
    PROVE  InCall(k, S)'
BY DEF InCall, Return, TypeInv, TypeOK

\* A key keeps its job while the queue and its workers do nothing.
LEMMA JobKept ==
    ASSUME NEW k \in Key, HasJob(k), UNCHANGED <<held, stage, job>>
    PROVE  HasJob(k)'
BY DEF HasJob

\* After a step of a call every reserved or accepted key has a call or a job that will
\* undo it.
LEMMA CallOwned ==
    ASSUME TypeInv, AcceptedOwned, TasksOwned, NEW p \in Proc, CallStep(p)
    PROVE  AcceptedOwned' /\ TasksOwned'
<1> DEFINE A == {"tracked", "rollback", "release"}
           T == {"reserved", "tracked", "rollback"}
<1>t. accepted \subseteq Key /\ tasks \subseteq Key /\ A \subseteq Label /\ T \subseteq Label
  BY DEF TypeInv, TypeOK, Label
<1>l. "discard" \in Label /\ "release" \in Label
  BY DEF Label
<1>p. pc[p] # "idle" => target[p] \in Key
  BY DEF TypeInv, CallsHaveKeys
<1>1. CASE AbandonBeforeReserving(p)
  <2>1. pc[p] \notin A \cup T /\ Goto(p, "discard")
    BY <1>1 DEF AbandonBeforeReserving
  <2>2. QED
    BY <1>1, <1>t, <1>l, <2>1, CallKept, JobKept
       DEF AbandonBeforeReserving, AcceptedOwned, TasksOwned
<1>2. CASE QueueTask(p)
  <2>0. pc[p] \notin A \cup T /\ pc[p] # "idle"
    BY <1>2 DEF QueueTask
  <2>1. CASE target[p] \in tasks
    BY <1>2, <1>t, <1>l, <2>0, <2>1, CallKept, JobKept
       DEF QueueTask, AcceptedOwned, TasksOwned
  <2>2. CASE target[p] \notin tasks
    <3>1. Goto(p, "reserved") /\ tasks' = tasks \cup {target[p]}
      BY <1>2, <2>2 DEF QueueTask
    <3>2. \A k \in Key : k = target[p] => InCall(k, T)'
      BY <3>1 DEF InCall, Goto, TypeInv, TypeOK
    <3>3. \A k \in tasks : InCall(k, T)' \/ HasJob(k)'
      BY <1>2, <1>t, <2>0, <3>1, CallKept, JobKept DEF QueueTask, TasksOwned
    <3>4. \A k \in accepted' : InCall(k, A)' \/ HasJob(k)'
      BY <1>2, <1>t, <2>0, <3>1, CallKept, JobKept DEF QueueTask, AcceptedOwned
    <3>5. \A k \in tasks' : InCall(k, T)' \/ HasJob(k)'
      BY <1>p, <2>0, <3>1, <3>2, <3>3
    <3>6. QED
      BY <3>4, <3>5 DEF AcceptedOwned, TasksOwned
  <2>3. QED
    BY <2>1, <2>2
<1>3. CASE Track(p)
  <2>1. Goto(p, "tracked") /\ accepted' = accepted \cup {target[p]} /\ pc[p] \notin A
    BY <1>3 DEF Track
  <2>2. \A k \in Key : k = target[p] => InCall(k, A)'
    BY <2>1 DEF InCall, Goto, TypeInv, TypeOK
  <2>3. target[p] \in Key
    BY <1>3, <1>p DEF Track
  <2>4. \A k \in accepted : InCall(k, A)' \/ HasJob(k)'
    BY <1>3, <1>t, <2>1, CallKept, JobKept DEF Track, AcceptedOwned
  <2>5. \A k \in accepted' : InCall(k, A)' \/ HasJob(k)'
    BY <2>1, <2>2, <2>3, <2>4
  <2>6. \A k \in tasks' : InCall(k, T)' \/ HasJob(k)'
    BY <1>3, <1>t, <2>1, CallKept, JobKept DEF Track, TasksOwned
  <2>7. QED
    BY <2>5, <2>6 DEF AcceptedOwned, TasksOwned
<1>4. CASE Publish(p)
  <2> DEFINE new == FirstAttempt(target[p])
  <2>1. new \in Job /\ new.key = target[p]
    BY <1>4, <1>p, FirstAttemptType DEF Publish, FirstAttempt
  <2>2. Return(p) /\ held' = [held EXCEPT ![new] = @ + 1] /\ UNCHANGED <<stage, job>>
    BY <1>4 DEF Publish
  <2>3. \A k \in Key : k = target[p] => HasJob(k)'
    BY <2>1, <2>2 DEF HasJob, TypeInv, TypeOK
  <2>4. \A k \in Key : HasJob(k) => HasJob(k)'
    BY <2>1, <2>2 DEF HasJob, TypeInv, TypeOK
  <2>5. ASSUME NEW k \in Key, NEW S, InCall(k, S)
        PROVE  InCall(k, S)' \/ HasJob(k)'
    <3>1. CASE k = target[p]
      BY <2>3, <3>1
    <3>2. CASE k # target[p]
      BY <2>2, <2>5, <3>2 DEF InCall, Return, TypeInv, TypeOK
    <3>3. QED
      BY <3>1, <3>2
  <2>6. QED
    BY <1>4, <1>t, <2>4, <2>5 DEF Publish, AcceptedOwned, TasksOwned
<1>5. CASE PublishFails(p)
  BY <1>5, <1>t, CallKept, JobKept DEF PublishFails, AcceptedOwned, TasksOwned
<1>6. CASE CancelTask(p)
  <2>1. Goto(p, "release") /\ tasks' = tasks \ {target[p]}
    BY <1>6 DEF CancelTask
  <2>2. \A k \in accepted' : InCall(k, A)' \/ HasJob(k)'
    BY <1>6, <1>t, <2>1, CallKept, JobKept DEF CancelTask, AcceptedOwned
  <2>3. ASSUME NEW k \in Key, k # target[p], InCall(k, T)
        PROVE  InCall(k, T)'
    BY <2>1, <2>3 DEF InCall, Goto, TypeInv, TypeOK
  <2>4. \A k \in tasks' : InCall(k, T)' \/ HasJob(k)'
    BY <1>6, <1>t, <2>1, <2>3, JobKept DEF CancelTask, TasksOwned
  <2>5. QED
    BY <2>2, <2>4 DEF AcceptedOwned, TasksOwned
<1>7. CASE Release(p)
  <2>1. pc[p] \notin T /\ accepted' = accepted \ {target[p]}
        /\ UNCHANGED <<tasks, held, stage, job>>
    BY <1>7 DEF Release
  <2>2. Goto(p, "discard") \/ Return(p)
    BY <1>7 DEF Release
  <2>3. ASSUME NEW k \in Key, k # target[p], InCall(k, A)
        PROVE  InCall(k, A)'
    BY <2>2, <2>3 DEF InCall, Goto, Return, TypeInv, TypeOK
  <2>4. \A k \in accepted' : InCall(k, A)' \/ HasJob(k)'
    BY <1>t, <2>1, <2>3, JobKept DEF AcceptedOwned
  <2>5. \A k \in tasks' : InCall(k, T)' \/ HasJob(k)'
    BY <1>t, <1>l, <2>1, <2>2, CallKept, CallKeptOnReturn, JobKept DEF TasksOwned
  <2>6. QED
    BY <2>4, <2>5 DEF AcceptedOwned, TasksOwned
<1>8. CASE Discard(p)
  <2>1. pc[p] \notin A \cup T
    BY <1>8 DEF Discard
  <2>2. QED
    BY <1>8, <1>t, <2>1, CallKeptOnReturn, JobKept DEF Discard, AcceptedOwned, TasksOwned
<1>9. QED
  BY <1>1, <1>2, <1>3, <1>4, <1>5, <1>6, <1>7, <1>8 DEF CallStep

\* Acquiring a slot starts a call and disturbs no other.
LEMMA AcquireOwned ==
    ASSUME TypeInv, AcceptedOwned, TasksOwned, NEW p \in Proc, NEW c \in Key, Acquire(p, c)
    PROVE  AcceptedOwned' /\ TasksOwned'
<1>1. accepted \subseteq Key /\ tasks \subseteq Key
  BY DEF TypeInv, TypeOK
<1>2. UNCHANGED <<accepted, tasks, held, stage, job>>
  BY DEF Acquire
<1>3. ASSUME NEW k \in Key, NEW S, "idle" \notin S, InCall(k, S)
      PROVE  InCall(k, S)'
  BY <1>3 DEF InCall, Acquire, MayCall, TypeInv, TypeOK
<1>4. QED
  BY <1>1, <1>2, <1>3, JobKept DEF AcceptedOwned, TasksOwned

\* The same after a step of the queue or a worker.
LEMMA QueueOwned ==
    ASSUME TypeInv, AcceptedOwned, TasksOwned, NEW w \in Worker, QueueStep(w)
    PROVE  AcceptedOwned' /\ TasksOwned'
<1> DEFINE A == {"tracked", "rollback", "release"}
           T == {"reserved", "tracked", "rollback"}
<1>k. accepted \subseteq Key /\ tasks \subseteq Key
  BY DEF TypeInv, TypeOK
<1>p. w \in Proc
  BY DEF Proc
<1>1. ASSUME NEW j \in Job, Take(w, j)
      PROVE  AcceptedOwned' /\ TasksOwned'
  <2>1. \A k \in Key : HasJob(k) => HasJob(k)'
    <3> SUFFICES ASSUME NEW k \in Key, HasJob(k) PROVE HasJob(k)'
      OBVIOUS
    <3>1. CASE k = j.key
      BY <1>1, <3>1 DEF Take, HasJob, TypeInv, TypeOK
    <3>2. CASE k # j.key
      BY <1>1, <3>2 DEF Take, HasJob, TypeInv, TypeOK
    <3>3. QED
      BY <3>1, <3>2
  <2>2. UNCHANGED <<pc, target, accepted, tasks>>
    BY <1>1 DEF Take
  <2>3. QED
    BY <1>k, <2>1, <2>2 DEF AcceptedOwned, TasksOwned, InCall
<1>2. CASE DequeueTask(w)
  <2> DEFINE c == job[w].key
  <2>1. /\ stage[w] = "handling" /\ pc[w] = "idle"
        /\ tasks' = tasks \ {c}
        /\ target' = [target EXCEPT ![w] = c]
        /\ pc' = [pc EXCEPT ![w] = "release"]
        /\ stage' = [stage EXCEPT ![w] = "returned"]
        /\ UNCHANGED <<accepted, held, job>>
    BY <1>2 DEF DequeueTask
  <2>2. ASSUME NEW k \in Key, k # c, HasJob(k)
        PROVE  HasJob(k)'
    BY <2>1, <2>2 DEF HasJob, TypeInv, TypeOK
  <2>3. ASSUME NEW k \in Key, NEW S, "idle" \notin S, InCall(k, S)
        PROVE  InCall(k, S)'
    BY <2>1, <2>3 DEF InCall, TypeInv, TypeOK
  <2>4. ASSUME NEW k \in Key, k = c
        PROVE  InCall(k, A)'
    BY <1>p, <2>1, <2>4 DEF InCall, TypeInv, TypeOK
  <2>5. \A k \in accepted' : InCall(k, A)' \/ HasJob(k)'
    BY <1>k, <2>1, <2>2, <2>3, <2>4 DEF AcceptedOwned
  <2>6. \A k \in tasks' : InCall(k, T)' \/ HasJob(k)'
    BY <1>k, <2>1, <2>2, <2>3 DEF TasksOwned
  <2>7. QED
    BY <2>5, <2>6 DEF AcceptedOwned, TasksOwned
<1>3. CASE Settle(w)
  <2>1. \A k \in Key : HasJob(k) => HasJob(k)'
    BY <1>3 DEF Settle, queueVars, HasJob, TypeInv, TypeOK
  <2>2. UNCHANGED <<pc, target, accepted, tasks>>
    BY <1>3 DEF Settle, queueVars
  <2>3. QED
    BY <1>k, <2>1, <2>2 DEF AcceptedOwned, TasksOwned, InCall
<1>4. CASE Retry(w)
  <2> DEFINE again == [job[w] EXCEPT !.attempt = @ + 1]
  <2>1. /\ stage[w] = "returned"
        /\ held' = [held EXCEPT ![again] = @ + 1]
        /\ stage' = [stage EXCEPT ![w] = "waiting"]
        /\ job' = [job EXCEPT ![w] = NoJob]
    BY <1>4 DEF Retry
  <2>2. \A j \in Job : held[j] > 0 => held'[j] > 0
    BY <2>1 DEF TypeInv, TypeOK
  <2>3. \A k \in Key : HasJob(k) => HasJob(k)'
    BY <2>1, <2>2 DEF HasJob, TypeInv, TypeOK
  <2>4. UNCHANGED <<pc, target, accepted, tasks>>
    BY <1>4 DEF Retry
  <2>5. QED
    BY <1>k, <2>3, <2>4 DEF AcceptedOwned, TasksOwned, InCall
<1>5. QED
  BY <1>1, <1>2, <1>3, <1>4 DEF QueueStep

\* The same after every step.
LEMMA NextOwned ==
    TypeInv /\ AcceptedOwned /\ TasksOwned /\ [Next]_vars => AcceptedOwned' /\ TasksOwned'
<1> SUFFICES ASSUME TypeInv, AcceptedOwned, TasksOwned, [Next]_vars
             PROVE  AcceptedOwned' /\ TasksOwned'
  OBVIOUS
<1>1. CASE Cancel \/ UNCHANGED vars
  BY <1>1 DEF Cancel, queueVars, vars, AcceptedOwned, TasksOwned, InCall, HasJob
<1>2. QED
  BY <1>1, AcquireOwned, CallOwned, QueueOwned DEF Next

\* The inductive invariant holds of every reachable state.
THEOREM Inductive == Spec => []IndInv
<1>1. Init => AcceptedOwned /\ TasksOwned
  BY DEF Init, AcceptedOwned, TasksOwned
<1>2. Init => IndInv
  BY <1>1, InitType, InitSlots DEF IndInv
<1>3. IndInv /\ [Next]_vars => IndInv'
  BY NextType, NextSlots, NextOwned DEF IndInv
<1>4. QED
  BY <1>2, <1>3, PTL DEF Spec

\* With no call, worker or job left, nothing is reserved or accepted and a slot is
\* free.
LEMMA QuietOwnsNothing == IndInv /\ Quiet => QuietAdmits
<1> SUFFICES ASSUME IndInv, Quiet PROVE tasks = {} /\ accepted = {} /\ slots < Capacity
  BY DEF QuietAdmits
<1>1. \A k \in Key : ~HasJob(k)
  BY DEF Quiet, HasJob
<1>2. \A k \in Key, S \in SUBSET Label : "idle" \notin S => ~InCall(k, S)
  BY DEF Quiet, InCall
<1>3. accepted = {} /\ tasks = {}
  <2>1. accepted \subseteq Key /\ tasks \subseteq Key
    BY DEF IndInv, TypeInv, TypeOK
  <2>2. /\ {"tracked", "rollback", "release"} \in SUBSET Label
        /\ {"reserved", "tracked", "rollback"} \in SUBSET Label
    BY DEF Label
  <2>3. QED
    BY <1>1, <1>2, <2>1, <2>2 DEF IndInv, AcceptedOwned, TasksOwned
<1>4. Debtors = {}
  BY DEF Quiet, Debtors
<1>5. QED
  BY <1>3, <1>4, FS_EmptySet, BoundAssumption
     DEF IndInv, SlotInv, LostBelowCapacity, TypeInv, TypeOK

\* A queue at rest has no reservation and no accepted key left and admits a job,
\* whatever interleavings of calls and retries lost slots before.
THEOREM RestAdmits == Spec => []QuietAdmits
<1>1. IndInv => QuietAdmits
  BY QuietOwnsNothing DEF QuietAdmits
<1>2. QED
  BY <1>1, Inductive, PTL
-----------------------------------------------------------------------------
\* Jobs that run once.  Every action moves at most one process into or out of
\* Publishing and Handling, and the key's place in tasks moves with them.

PublishLabel == {"reserved", "tracked", "rollback"}

\* The calls that publish a key, and the workers that handle it, are finitely many.
LEMMA JobsFinite ==
    ASSUME NEW k \in Key
    PROVE  /\ IsFiniteSet(Publishing(k)) /\ Cardinality(Publishing(k)) \in Nat
           /\ IsFiniteSet(Handling(k)) /\ Cardinality(Handling(k)) \in Nat
<1>1. IsFiniteSet(Proc)
  BY ProcAssumption DEF Proc
<1>2. Publishing(k) \subseteq Proc /\ Handling(k) \subseteq Proc
  BY DEF Publishing, Handling, Proc
<1>3. QED
  BY <1>1, <1>2, FS_Subset, FS_CardinalityType

\* A call that is not publishing before or after its step publishes nothing.
LEMMA PublishingSame ==
    ASSUME TypeInv, NEW p \in Proc, NEW l, NEW t, NEW k \in Key,
           pc' = [pc EXCEPT ![p] = l], target' = [target EXCEPT ![p] = t],
           pc[p] \notin PublishLabel, l \notin PublishLabel
    PROVE  Publishing(k)' = Publishing(k)
BY DEF Publishing, PublishLabel, TypeInv, TypeOK

\* A call that goes on with its key keeps publishing it, or another as before.
LEMMA PublishingKept ==
    ASSUME TypeInv, NEW p \in Proc, NEW l, NEW k \in Key, Goto(p, l),
           pc[p] \in PublishLabel <=> l \in PublishLabel
    PROVE  Publishing(k)' = Publishing(k)
BY DEF Publishing, PublishLabel, Goto, TypeInv, TypeOK

\* A call that begins to publish its key is one more of that key only.
LEMMA PublishingStarts ==
    ASSUME TypeInv, NEW p \in Proc, NEW l \in PublishLabel, NEW k \in Key, Goto(p, l),
           pc[p] \notin PublishLabel
    PROVE  IF target[p] = k
           THEN Cardinality(Publishing(k)') = Cardinality(Publishing(k)) + 1
           ELSE Publishing(k)' = Publishing(k)
<1>1. CASE target[p] = k
  <2>1. Publishing(k)' = Publishing(k) \cup {p} /\ p \notin Publishing(k)
    BY <1>1 DEF Publishing, PublishLabel, Goto, TypeInv, TypeOK
  <2>2. QED
    BY <1>1, <2>1, JobsFinite, FS_AddElement
<1>2. CASE target[p] # k
  BY <1>2 DEF Publishing, PublishLabel, Goto, TypeInv, TypeOK
<1>3. QED
  BY <1>1, <1>2

\* A call that ends publishing its key is one less of that key only.
LEMMA PublishingEnds ==
    ASSUME TypeInv, NEW p \in Proc, NEW l, NEW t, NEW k \in Key,
           pc' = [pc EXCEPT ![p] = l], target' = [target EXCEPT ![p] = t],
           pc[p] \in PublishLabel, l \notin PublishLabel
    PROVE  IF target[p] = k
           THEN Cardinality(Publishing(k)') = Cardinality(Publishing(k)) - 1
           ELSE Publishing(k)' = Publishing(k)
<1>1. CASE target[p] = k
  <2>1. Publishing(k)' = Publishing(k) \ {p} /\ p \in Publishing(k)
    BY <1>1 DEF Publishing, PublishLabel, TypeInv, TypeOK
  <2>2. QED
    BY <1>1, <2>1, JobsFinite, FS_RemoveElement
<1>2. CASE target[p] # k
  BY <1>2 DEF Publishing, PublishLabel, TypeInv, TypeOK
<1>3. QED
  BY <1>1, <1>2

\* A worker takes a job of key k, or has done with one.
LEMMA HandlingStarts ==
    ASSUME TypeInv, NEW w \in Worker, NEW j \in Job, NEW k \in Key,
           stage[w] # "handling",
           stage' = [stage EXCEPT ![w] = "handling"], job' = [job EXCEPT ![w] = j]
    PROVE  IF j.key = k
           THEN Cardinality(Handling(k)') = Cardinality(Handling(k)) + 1
           ELSE Handling(k)' = Handling(k)
<1>1. CASE j.key = k
  <2>1. Handling(k)' = Handling(k) \cup {w} /\ w \notin Handling(k)
    BY <1>1 DEF Handling, TypeInv, TypeOK
  <2>2. QED
    BY <1>1, <2>1, JobsFinite, FS_AddElement
<1>2. CASE j.key # k
  BY <1>2 DEF Handling, TypeInv, TypeOK
<1>3. QED
  BY <1>1, <1>2

\* A worker whose handler has returned is one less of its key only.
LEMMA HandlingEnds ==
    ASSUME TypeInv, NEW w \in Worker, NEW k \in Key,
           stage[w] = "handling", stage' = [stage EXCEPT ![w] = "returned"], job' = job
    PROVE  IF job[w].key = k
           THEN Cardinality(Handling(k)') = Cardinality(Handling(k)) - 1
           ELSE Handling(k)' = Handling(k)
<1>1. CASE job[w].key = k
  <2>1. Handling(k)' = Handling(k) \ {w} /\ w \in Handling(k)
    BY <1>1 DEF Handling, TypeInv, TypeOK
  <2>2. QED
    BY <1>1, <2>1, JobsFinite, FS_RemoveElement
<1>2. CASE job[w].key # k
  BY <1>2 DEF Handling, TypeInv, TypeOK
<1>3. QED
  BY <1>1, <1>2

\* Where a key's job is, the sum that ReservationExact compares with tasks.
JobCount(k) ==
    Cardinality(Publishing(k)) + held[FirstAttempt(k)] + Cardinality(Handling(k))

KeyExact(k) == JobCount(k) = IF k \in tasks THEN 1 ELSE 0

\* The queue holds a number of jobs of each key.
LEMMA HeldNat == TypeInv => \A k \in Key : held[FirstAttempt(k)] \in Nat
BY FirstAttemptType DEF TypeInv, TypeOK

\* Reservations are exact at first.
LEMMA InitExact == Init => ReservationExact
<1> SUFFICES ASSUME Init, NEW k \in Key
             PROVE  Cardinality(Publishing(k)) + held[FirstAttempt(k)] + Cardinality(Handling(k))
                        = IF k \in tasks THEN 1 ELSE 0
  BY DEF ReservationExact
<1>1. Publishing(k) = {} /\ Handling(k) = {} /\ k \notin tasks
  BY DEF Init, Publishing, Handling
<1>2. held[FirstAttempt(k)] = 0
  BY FirstAttemptType DEF Init
<1>3. QED
  BY <1>1, <1>2, FS_EmptySet

\* Every step of a call keeps them exact.
LEMMA CallExact ==
    ASSUME TypeInv, NEW p \in Proc, NEW k \in Key, KeyExact(k), CallStep(p)
    PROVE  KeyExact(k)'
<1>h. UNCHANGED <<stage, job>> => Handling(k)' = Handling(k)
  BY DEF Handling
<1>n. /\ Cardinality(Publishing(k)) \in Nat /\ Cardinality(Handling(k)) \in Nat
      /\ held[FirstAttempt(k)] \in Nat
  BY JobsFinite, HeldNat
<1>t. pc[p] # "idle" => target[p] \in Key
  BY DEF TypeInv, CallsHaveKeys
<1>1. CASE AbandonBeforeReserving(p)
  <2>1. Publishing(k)' = Publishing(k)
    BY <1>1, PublishingKept DEF AbandonBeforeReserving, Goto, PublishLabel
  <2>2. QED
    BY <1>1, <1>h, <2>1 DEF AbandonBeforeReserving, KeyExact, JobCount
<1>2. CASE QueueTask(p) /\ target[p] \in tasks
  <2>1. Publishing(k)' = Publishing(k)
    BY <1>2, PublishingKept DEF QueueTask, PublishLabel
  <2>2. QED
    BY <1>2, <1>h, <2>1 DEF QueueTask, KeyExact, JobCount
<1>3. CASE QueueTask(p) /\ target[p] \notin tasks
  <2>1. IF target[p] = k THEN Cardinality(Publishing(k)') = Cardinality(Publishing(k)) + 1
                         ELSE Publishing(k)' = Publishing(k)
    BY <1>3, PublishingStarts DEF QueueTask, PublishLabel
  <2>2. tasks' = tasks \cup {target[p]} /\ held' = held /\ Handling(k)' = Handling(k)
    BY <1>3, <1>h DEF QueueTask
  <2>3. QED
    BY <1>3, <1>n, <2>1, <2>2 DEF KeyExact, JobCount
<1>4. CASE Track(p)
  <2>1. Publishing(k)' = Publishing(k)
    BY <1>4, PublishingKept DEF Track, PublishLabel
  <2>2. QED
    BY <1>4, <1>h, <2>1 DEF Track, KeyExact, JobCount
<1>5. CASE Publish(p)
  <2>1. IF target[p] = k THEN Cardinality(Publishing(k)') = Cardinality(Publishing(k)) - 1
                         ELSE Publishing(k)' = Publishing(k)
    BY <1>5, PublishingEnds DEF Publish, Return, PublishLabel
  <2>2. /\ held' = [held EXCEPT ![FirstAttempt(target[p])] = @ + 1]
        /\ tasks' = tasks /\ Handling(k)' = Handling(k)
    BY <1>5, <1>h DEF Publish
  <2>3. held'[FirstAttempt(k)] = IF target[p] = k THEN held[FirstAttempt(k)] + 1
                                                  ELSE held[FirstAttempt(k)]
    <3>1. FirstAttempt(k) \in Job /\ held \in [Job -> Nat]
      BY FirstAttemptType DEF TypeInv, TypeOK
    <3>2. FirstAttempt(target[p]) = FirstAttempt(k) <=> target[p] = k
      BY DEF FirstAttempt
    <3>3. QED
      BY <2>2, <3>1, <3>2
  <2>4. QED
    BY <1>n, <2>1, <2>2, <2>3 DEF KeyExact, JobCount
<1>6. CASE PublishFails(p)
  <2>1. Publishing(k)' = Publishing(k)
    BY <1>6, PublishingKept DEF PublishFails, PublishLabel
  <2>2. QED
    BY <1>6, <1>h, <2>1 DEF PublishFails, KeyExact, JobCount
<1>7. CASE CancelTask(p)
  <2>1. IF target[p] = k THEN Cardinality(Publishing(k)') = Cardinality(Publishing(k)) - 1
                         ELSE Publishing(k)' = Publishing(k)
    <3>1. target' = [target EXCEPT ![p] = target[p]]
      BY <1>7 DEF CancelTask, Goto, TypeInv, TypeOK
    <3>2. QED
      BY <1>7, <3>1, PublishingEnds DEF CancelTask, Goto, PublishLabel
  <2>2. tasks' = tasks \ {target[p]} /\ held' = held /\ Handling(k)' = Handling(k)
    BY <1>7, <1>h DEF CancelTask
  <2>3. target[p] = k => Cardinality(Publishing(k)) # 0
    <3>1. target[p] = k => p \in Publishing(k)
      BY <1>7 DEF CancelTask, Publishing
    <3>2. QED
      BY <3>1, JobsFinite, FS_EmptySet
  <2>4. QED
    BY <1>n, <2>1, <2>2, <2>3 DEF KeyExact, JobCount
<1>8. CASE Release(p)
  <2>1. Publishing(k)' = Publishing(k)
    BY <1>8, PublishingKept, PublishingSame DEF Release, Return, PublishLabel
  <2>2. QED
    BY <1>8, <1>h, <2>1 DEF Release, KeyExact, JobCount
<1>9. CASE Discard(p)
  <2>1. Publishing(k)' = Publishing(k)
    BY <1>9, PublishingSame DEF Discard, Return, PublishLabel
  <2>2. QED
    BY <1>9, <1>h, <2>1 DEF Discard, KeyExact, JobCount
<1>10. QED
  BY <1>1, <1>2, <1>3, <1>4, <1>5, <1>6, <1>7, <1>8, <1>9 DEF CallStep

\* So does every step of the queue and its workers, if no job is retried.
LEMMA QueueExact ==
    ASSUME MaxAttempts = 1, TypeInv, NEW w \in Worker, NEW k \in Key, KeyExact(k), QueueStep(w)
    PROVE  KeyExact(k)'
<1>n. /\ Cardinality(Publishing(k)) \in Nat /\ Cardinality(Handling(k)) \in Nat
      /\ held[FirstAttempt(k)] \in Nat
  BY JobsFinite, HeldNat
<1>p. UNCHANGED <<pc, target>> => Publishing(k)' = Publishing(k)
  BY DEF Publishing
<1>1. ASSUME NEW j \in Job, Take(w, j) PROVE KeyExact(k)'
  <2>1. IF j.key = k THEN Cardinality(Handling(k)') = Cardinality(Handling(k)) + 1
                     ELSE Handling(k)' = Handling(k)
    BY <1>1, HandlingStarts DEF Take
  <2>2. /\ held' = [held EXCEPT ![j] = @ - 1] /\ held[j] > 0
        /\ tasks' = tasks /\ Publishing(k)' = Publishing(k)
    BY <1>1, <1>p DEF Take
  <2>3. held'[FirstAttempt(k)] = IF j.key = k THEN held[FirstAttempt(k)] - 1
                                              ELSE held[FirstAttempt(k)]
    <3>1. FirstAttempt(k) \in Job /\ held \in [Job -> Nat]
      BY FirstAttemptType DEF TypeInv, TypeOK
    <3>2. j = FirstAttempt(k) <=> j.key = k
      BY MaxAttempts = 1 DEF FirstAttempt, Job
    <3>3. QED
      BY <2>2, <3>1, <3>2
  <2>4. QED
    BY <1>n, <2>1, <2>2, <2>3 DEF KeyExact, JobCount
<1>2. CASE DequeueTask(w)
  <2>1. IF job[w].key = k THEN Cardinality(Handling(k)') = Cardinality(Handling(k)) - 1
                          ELSE Handling(k)' = Handling(k)
    BY <1>2, HandlingEnds DEF DequeueTask
  <2>2. Publishing(k)' = Publishing(k)
    <3>1. w \in Proc
      BY DEF Proc
    <3>2. QED
      BY <1>2, <3>1, PublishingSame DEF DequeueTask, PublishLabel
  <2>3. tasks' = tasks \ {job[w].key} /\ held' = held
    BY <1>2 DEF DequeueTask
  <2>4. job[w].key = k => Cardinality(Handling(k)) # 0
    <3>1. job[w].key = k => w \in Handling(k)
      BY <1>2 DEF DequeueTask, Handling
    <3>2. QED
      BY <3>1, JobsFinite, FS_EmptySet
  <2>5. QED
    BY <1>n, <2>1, <2>2, <2>3, <2>4 DEF KeyExact, JobCount
<1>3. CASE Settle(w)
  <2>1. Handling(k)' = Handling(k) /\ Publishing(k)' = Publishing(k)
    BY <1>3, <1>p DEF Settle, Handling, TypeInv, TypeOK
  <2>2. QED
    BY <1>3, <2>1 DEF Settle, queueVars, KeyExact, JobCount
<1>4. CASE Retry(w)
  <2>1. job[w] \in Job
    BY <1>4 DEF Retry, TypeInv, WorkersHaveJobs
  <2>2. QED
    BY <1>4, <2>1, MaxAttempts = 1 DEF Retry, Job
<1>5. QED
  BY <1>1, <1>2, <1>3, <1>4 DEF QueueStep

\* So does every step.
LEMMA NextExact ==
    ASSUME MaxAttempts = 1
    PROVE  TypeInv /\ ReservationExact /\ [Next]_vars => ReservationExact'
<1> SUFFICES ASSUME TypeInv, NEW k \in Key, KeyExact(k), [Next]_vars PROVE KeyExact(k)'
  BY DEF ReservationExact, KeyExact, JobCount
<1>1. ASSUME NEW p \in Proc, NEW a \in Key, Acquire(p, a) PROVE KeyExact(k)'
  <2>1. Publishing(k)' = Publishing(k) /\ Handling(k)' = Handling(k)
    BY <1>1, PublishingSame DEF Acquire, MayCall, PublishLabel, Handling
  <2>2. QED
    BY <1>1, <2>1 DEF Acquire, KeyExact, JobCount
<1>2. CASE Cancel \/ UNCHANGED vars
  <2>1. Publishing(k)' = Publishing(k) /\ Handling(k)' = Handling(k)
    BY <1>2 DEF Cancel, vars, Publishing, Handling
  <2>2. QED
    BY <1>2, <2>1 DEF Cancel, queueVars, vars, KeyExact, JobCount
<1>3. QED
  BY <1>1, <1>2, CallExact, QueueExact DEF Next

\* When no job is retried, a key is reserved exactly while one job of it is being
\* published, held or handled, and there is never a second one, for any number of
\* goroutines that schedule and workers that handle.
THEOREM OneJobPerReservation ==
    ASSUME MaxAttempts = 1
    PROVE  Spec => []ReservationExact
<1>1. Spec => [](TypeInv /\ ReservationExact)
  BY InitType, NextType, InitExact, NextExact, PTL DEF Spec
<1>2. QED
  BY <1>1, PTL

-----------------------------------------------------------------------------
\* Slots of jobs that run once.

OwnLabel == {"acquired", "release", "discard"}

\* The calls that own a slot are finitely many.
LEMMA OwnersFinite == IsFiniteSet(SlotOwners) /\ Cardinality(SlotOwners) \in Nat
<1>1. IsFiniteSet(Proc)
  BY ProcAssumption DEF Proc
<1>2. SlotOwners \subseteq Proc
  BY DEF SlotOwners
<1>3. QED
  BY <1>1, <1>2, FS_Subset, FS_CardinalityType

\* A call that comes to own a slot is one owner more.
LEMMA OwnerJoins ==
    ASSUME TypeInv, NEW p \in Proc, pc[p] \notin OwnLabel,
           NEW l \in OwnLabel, pc' = [pc EXCEPT ![p] = l]
    PROVE  Cardinality(SlotOwners') = Cardinality(SlotOwners) + 1
<1>1. SlotOwners' = SlotOwners \cup {p} /\ p \notin SlotOwners
  BY DEF SlotOwners, OwnLabel, TypeInv, TypeOK
<1>2. QED
  BY <1>1, OwnersFinite, FS_AddElement

\* A call that gives it up is one owner less.
LEMMA OwnerLeaves ==
    ASSUME TypeInv, NEW p \in Proc, pc[p] \in OwnLabel,
           NEW l, l \notin OwnLabel, pc' = [pc EXCEPT ![p] = l]
    PROVE  Cardinality(SlotOwners') = Cardinality(SlotOwners) - 1
<1>1. SlotOwners' = SlotOwners \ {p} /\ p \in SlotOwners
  BY DEF SlotOwners, OwnLabel, TypeInv, TypeOK
<1>2. QED
  BY <1>1, OwnersFinite, FS_RemoveElement

\* A call that owns as before changes no owner.
LEMMA OwnerStays ==
    ASSUME TypeInv, NEW p \in Proc, NEW l,
           pc[p] \in OwnLabel <=> l \in OwnLabel, pc' = [pc EXCEPT ![p] = l]
    PROVE  SlotOwners' = SlotOwners
BY DEF SlotOwners, OwnLabel, TypeInv, TypeOK

BoundInv == IsFiniteSet(tasks) /\ OutstandingBounded

\* The limit is kept at first.
LEMMA InitBound == Init => BoundInv
<1> SUFFICES ASSUME Init PROVE BoundInv
  OBVIOUS
<1>1. SlotOwners = {} /\ tasks = {} /\ slots = 0
  BY DEF Init, SlotOwners
<1>2. QED
  BY <1>1, FS_EmptySet DEF BoundInv, OutstandingBounded

\* A key leaves the task map at the step that makes its process an owner of the slot;
\* the key is there, because its job is.
LEMMA KeyGivesSlot ==
    ASSUME TypeInv, BoundInv, NEW p \in Proc, NEW k \in tasks,
           pc[p] \notin OwnLabel, pc' = [pc EXCEPT ![p] = "release"],
           tasks' = tasks \ {k}, slots' = slots
    PROVE  BoundInv'
<1>1. Cardinality(SlotOwners') = Cardinality(SlotOwners) + 1
  BY OwnerJoins DEF OwnLabel
<1>2. IsFiniteSet(tasks') /\ Cardinality(tasks') = Cardinality(tasks) - 1
  BY FS_RemoveElement DEF BoundInv
<1>3. Cardinality(tasks) \in Nat /\ slots \in Nat
  BY FS_CardinalityType DEF BoundInv, TypeInv, TypeOK
<1>4. QED
  BY <1>1, <1>2, <1>3, OwnersFinite DEF BoundInv, OutstandingBounded

\* A step that changes neither slots, reservations nor owners keeps the limit.
LEMMA SlotsKept ==
    ASSUME BoundInv, UNCHANGED <<slots, tasks>>, SlotOwners' = SlotOwners
    PROVE  BoundInv'
BY DEF BoundInv, OutstandingBounded

\* Every step of a call keeps the limit.
LEMMA CallBound ==
    ASSUME TypeInv, ReservationExact, BoundInv, NEW p \in Proc, CallStep(p)
    PROVE  BoundInv'
<1>n. /\ Cardinality(tasks) \in Nat /\ slots \in Nat
      /\ IsFiniteSet(tasks) /\ Cardinality(tasks) + Cardinality(SlotOwners) <= slots
  BY FS_CardinalityType DEF BoundInv, OutstandingBounded, TypeInv, TypeOK
<1>1. CASE AbandonBeforeReserving(p)
  BY <1>1, OwnerStays, SlotsKept DEF AbandonBeforeReserving, Goto, OwnLabel
<1>2. CASE QueueTask(p) /\ target[p] \in tasks
  BY <1>2, OwnerStays, SlotsKept DEF QueueTask, Goto, OwnLabel
<1>3. CASE QueueTask(p) /\ target[p] \notin tasks
  <2>1. Cardinality(SlotOwners') = Cardinality(SlotOwners) - 1
    BY <1>3, OwnerLeaves DEF QueueTask, Goto, OwnLabel
  <2>2. IsFiniteSet(tasks') /\ Cardinality(tasks') = Cardinality(tasks) + 1
    <3>1. tasks' = tasks \cup {target[p]} /\ target[p] \notin tasks
      BY <1>3 DEF QueueTask
    <3>2. QED
      BY <3>1, <1>n, FS_AddElement
  <2>3. slots' = slots
    BY <1>3 DEF QueueTask
  <2>4. QED
    BY <1>n, <2>1, <2>2, <2>3, OwnersFinite DEF BoundInv, OutstandingBounded
<1>4. CASE Track(p)
  BY <1>4, OwnerStays, SlotsKept DEF Track, Goto, OwnLabel
<1>5. CASE Publish(p)
  BY <1>5, OwnerStays, SlotsKept DEF Publish, Return, OwnLabel
<1>6. CASE PublishFails(p)
  BY <1>6, OwnerStays, SlotsKept DEF PublishFails, Goto, OwnLabel
<1>7. CASE CancelTask(p)
  <2>1. target[p] \in Key /\ p \in Publishing(target[p])
    BY <1>7 DEF CancelTask, Publishing, TypeInv, CallsHaveKeys
  <2>2. target[p] \in tasks
    BY <2>1, JobsFinite, HeldNat, FS_EmptySet DEF ReservationExact
  <2>3. QED
    BY <1>7, <2>2, KeyGivesSlot DEF CancelTask, Goto, OwnLabel
<1>8. CASE Release(p) /\ target[p] \in accepted
  BY <1>8, OwnerStays, SlotsKept DEF Release, Goto, OwnLabel
<1>9. CASE Release(p) /\ target[p] \notin accepted
  <2>1. Cardinality(SlotOwners') = Cardinality(SlotOwners) - 1
    BY <1>9, OwnerLeaves DEF Release, Return, OwnLabel
  <2>2. tasks' = tasks /\ slots' = slots
    BY <1>9 DEF Release
  <2>3. QED
    BY <1>n, <2>1, <2>2, OwnersFinite DEF BoundInv, OutstandingBounded
<1>10. CASE Discard(p)
  <2>1. Cardinality(SlotOwners') = Cardinality(SlotOwners) - 1
    BY <1>10, OwnerLeaves DEF Discard, Return, OwnLabel
  <2>2. tasks' = tasks /\ slots' = slots - 1
    BY <1>10 DEF Discard
  <2>3. QED
    BY <1>n, <2>1, <2>2, OwnersFinite DEF BoundInv, OutstandingBounded
<1>11. QED
  BY <1>1, <1>2, <1>3, <1>4, <1>5, <1>6, <1>7, <1>8, <1>9, <1>10 DEF CallStep

\* So does every step.
LEMMA NextBound == TypeInv /\ ReservationExact /\ BoundInv /\ [Next]_vars => BoundInv'
<1> SUFFICES ASSUME TypeInv, ReservationExact, BoundInv, [Next]_vars PROVE BoundInv'
  OBVIOUS
<1>1. ASSUME NEW p \in Proc, NEW k \in Key, Acquire(p, k) PROVE BoundInv'
  <2>1. Cardinality(SlotOwners') = Cardinality(SlotOwners) + 1
    BY <1>1, OwnerJoins DEF Acquire, MayCall, OwnLabel
  <2>2. tasks' = tasks /\ slots' = slots + 1
    BY <1>1 DEF Acquire
  <2>3. Cardinality(tasks) \in Nat /\ slots \in Nat
    BY FS_CardinalityType DEF BoundInv, TypeInv, TypeOK
  <2>4. QED
    BY <2>1, <2>2, <2>3, OwnersFinite DEF BoundInv, OutstandingBounded
<1>2. ASSUME NEW w \in Worker, DequeueTask(w) PROVE BoundInv'
  <2>1. w \in Handling(job[w].key) /\ job[w].key \in Key
    BY <1>2 DEF DequeueTask, Handling, TypeInv, WorkersHaveJobs, Job
  <2>2. job[w].key \in tasks
    BY <2>1, JobsFinite, HeldNat, FS_EmptySet DEF ReservationExact
  <2>3. w \in Proc
    BY DEF Proc
  <2>4. QED
    BY <1>2, <2>2, <2>3, KeyGivesSlot DEF DequeueTask, OwnLabel
<1>3. CASE UNCHANGED <<slots, tasks, pc>>
  BY <1>3, SlotsKept DEF SlotOwners
<1>4. QED
  BY <1>1, <1>2, <1>3, CallBound DEF Next, QueueStep, Take, Settle, Retry, Cancel, queueVars, vars

\* When no job is retried, every job being published, held or handled has a slot of its
\* own, besides those of the calls about to reserve or to give back theirs: the limit
\* of outstanding jobs holds, for any number of goroutines and any capacity.
THEOREM EveryJobHasSlot ==
    ASSUME MaxAttempts = 1
    PROVE  Spec => []OutstandingBounded
<1>1. TypeInv /\ ReservationExact /\ [Next]_vars => ReservationExact'
  BY NextExact
<1>2. Spec => [](TypeInv /\ ReservationExact /\ BoundInv)
  BY <1>1, InitType, NextType, InitExact, InitBound, NextBound, PTL DEF Spec
<1>3. BoundInv => OutstandingBounded
  BY DEF BoundInv
<1>4. QED
  BY <1>2, <1>3, PTL

-----------------------------------------------------------------------------
\* The steps of the queue as steps of TaskReservation.

PhaseOf(k) ==
    IF k \notin tasks THEN "free" ELSE IF Handling(k) # {} THEN "running" ELSE "reserved"

\* The mapped phase of one key changes.
LEMMA PhaseMoves ==
    ASSUME NEW k \in Key, NEW x, PhaseOf(k)' = x,
           \A o \in Key \ {k} : PhaseOf(o)' = PhaseOf(o)
    PROVE  jobPhase' = [jobPhase EXCEPT ![k] = x]
BY DEF jobPhase, PhaseOf

\* Nothing changes in TaskReservation while reservations, the count and the jobs
\* handled stay.
LEMMA PhaseStays ==
    ASSUME UNCHANGED <<tasks, executed>>, \A k \in Key : Handling(k)' = Handling(k)
    PROVE  UNCHANGED Abstract!vars
<1>1. jobPhase' = jobPhase
  BY DEF jobPhase
<1>2. QED
  BY <1>1 DEF Abstract!vars

\* What an exact reservation says of the phase of a key.
LEMMA PhaseExact ==
    ASSUME TypeInv, ReservationExact, NEW k \in Key
    PROVE  /\ jobPhase[k] = PhaseOf(k)
           /\ k \notin tasks => PhaseOf(k) = "free" /\ Handling(k) = {}
           /\ Publishing(k) # {} => PhaseOf(k) = "reserved" /\ Handling(k) = {}
           /\ held[FirstAttempt(k)] > 0 => PhaseOf(k) = "reserved" /\ Handling(k) = {}
           /\ Handling(k) # {} => PhaseOf(k) = "running" /\ Cardinality(Handling(k)) = 1
<1>1. /\ IsFiniteSet(Publishing(k)) /\ Cardinality(Publishing(k)) \in Nat
      /\ IsFiniteSet(Handling(k)) /\ Cardinality(Handling(k)) \in Nat
      /\ held[FirstAttempt(k)] \in Nat
  BY JobsFinite, HeldNat
<1>2. Cardinality(Publishing(k)) + held[FirstAttempt(k)] + Cardinality(Handling(k))
          = IF k \in tasks THEN 1 ELSE 0
  BY DEF ReservationExact
<1>3. /\ Publishing(k) # {} => Cardinality(Publishing(k)) # 0
      /\ Handling(k) # {} <=> Cardinality(Handling(k)) # 0
  BY <1>1, FS_EmptySet
<1>4. jobPhase[k] = PhaseOf(k)
  BY DEF jobPhase, PhaseOf
<1>5. /\ Publishing(k) # {} \/ held[FirstAttempt(k)] > 0 => k \in tasks /\ Handling(k) = {}
      /\ Handling(k) # {} => k \in tasks /\ Cardinality(Handling(k)) = 1
      /\ k \notin tasks => Handling(k) = {}
  <2>1. ASSUME NEW P \in Nat, NEW h \in Nat, NEW H \in Nat, P + h + H = IF k \in tasks THEN 1 ELSE 0
        PROVE  /\ P # 0 \/ h > 0 => k \in tasks /\ H = 0
               /\ H # 0 => k \in tasks /\ H = 1
               /\ k \notin tasks => H = 0
    BY <2>1
  <2>2. /\ Cardinality(Publishing(k)) # 0 \/ held[FirstAttempt(k)] > 0
              => k \in tasks /\ Cardinality(Handling(k)) = 0
        /\ Cardinality(Handling(k)) # 0 => k \in tasks /\ Cardinality(Handling(k)) = 1
        /\ k \notin tasks => Cardinality(Handling(k)) = 0
    BY <1>1, <1>2, <2>1
  <2>3. QED
    BY <1>3, <2>2
<1>6. QED
  BY <1>4, <1>5 DEF PhaseOf

\* The initial states are those of TaskReservation.
LEMMA InitReserves == Init => Abstract!Init
BY DEF Init, Abstract!Init, jobPhase

\* Every step of a call is one of TaskReservation, or stutters.
LEMMA CallReserves ==
    ASSUME TypeInv, ReservationExact, NEW p \in Proc, CallStep(p)
    PROVE  [Abstract!Next]_(Abstract!vars)
<1>h. UNCHANGED <<stage, job>> => \A k \in Key : Handling(k)' = Handling(k)
  BY DEF Handling
<1>1. CASE QueueTask(p) /\ target[p] \notin tasks
  <2>1. PICK t \in Key : t = target[p]
    BY <1>1 DEF QueueTask, TypeInv, CallsHaveKeys
  <2>2. tasks' = tasks \cup {t} /\ executed' = executed
    BY <1>1, <2>1 DEF QueueTask
  <2>3. \A k \in Key : Handling(k)' = Handling(k)
    BY <1>1, <1>h DEF QueueTask
  <2>4. PhaseOf(t)' = "reserved"
    BY <1>1, <2>1, <2>2, <2>3, PhaseExact DEF PhaseOf
  <2>5. \A k \in Key \ {t} : PhaseOf(k)' = PhaseOf(k)
    BY <2>2, <2>3 DEF PhaseOf
  <2>6. jobPhase' = [jobPhase EXCEPT ![t] = "reserved"]
    BY <2>1, <2>4, <2>5, PhaseMoves
  <2>7. jobPhase[t] = "free"
    BY <1>1, <2>1, PhaseExact
  <2>8. Abstract!Reserve(t)
    BY <2>2, <2>6, <2>7 DEF Abstract!Reserve
  <2>9. QED
    BY <2>1, <2>8 DEF Abstract!Next
<1>2. CASE CancelTask(p)
  <2>1. PICK t \in Key : t = target[p] /\ p \in Publishing(t)
    BY <1>2 DEF CancelTask, Publishing, TypeInv, CallsHaveKeys
  <2>2. tasks' = tasks \ {t} /\ executed' = executed
    BY <1>2, <2>1 DEF CancelTask
  <2>3. \A k \in Key : Handling(k)' = Handling(k)
    BY <1>2, <1>h DEF CancelTask
  <2>4. PhaseOf(t)' = "free"
    BY <2>2 DEF PhaseOf
  <2>5. \A k \in Key \ {t} : PhaseOf(k)' = PhaseOf(k)
    BY <2>2, <2>3 DEF PhaseOf
  <2>6. jobPhase' = [jobPhase EXCEPT ![t] = "free"]
    BY <2>1, <2>4, <2>5, PhaseMoves
  <2>7. jobPhase[t] = "reserved"
    BY <2>1, PhaseExact
  <2>8. Abstract!Withdraw(t)
    BY <2>2, <2>6, <2>7 DEF Abstract!Withdraw
  <2>9. QED
    BY <2>1, <2>8 DEF Abstract!Next
<1>3. CASE UNCHANGED <<tasks, executed, stage, job>>
  BY <1>3, <1>h, PhaseStays
<1>4. QED
  BY <1>1, <1>2, <1>3 DEF CallStep, AbandonBeforeReserving, QueueTask, Track, Publish,
     PublishFails, Release, Discard

\* So is every step of the queue and its workers, if no job is retried.
LEMMA QueueReserves ==
    ASSUME MaxAttempts = 1, TypeInv, ReservationExact, NEW w \in Worker, QueueStep(w)
    PROVE  [Abstract!Next]_(Abstract!vars)
<1>1. ASSUME NEW j \in Job, Take(w, j) PROVE [Abstract!Next]_(Abstract!vars)
  <2>1. j.key \in Key /\ j = FirstAttempt(j.key)
    BY MaxAttempts = 1 DEF Job, FirstAttempt
  <2>2. held[FirstAttempt(j.key)] > 0
    BY <1>1, <2>1 DEF Take
  <2>3. /\ jobPhase[j.key] = "reserved" /\ PhaseOf(j.key) = "reserved"
        /\ tasks' = tasks /\ executed' = executed
    BY <1>1, <2>1, <2>2, PhaseExact DEF Take
  <2>4. w \in Handling(j.key)'
    BY <1>1 DEF Take, Handling, TypeInv, TypeOK
  <2>5. PhaseOf(j.key)' = "running"
    BY <2>3, <2>4 DEF PhaseOf
  <2>6. \A k \in Key \ {j.key} : Handling(k)' = Handling(k)
    BY <1>1 DEF Take, Handling, TypeInv, TypeOK
  <2>7. \A k \in Key \ {j.key} : PhaseOf(k)' = PhaseOf(k)
    BY <2>3, <2>6 DEF PhaseOf
  <2>8. jobPhase' = [jobPhase EXCEPT ![j.key] = "running"]
    BY <2>1, <2>5, <2>7, PhaseMoves
  <2>9. Abstract!Start(j.key)
    BY <2>3, <2>8 DEF Abstract!Start
  <2>10. QED
    BY <2>1, <2>9 DEF Abstract!Next
<1>2. CASE DequeueTask(w)
  <2>1. PICK key \in Key : key = job[w].key /\ w \in Handling(key)
    BY <1>2 DEF DequeueTask, Handling, TypeInv, WorkersHaveJobs, Job
  <2>2. jobPhase[key] = "running" /\ key \in tasks
    BY <2>1, PhaseExact
  <2>3. tasks' = tasks \ {key} /\ executed' = (executed + 1) % CounterModulus
    BY <1>2, <2>1, <2>2 DEF DequeueTask
  <2>4. PhaseOf(key)' = "free"
    BY <2>3 DEF PhaseOf
  <2>5. \A k \in Key \ {key} : Handling(k)' = Handling(k)
    BY <1>2, <2>1 DEF DequeueTask, Handling, TypeInv, TypeOK
  <2>6. \A k \in Key \ {key} : PhaseOf(k)' = PhaseOf(k)
    BY <2>3, <2>5 DEF PhaseOf
  <2>7. jobPhase' = [jobPhase EXCEPT ![key] = "free"]
    BY <2>1, <2>4, <2>6, PhaseMoves
  <2>8. Abstract!Complete(key)
    BY <2>2, <2>3, <2>7 DEF Abstract!Complete
  <2>9. QED
    BY <2>1, <2>8 DEF Abstract!Next
<1>3. CASE Settle(w)
  <2>1. \A k \in Key : Handling(k)' = Handling(k)
    BY <1>3 DEF Settle, Handling, TypeInv, TypeOK
  <2>2. QED
    BY <1>3, <2>1, PhaseStays DEF Settle, queueVars
<1>4. CASE Retry(w)
  <2>1. job[w] \in Job
    BY <1>4 DEF Retry, TypeInv, WorkersHaveJobs
  <2>2. QED
    BY <1>4, <2>1, MaxAttempts = 1 DEF Retry, Job
<1>5. QED
  BY <1>1, <1>2, <1>3, <1>4 DEF QueueStep

\* When no job is retried, the queue is a TaskReservation: a key is reserved only when
\* it has no job, and its reservation is withdrawn uncounted or its job runs once,
\* alone, and is counted once.  (That reservations end is left to TLC.)
THEOREM ImplementsReservation ==
    ASSUME MaxAttempts = 1
    PROVE  Spec => Abstract!Init /\ [][Abstract!Next]_(Abstract!vars)
<1>1. TypeInv /\ ReservationExact /\ [Next]_vars => ReservationExact'
  BY NextExact
<1>2. TypeInv /\ ReservationExact /\ [Next]_vars => [Abstract!Next]_(Abstract!vars)
  <2> SUFFICES ASSUME TypeInv, ReservationExact, [Next]_vars
               PROVE  [Abstract!Next]_(Abstract!vars)
    OBVIOUS
  <2>1. CASE UNCHANGED <<tasks, executed, stage, job>>
    <3>1. \A k \in Key : Handling(k)' = Handling(k)
      BY <2>1 DEF Handling
    <3>2. QED
      BY <2>1, <3>1, PhaseStays
  <2>2. QED
    BY <2>1, CallReserves, QueueReserves DEF Next, Acquire, Cancel, queueVars, vars
<1>3. QED
  BY <1>1, <1>2, InitType, NextType, InitExact, InitReserves, PTL DEF Spec

=============================================================================
