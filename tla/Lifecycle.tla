------------------------------ MODULE Lifecycle ------------------------------
(***************************************************************************)
(* Background work and shutdown of the exporter (pkg/controller/           *)
(* lifecycle.go) with the webhook handler that starts most of it (submit   *)
(* in pkg/controller/handlers.go).  Tickers, the keepalive loop and        *)
(* accepted webhook events run as goroutines counted by a WaitGroup; Close *)
(* refuses new ones, closes the task queue, waits for the rest until its   *)
(* deadline and only then closes the Redis client.                         *)
(*                                                                         *)
(* What an event or a task does is not modelled here, only that it runs.   *)
(***************************************************************************)
EXTENDS Integers, FiniteSets

CONSTANTS Request,         \* webhook requests with a supported event
          Loop,            \* goroutines started by Schedule
          OneShot,         \* those that end by themselves: GetGitLabMetadata
          Handler,         \* workers of the task queue
          Closer,          \* goroutines that call Close
          MaxConcurrent    \* cap(processingSlots)

ASSUME FiniteAssumption == IsFiniteSet(Request) /\ IsFiniteSet(Loop)

ASSUME SlotAssumption == MaxConcurrent \in Nat \ {0}

VARIABLES
    phase,        \* how far Controller.close has come; not "open" iff closed is set
    cancelled,    \* the lifecycle context is done
    late,         \* the deadline of Close has passed
    failed,       \* shutdownErr # nil
    wg,           \* the counter of the WaitGroup
    loops,        \* the loops that run
    slots,        \* number of tokens in processingSlots
    request,      \* where each request or the goroutine of its event stands
    handling,     \* the workers that run a task handler
    closer        \* the callers of Close

closeVars == <<phase, late, failed, closer>>
eventVars == <<slots, request>>
vars == <<closeVars, cancelled, wg, loops, eventVars, handling>>

(***************************************************************************)
(* "new"       not submitted yet                                           *)
(* "slot"      submit holds a slot, startBackground not called yet         *)
(* "giveback"  startBackground refused, the slot not given back yet        *)
(* "refused"   answered 503                                                *)
(* "running"   answered 200, the goroutine processes the event             *)
(* "processed" the goroutine is about to give back the slot                *)
(* "freed"     the goroutine is about to call wg.Done                      *)
(***************************************************************************)
Stage == {"new", "slot", "giveback", "refused", "running", "processed", "freed", "done"}

TypeOK ==
    /\ phase \in {"open", "stopped", "queueClosed", "waited", "done"}
    /\ {cancelled, late, failed} \subseteq BOOLEAN
    /\ wg \in Int
    /\ loops \in SUBSET Loop
    /\ slots \in 0 .. MaxConcurrent
    /\ request \in [Request -> Stage]
    /\ handling \in SUBSET Handler
    /\ closer \in [Closer -> {"none", "called", "returned"}]

\* Schedule has started its loops; New has returned.
Init ==
    /\ phase = "open"
    /\ cancelled = FALSE
    /\ late = FALSE
    /\ failed = FALSE
    /\ wg = Cardinality(Loop)
    /\ loops = Loop
    /\ slots = 0
    /\ request = [r \in Request |-> "new"]
    /\ handling = {}
    /\ closer = [c \in Closer |-> "none"]

-----------------------------------------------------------------------------
\* Webhook events.

Goto(r, stage) == request' = [request EXCEPT ![r] = stage]

\* Mutant: a slot more than processingSlots has.
SubmitBeyondCapacity(r) ==
    /\ request[r] = "new"
    /\ IF slots <= MaxConcurrent THEN slots' = slots + 1 /\ Goto(r, "slot")
                                 ELSE Goto(r, "refused") /\ UNCHANGED slots
    /\ UNCHANGED <<closeVars, cancelled, wg, loops, handling>>

\* submit: the non-blocking send on processingSlots.
Submit(r) ==
    /\ request[r] = "new"
    /\ IF slots < MaxConcurrent THEN slots' = slots + 1 /\ Goto(r, "slot")
                                ELSE Goto(r, "refused") /\ UNCHANGED slots
    /\ UNCHANGED <<closeVars, cancelled, wg, loops, handling>>

\* Mutant: closed is not looked at.
StartEventAnyTime(r) ==
    /\ request[r] = "slot"
    /\ Goto(r, "running") /\ wg' = wg + 1
    /\ UNCHANGED <<closeVars, cancelled, loops, slots, handling>>

\* Mutant: a refused goroutine keeps its slot.
StartEventKeepsSlot(r) ==
    /\ request[r] = "slot"
    /\ IF phase = "open" THEN Goto(r, "running") /\ wg' = wg + 1
                         ELSE Goto(r, "refused") /\ UNCHANGED wg
    /\ UNCHANGED <<closeVars, cancelled, loops, slots, handling>>

\* backgroundTasks.start, under its mutex.
StartEvent(r) ==
    /\ request[r] = "slot"
    /\ IF phase = "open" THEN Goto(r, "running") /\ wg' = wg + 1
                         ELSE Goto(r, "giveback") /\ UNCHANGED wg
    /\ UNCHANGED <<closeVars, cancelled, loops, slots, handling>>

GiveBack(r) ==
    /\ request[r] = "giveback"
    /\ slots > 0
    /\ slots' = slots - 1
    /\ Goto(r, "refused")
    /\ UNCHANGED <<closeVars, cancelled, wg, loops, handling>>

\* processWebhookEvent returns.
Process(r) ==
    /\ request[r] = "running"
    /\ Goto(r, "processed")
    /\ UNCHANGED <<closeVars, cancelled, wg, loops, slots, handling>>

\* Mutant: the goroutine takes a second token instead of giving back its own.
FreeSlotBlocks(r) ==
    /\ request[r] = "processed"
    /\ slots < MaxConcurrent
    /\ slots' = slots + 1
    /\ Goto(r, "freed")
    /\ UNCHANGED <<closeVars, cancelled, wg, loops, handling>>

\* The deferred receive of the goroutine.
FreeSlot(r) ==
    /\ request[r] = "processed"
    /\ slots > 0
    /\ slots' = slots - 1
    /\ Goto(r, "freed")
    /\ UNCHANGED <<closeVars, cancelled, wg, loops, handling>>

\* Mutant: the goroutine ends without wg.Done.
EventDoneUncounted(r) ==
    /\ request[r] = "freed"
    /\ Goto(r, "done")
    /\ UNCHANGED <<closeVars, cancelled, wg, loops, slots, handling>>

\* The deferred wg.Done.
EventDone(r) ==
    /\ request[r] = "freed"
    /\ Goto(r, "done")
    /\ wg' = wg - 1
    /\ UNCHANGED <<closeVars, cancelled, loops, slots, handling>>

-----------------------------------------------------------------------------
\* Loops, task handlers and the end of the application's context.

\* A loop sees that its context is done, between two ticks; the goroutine that
\* fetches GitLab's metadata is no loop and ends at any time.
LoopEnds(l) ==
    /\ l \in loops
    /\ cancelled \/ l \in OneShot
    /\ loops' = loops \ {l}
    /\ wg' = wg - 1
    /\ UNCHANGED <<closeVars, cancelled, eventVars, handling>>

\* The queue runs a job, until its Close has returned.
HandlerStarts(h) ==
    /\ h \notin handling
    /\ phase \in {"open", "stopped"}
    /\ handling' = handling \cup {h}
    /\ UNCHANGED <<closeVars, cancelled, wg, loops, eventVars>>

HandlerEnds(h) ==
    /\ h \in handling
    /\ handling' = handling \ {h}
    /\ UNCHANGED <<closeVars, cancelled, wg, loops, eventVars>>

\* Run cancels the context that the lifecycle context is derived from, before
\* it calls Close.
CancelApplication ==
    /\ ~cancelled
    /\ cancelled' = TRUE
    /\ UNCHANGED <<closeVars, wg, loops, eventVars, handling>>

-----------------------------------------------------------------------------
\* Close.  closeOnce lets one caller run close; the others block until it is over.

CallClose(c) ==
    /\ closer[c] = "none"
    /\ closer' = [closer EXCEPT ![c] = "called"]
    /\ UNCHANGED <<phase, late, failed, cancelled, wg, loops, eventVars, handling>>

Closing == \E c \in Closer : closer[c] = "called"

\* backgroundTasks.stop, under its mutex.
Stop ==
    /\ Closing
    /\ phase = "open"
    /\ phase' = "stopped"
    /\ cancelled' = TRUE
    /\ UNCHANGED <<late, failed, closer, wg, loops, eventVars, handling>>

\* Ten seconds after the call, or at the deadline of the caller.
DeadlinePasses ==
    /\ Closing
    /\ ~late
    /\ late' = TRUE
    /\ UNCHANGED <<phase, failed, closer, cancelled, wg, loops, eventVars, handling>>

\* CloseTimeout waits for the handlers that run, for five seconds at most.
CloseQueue ==
    /\ phase = "stopped"
    /\ phase' = "queueClosed"
    /\ \/ handling = {} /\ UNCHANGED failed
       \/ (handling # {} \/ late) /\ failed' = TRUE
    /\ UNCHANGED <<late, closer, cancelled, wg, loops, eventVars, handling>>

\* Mutant: the wait has no deadline.
WaitForGroup ==
    /\ phase = "queueClosed"
    /\ wg = 0
    /\ phase' = "waited"
    /\ UNCHANGED <<late, failed, closer, cancelled, wg, loops, eventVars, handling>>

\* backgroundTasks.wait: the group is done or the deadline has passed; when both
\* have happened, select takes either branch.
Wait ==
    /\ phase = "queueClosed"
    /\ phase' = "waited"
    /\ \/ wg = 0 /\ UNCHANGED failed
       \/ late /\ failed' = TRUE
    /\ UNCHANGED <<late, closer, cancelled, wg, loops, eventVars, handling>>

\* The Redis client is closed and the tracer shut down; both may report errors.
CloseClients ==
    /\ phase = "waited"
    /\ phase' = "done"
    /\ failed' \in {failed, TRUE}
    /\ UNCHANGED <<late, closer, cancelled, wg, loops, eventVars, handling>>

ReturnClose(c) ==
    /\ closer[c] = "called"
    /\ phase = "done"
    /\ closer' = [closer EXCEPT ![c] = "returned"]
    /\ UNCHANGED <<phase, late, failed, cancelled, wg, loops, eventVars, handling>>

-----------------------------------------------------------------------------
\* What a goroutine or a request does by itself, the event's processing aside.
EventStep(r) ==
    \/ StartEvent(r)
    \/ GiveBack(r)
    \/ FreeSlot(r)
    \/ EventDone(r)

CloseStep == Stop \/ CloseQueue \/ Wait \/ CloseClients

Next ==
    \/ \E r \in Request : Submit(r) \/ EventStep(r) \/ Process(r)
    \/ \E l \in Loop : LoopEnds(l)
    \/ \E h \in Handler : HandlerStarts(h) \/ HandlerEnds(h)
    \/ \E c \in Closer : CallClose(c) \/ ReturnClose(c)
    \/ CloseStep
    \/ CancelApplication
    \/ DeadlinePasses

Spec == Init /\ [][Next]_vars

(***************************************************************************)
(* Goroutines are scheduled, timers fire, and a loop gets to its select:   *)
(* what it does at a tick ends, as its calls end with the context.         *)
(* Neither task handlers nor the processing of events need ever end.       *)
(***************************************************************************)
Fairness ==
    /\ \A r \in Request : WF_vars(EventStep(r))
    /\ \A l \in Loop : WF_vars(cancelled /\ LoopEnds(l))
    /\ \A c \in Closer : WF_vars(ReturnClose(c))
    /\ WF_vars(CloseStep)
    /\ WF_vars(DeadlinePasses)

FairSpec == Spec /\ Fairness

-----------------------------------------------------------------------------
\* Safety.

At(stages) == {r \in Request : request[r] \in stages}

\* Goroutines of accepted events that are not over.
Events == At({"running", "processed", "freed"})

\* Requests and goroutines that will receive a token from processingSlots.
Holders == At({"slot", "giveback", "running", "processed"})

\* A token is in processingSlots exactly for every event that is processed or
\* being submitted, whatever races with Close: a refused submission returns its
\* slot and none is returned twice, so "bounded ... event-processing
\* concurrency" holds and capacity never shrinks.
SlotsExact == slots = Cardinality(Holders)

\* When Close has closed the clients, no loop or event runs unless the deadline
\* passed, and if Close reports no error, nothing runs at all, task handlers
\* included; nothing starts later.
IdleAfterClose ==
    phase = "done" =>
        /\ late \/ Events \cup loops = {}
        /\ failed \/ Events \cup loops \cup handling = {}

\* The WaitGroup counts the goroutines that are not over, so its counter is
\* never negative, which would panic, and Wait misses none.
GroupExact == wg = Cardinality(Events) + Cardinality(loops)

-----------------------------------------------------------------------------
\* Liveness.

\* Close returns to every caller, although handlers and events may hang.
CloseReturns == \A c \in Closer : closer[c] = "called" ~> closer[c] = "returned"

\* Every submitted event is refused or processed to its end, unless its
\* processing itself hangs, also when Close or the end of the application's
\* context overtakes it.
EventsSettle ==
    \A r \in Request :
        \/ <>[](request[r] = "running")
        \/ request[r] # "new" ~> request[r] \in {"refused", "done"}
=============================================================================
