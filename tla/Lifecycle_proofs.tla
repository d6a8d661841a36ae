-------------------------- MODULE Lifecycle_proofs --------------------------
(***************************************************************************)
(* Theorems about Lifecycle for any number of requests, loops, handlers    *)
(* and callers of Close and any bound on concurrent events.                *)
(***************************************************************************)
EXTENDS Lifecycle, FiniteSetTheorems, TLAPS

-----------------------------------------------------------------------------
\* Type correctness.

\* The types hold at first.
LEMMA InitType == Init => TypeOK
<1> SUFFICES ASSUME Init PROVE TypeOK
  OBVIOUS
<1>1. wg \in Int
  BY FS_CardinalityType, FiniteAssumption DEF Init
<1>2. slots \in 0 .. MaxConcurrent
  BY SlotAssumption DEF Init
<1>3. request \in [Request -> Stage]
  BY DEF Init, Stage
<1>4. closer \in [Closer -> {"none", "called", "returned"}]
  BY DEF Init
<1>5. QED
  BY <1>1, <1>2, <1>3, <1>4 DEF Init, TypeOK

\* Every step keeps the types.
LEMMA NextType == TypeOK /\ [Next]_vars => TypeOK'
<1> SUFFICES ASSUME TypeOK, [Next]_vars PROVE TypeOK'
  OBVIOUS
<1> USE DEF TypeOK, closeVars, eventVars
<1>1. ASSUME NEW r \in Request, Submit(r) \/ EventStep(r) \/ Process(r)
      PROVE  TypeOK'
  <2>1. request' \in [Request -> Stage]
    BY <1>1 DEF Submit, EventStep, Process, StartEvent, GiveBack, FreeSlot, EventDone, Goto, Stage
  <2>2. slots' \in 0 .. MaxConcurrent
    BY <1>1, SlotAssumption
       DEF Submit, EventStep, Process, StartEvent, GiveBack, FreeSlot, EventDone
  <2>3. wg' \in Int
    BY <1>1 DEF Submit, EventStep, Process, StartEvent, GiveBack, FreeSlot, EventDone
  <2>4. QED
    BY <1>1, <2>1, <2>2, <2>3
       DEF Submit, EventStep, Process, StartEvent, GiveBack, FreeSlot, EventDone
<1>2. ASSUME NEW l \in Loop, LoopEnds(l)
      PROVE  TypeOK'
  BY <1>2 DEF LoopEnds
<1>3. ASSUME NEW h \in Handler, HandlerStarts(h) \/ HandlerEnds(h)
      PROVE  TypeOK'
  BY <1>3 DEF HandlerStarts, HandlerEnds
<1>4. ASSUME NEW c \in Closer, CallClose(c) \/ ReturnClose(c)
      PROVE  TypeOK'
  BY <1>4 DEF CallClose, ReturnClose
<1>5. CASE CloseStep
  BY <1>5 DEF CloseStep, Stop, CloseQueue, Wait, CloseClients
<1>6. CASE CancelApplication \/ DeadlinePasses
  BY <1>6 DEF CancelApplication, DeadlinePasses
<1>7. CASE UNCHANGED vars
  BY <1>7 DEF vars
<1>8. QED
  BY <1>1, <1>2, <1>3, <1>4, <1>5, <1>6, <1>7 DEF Next

\* Every variable keeps its type: never more events hold a slot than
\* processingSlots has.
THEOREM TypeCorrect == Spec => []TypeOK
BY InitType, NextType, PTL DEF Spec

-----------------------------------------------------------------------------
\* Counting requests.  A step moves one request, which joins, leaves or stays in
\* or out of At(S).

\* The requests at some stages are finitely many.
LEMMA AtFinite ==
    ASSUME NEW S
    PROVE  IsFiniteSet(At(S)) /\ Cardinality(At(S)) \in Nat
<1>1. At(S) \subseteq Request
  BY DEF At
<1>2. QED
  BY <1>1, FiniteAssumption, FS_Subset, FS_CardinalityType

\* A request that comes to one of the stages is one more there.
LEMMA Joins ==
    ASSUME TypeOK, NEW r \in Request, NEW s, Goto(r, s), NEW S, request[r] \notin S, s \in S
    PROVE  Cardinality(At(S)') = Cardinality(At(S)) + 1
<1>1. At(S)' = At(S) \cup {r} /\ r \notin At(S)
  BY DEF At, Goto, TypeOK
<1>2. QED
  BY <1>1, AtFinite, FS_AddElement

\* A request that leaves them is one less.
LEMMA Leaves ==
    ASSUME TypeOK, NEW r \in Request, NEW s, Goto(r, s), NEW S, request[r] \in S, s \notin S
    PROVE  Cardinality(At(S)') = Cardinality(At(S)) - 1
<1>1. At(S)' = At(S) \ {r} /\ r \in At(S)
  BY DEF At, Goto, TypeOK
<1>2. QED
  BY <1>1, AtFinite, FS_RemoveElement

\* A request that moves among them, or elsewhere, changes nothing.
LEMMA Stays ==
    ASSUME TypeOK, NEW r \in Request, NEW s, Goto(r, s), NEW S, request[r] \in S <=> s \in S
    PROVE  At(S)' = At(S)
BY DEF At, Goto, TypeOK

-----------------------------------------------------------------------------
\* The slots.

HeldStages == {"slot", "giveback", "running", "processed"}

\* Every step keeps the slots exact (handlers.go, the channel processingSlots).
LEMMA NextSlots == TypeOK /\ SlotsExact /\ [Next]_vars => SlotsExact'
<1> SUFFICES ASSUME TypeOK, SlotsExact, [Next]_vars PROVE SlotsExact'
  OBVIOUS
<1> USE DEF SlotsExact, Holders, HeldStages
<1>0. Cardinality(At(HeldStages)) \in Nat /\ slots \in Nat
  BY AtFinite, SlotAssumption DEF TypeOK
<1>1. ASSUME NEW r \in Request, Submit(r) \/ EventStep(r) \/ Process(r)
      PROVE  SlotsExact'
  <2>1. CASE Submit(r)
    <3>1. CASE slots < MaxConcurrent
      BY <1>0, <2>1, <3>1, Joins DEF Submit
    <3>2. CASE ~(slots < MaxConcurrent)
      BY <2>1, <3>2, Stays DEF Submit
    <3>3. QED
      BY <3>1, <3>2
  <2>2. CASE StartEvent(r)
    BY <2>2, Stays DEF StartEvent
  <2>3. CASE GiveBack(r)
    BY <1>0, <2>3, Leaves DEF GiveBack
  <2>4. CASE FreeSlot(r)
    BY <1>0, <2>4, Leaves DEF FreeSlot
  <2>5. CASE EventDone(r)
    BY <2>5, Stays DEF EventDone
  <2>6. CASE Process(r)
    BY <2>6, Stays DEF Process
  <2>7. QED
    BY <1>1, <2>1, <2>2, <2>3, <2>4, <2>5, <2>6 DEF EventStep
<1>2. CASE UNCHANGED eventVars
  BY <1>2 DEF eventVars, At
<1>3. QED
  BY <1>1, <1>2
     DEF Next, LoopEnds, HandlerStarts, HandlerEnds, CallClose, ReturnClose, CloseStep, Stop,
         CloseQueue, Wait, CloseClients, CancelApplication, DeadlinePasses, vars

\* Every token in processingSlots belongs to one event or submission and is given
\* back once, in every interleaving with Close.
THEOREM SlotsAreExact == Spec => []SlotsExact
<1>1. Init => SlotsExact
  <2> SUFFICES ASSUME Init PROVE SlotsExact
    OBVIOUS
  <2>1. Holders = {}
    BY DEF Init, Holders, At
  <2>2. QED
    BY <2>1, FS_EmptySet DEF Init, SlotsExact
<1>2. QED
  BY <1>1, InitType, NextType, NextSlots, PTL DEF Spec

-----------------------------------------------------------------------------
\* The WaitGroup.

RunStages == {"running", "processed", "freed"}

\* The loops that run are finitely many.
LEMMA LoopsFinite ==
    ASSUME TypeOK
    PROVE  IsFiniteSet(loops) /\ Cardinality(loops) \in Nat
BY FiniteAssumption, FS_Subset, FS_CardinalityType DEF TypeOK

\* Every step keeps the wait group exact (lifecycle.go, backgroundTasks).
LEMMA NextGroup == TypeOK /\ GroupExact /\ [Next]_vars => GroupExact'
<1> SUFFICES ASSUME TypeOK, GroupExact, [Next]_vars PROVE GroupExact'
  OBVIOUS
<1> USE DEF GroupExact, Events, RunStages
<1>0. Cardinality(At(RunStages)) \in Nat /\ Cardinality(loops) \in Nat
  BY AtFinite, LoopsFinite
<1>1. ASSUME NEW r \in Request, Submit(r) \/ EventStep(r) \/ Process(r)
      PROVE  GroupExact'
  <2>0. loops' = loops
    BY <1>1 DEF Submit, EventStep, Process, StartEvent, GiveBack, FreeSlot, EventDone
  <2>1. CASE Submit(r)
    BY <2>0, <2>1, Stays DEF Submit
  <2>2. CASE StartEvent(r)
    <3>1. CASE phase = "open"
      BY <1>0, <2>0, <2>2, <3>1, Joins DEF StartEvent
    <3>2. CASE phase # "open"
      BY <2>0, <2>2, <3>2, Stays DEF StartEvent
    <3>3. QED
      BY <3>1, <3>2
  <2>3. CASE GiveBack(r)
    BY <2>0, <2>3, Stays DEF GiveBack
  <2>4. CASE FreeSlot(r)
    BY <2>0, <2>4, Stays DEF FreeSlot
  <2>5. CASE EventDone(r)
    BY <1>0, <2>0, <2>5, Leaves DEF EventDone
  <2>6. CASE Process(r)
    BY <2>0, <2>6, Stays DEF Process
  <2>7. QED
    BY <1>1, <2>1, <2>2, <2>3, <2>4, <2>5, <2>6 DEF EventStep
<1>2. ASSUME NEW l \in Loop, LoopEnds(l)
      PROVE  GroupExact'
  <2>1. Cardinality(loops') = Cardinality(loops) - 1
    BY <1>2, LoopsFinite, FS_RemoveElement DEF LoopEnds
  <2>2. At(RunStages)' = At(RunStages)
    BY <1>2 DEF LoopEnds, eventVars, At
  <2>3. QED
    BY <1>0, <1>2, <2>1, <2>2 DEF LoopEnds
<1>3. CASE UNCHANGED <<request, loops, wg>>
  BY <1>3 DEF At
<1>4. QED
  BY <1>1, <1>2, <1>3
     DEF Next, HandlerStarts, HandlerEnds, CallClose, ReturnClose, CloseStep, Stop,
         CloseQueue, Wait, CloseClients, CancelApplication, DeadlinePasses, vars, eventVars

\* The WaitGroup's counter is the number of goroutines that are not over.
THEOREM GroupIsExact == Spec => []GroupExact
<1>1. Init => GroupExact
  <2> SUFFICES ASSUME Init PROVE GroupExact
    OBVIOUS
  <2>1. Events = {}
    BY DEF Init, Events, At
  <2>2. Cardinality(Loop) \in Nat
    BY FiniteAssumption, FS_CardinalityType
  <2>3. QED
    BY <2>1, <2>2, FS_EmptySet DEF Init, GroupExact
<1>2. QED
  BY <1>1, InitType, NextType, NextGroup, PTL DEF Spec

-----------------------------------------------------------------------------
\* Shutdown.  What has ended when Close gets past a phase stays ended.

ShutInv ==
    /\ phase \notin {"open", "stopped"} => failed \/ handling = {}
    /\ phase \in {"waited", "done"} =>
          Events \cup loops = {} \/ (late /\ failed)

\* Every step keeps what the stages of Close have established.
LEMMA NextShut == TypeOK /\ GroupExact /\ ShutInv /\ [Next]_vars => ShutInv'
<1> SUFFICES ASSUME TypeOK, GroupExact, ShutInv, [Next]_vars PROVE ShutInv'
  OBVIOUS
<1>1. ASSUME NEW r \in Request, Submit(r) \/ EventStep(r) \/ Process(r)
      PROVE  ShutInv'
  <2>1. UNCHANGED <<closeVars, loops, handling>>
    BY <1>1 DEF Submit, EventStep, Process, StartEvent, GiveBack, FreeSlot, EventDone
  <2>2. CASE StartEvent(r) /\ phase = "open"
    BY <2>1, <2>2 DEF ShutInv, closeVars
  <2>3. CASE ~(StartEvent(r) /\ phase = "open")
    <3>1. Events' \subseteq Events
      BY <1>1, <2>3
         DEF Events, At, TypeOK, Submit, EventStep, Process, StartEvent, GiveBack, FreeSlot,
             EventDone, Goto
    <3>2. QED
      BY <2>1, <3>1 DEF ShutInv, closeVars
  <2>4. QED
    BY <2>2, <2>3
<1>2. ASSUME NEW l \in Loop, LoopEnds(l)
      PROVE  ShutInv'
  BY <1>2 DEF LoopEnds, closeVars, eventVars, ShutInv, Events, At
<1>3. ASSUME NEW h \in Handler, HandlerStarts(h) \/ HandlerEnds(h)
      PROVE  ShutInv'
  BY <1>3 DEF HandlerStarts, HandlerEnds, closeVars, eventVars, ShutInv, Events, At
<1>4. CASE Wait
  <2>1. CASE wg = 0
    <3>1. Cardinality(Events) = 0 /\ Cardinality(loops) = 0
      BY <2>1, AtFinite, LoopsFinite DEF GroupExact, Events
    <3>2. Events = {} /\ loops = {}
      BY <3>1, AtFinite, LoopsFinite, FS_EmptySet DEF Events
    <3>3. failed => failed'
      BY <1>4 DEF Wait, TypeOK
    <3>4. QED
      BY <1>4, <3>2, <3>3 DEF Wait, eventVars, ShutInv, Events, At
  <2>2. CASE wg # 0
    BY <1>4, <2>2 DEF Wait, eventVars, ShutInv, Events, At
  <2>3. QED
    BY <2>1, <2>2
<1>5. CASE Stop \/ CloseQueue \/ CloseClients
  BY <1>5 DEF Stop, CloseQueue, CloseClients, eventVars, ShutInv, Events, At
<1>6. CASE CancelApplication \/ DeadlinePasses
  BY <1>6 DEF CancelApplication, DeadlinePasses, closeVars, eventVars, ShutInv, Events, At
<1>7. ASSUME NEW c \in Closer, CallClose(c) \/ ReturnClose(c)
      PROVE  ShutInv'
  BY <1>7 DEF CallClose, ReturnClose, eventVars, ShutInv, Events, At
<1>8. CASE UNCHANGED vars
  BY <1>8 DEF vars, closeVars, eventVars, ShutInv, Events, At
<1>9. QED
  BY <1>1, <1>2, <1>3, <1>4, <1>5, <1>6, <1>7, <1>8 DEF Next, CloseStep

\* After Close no loop or event runs unless its deadline passed, and nothing at
\* all runs when it reported no error.
THEOREM CloseLeavesNothing == Spec => []IdleAfterClose
<1>1. Init => ShutInv
  BY DEF Init, ShutInv
<1>2. ShutInv => IdleAfterClose
  BY DEF ShutInv, IdleAfterClose
<1>3. QED
  BY <1>1, <1>2, TypeCorrect, GroupIsExact, NextShut, PTL DEF Spec
=============================================================================
