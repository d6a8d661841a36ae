-------------------------- MODULE TaskReservation --------------------------
(***************************************************************************)
(* What the task queue promises, with nothing of how it does it: for each  *)
(* task key (task type and unique ID) at most one job exists at any time;  *)
(* a reserved key is either withdrawn, its job never having run, or its    *)
(* job runs once and is then counted as executed.                          *)
(*                                                                         *)
(* The counter is a uint64 in the code; CounterModulus stands for 2^64.    *)
(***************************************************************************)
EXTENDS Naturals

CONSTANTS Key,             \* task keys: (task type, unique ID)
          CounterModulus   \* the executed-tasks counter wraps here

VARIABLES phase,           \* phase[k]: where the job of key k stands
          executed         \* executed jobs, modulo CounterModulus

vars == <<phase, executed>>

Phase == {"free", "reserved", "running"}

TypeOK ==
    /\ phase \in [Key -> Phase]
    /\ executed \in 0 .. (CounterModulus - 1)

Init ==
    /\ phase = [k \in Key |-> "free"]
    /\ executed = 0

\* A key is reserved only when no job of that key exists.
Reserve(k) ==
    /\ phase[k] = "free"
    /\ phase' = [phase EXCEPT ![k] = "reserved"]
    /\ UNCHANGED executed

\* The job could not be published: the key is free again, nothing is counted.
Withdraw(k) ==
    /\ phase[k] = "reserved"
    /\ phase' = [phase EXCEPT ![k] = "free"]
    /\ UNCHANGED executed

Start(k) ==
    /\ phase[k] = "reserved"
    /\ phase' = [phase EXCEPT ![k] = "running"]
    /\ UNCHANGED executed

Complete(k) ==
    /\ phase[k] = "running"
    /\ phase' = [phase EXCEPT ![k] = "free"]
    /\ executed' = (executed + 1) % CounterModulus

Next == \E k \in Key : Reserve(k) \/ Withdraw(k) \/ Start(k) \/ Complete(k)

\* A reservation does not stay for ever: the job is withdrawn or started, and
\* a started job completes.
Fairness == \A k \in Key : /\ WF_vars(Withdraw(k) \/ Start(k))
                           /\ WF_vars(Complete(k))

Spec == Init /\ [][Next]_vars /\ Fairness
=============================================================================
