-------------------------- MODULE MCLocalTaskQueue --------------------------
\* Instances of LocalTaskQueue for TLC.
EXTENDS LocalTaskQueue, TLC

\* Keys, callers and workers are interchangeable (not used with liveness).
Symmetry == Permutations(Key) \cup Permutations(Caller) \cup Permutations(Worker)
=============================================================================
