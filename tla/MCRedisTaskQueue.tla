-------------------------- MODULE MCRedisTaskQueue --------------------------
\* Instances of RedisTaskQueue for TLC.
EXTENDS RedisTaskQueue, TLC

\* Replicas, keys, nonces and workers are interchangeable (not used with liveness).
Symmetry == Permutations(Replica) \cup Permutations(Key)
                \cup Permutations(Nonce) \cup Permutations(Worker)
=============================================================================
