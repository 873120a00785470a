---------------------------- MODULE MCRedisQueue ----------------------------
(* Instances of RedisQueue for TLC. *)
EXTENDS RedisQueue, TLC

CONSTANTS a, b

\* a chain of two jobs
MCChain == (a :> b) @@ (b :> NoJob)

\* a single job
MCSingle == a :> NoJob

MCSymmetry == Permutations(Workers)

=============================================================================
